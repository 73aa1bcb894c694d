---------------------------- MODULE ChannelProofs ----------------------------
(* What reaches a channel and what comes from it: theorems about                *)
(* CommunicationService and DiscordGateway for any keys, messages, calls,       *)
(* connections and faults.                                                      *)
EXTENDS CommunicationService, DiscordGateway, SequenceTheorems, FiniteSetTheorems, TLAPS

(********************************* The locks **********************************)

LocksType == locks \in [Key \cup Message -> Seq(Send \cup Delivery)]

(* Who waits for a lock takes it from nobody. *)
LEMMA EnqueueLock ==
  ASSUME LocksType, NEW call \in Send \cup Delivery, NEW key \in Key \cup Message,
         Enqueue(call, key)
  PROVE  /\ LocksType'
         /\ \A c, k : k \in Key \cup Message /\ Holds(c, k) => Holds(c, k)'
         /\ \A k \in (Key \cup Message) \ {key} : locks'[k] = locks[k]
<1>1. locks[key] \in Seq(Send \cup Delivery)
  BY DEF LocksType
<1>2. /\ Append(locks[key], call) \in Seq(Send \cup Delivery)
      /\ locks[key] # <<>> => /\ Append(locks[key], call) # <<>>
                              /\ Head(Append(locks[key], call)) = Head(locks[key])
  BY <1>1, HeadTailAppend, AppendProperties
<1>3. LocksType'
  BY <1>2 DEF LocksType, Enqueue
<1>4. locks'[key] = Append(locks[key], call)
      /\ \A k \in (Key \cup Message) \ {key} : locks'[k] = locks[k]
  BY DEF LocksType, Enqueue
<1>5. ASSUME NEW c, NEW k, k \in Key \cup Message, Holds(c, k)
      PROVE  Holds(c, k)'
  BY <1>2, <1>4, <1>5 DEF Holds
<1> QED BY <1>3, <1>4, <1>5

(* Who holds a lock can give it up; the other locks stay as they are. *)
LEMMA ReleaseLock ==
  ASSUME LocksType, NEW key \in Key \cup Message, locks[key] # <<>>, Release(key)
  PROVE  /\ LocksType'
         /\ \A k \in (Key \cup Message) \ {key} : locks'[k] = locks[k]
<1>1. Tail(locks[key]) \in Seq(Send \cup Delivery)
  BY HeadTailProperties DEF LocksType
<1> QED BY <1>1 DEF LocksType, Release

(*********************************** Sends ************************************)

(* Between the load of its record and its end a send holds the lock of its key. *)
Sending == {"scanning", "authorizing", "recorded", "publishing"}

SendRecord ==
  [pc : {"new", "queued", "done"} \cup Sending, key : Key \cup {NewSend.key},
   by : Nat, approved : Nat]

SendTypes ==
  /\ sends \in [Send -> SendRecord]
  /\ \A s \in Send : sends[s].pc \in {"queued"} \cup Sending => sends[s].key \in Key
  /\ outbound \in [Key -> {"none", "pending", "sent", "unknown"}]
  /\ published \in [Key -> Nat]
  /\ adapter \in Nat /\ registrations \in Nat /\ revision \in Nat
  /\ LocksType

SendsHold == \A s \in Send : sends[s].pc \in Sending => Holds(s, sends[s].key)

(* What a send may rely on while it holds the lock. *)
RecordsKept ==
  \A s \in Send :
    LET k == sends[s].key
    IN  /\ sends[s].pc \in {"scanning", "authorizing"} => outbound[k] = "none"
        /\ sends[s].pc = "recorded" => outbound[k] = "pending" /\ published[k] = 0
        /\ sends[s].pc = "publishing" => outbound[k] = "pending" /\ published[k] = 1

SendInv == SendTypes /\ SendsHold /\ RecordsKept /\ SentAtMostOnce

LEMMA NewSendType ==
  /\ NewSend \in SendRecord /\ NewSend.pc = "new"
  /\ [NewSend EXCEPT !.pc = "done"] \in SendRecord /\ [NewSend EXCEPT !.pc = "done"].pc = "done"
BY DEF NewSend, SendRecord

LEMMA SendInit == CommInit => SendInv
<1> SUFFICES ASSUME CommInit PROVE SendInv
  OBVIOUS
<1>1. PICK mix \in CallMixes :
        sends = [s \in Send |-> IF s \in mix THEN NewSend ELSE [NewSend EXCEPT !.pc = "done"]]
  BY DEF CommInit
<1>2. sends \in [Send -> SendRecord] /\ \A s \in Send : sends[s].pc \in {"new", "done"}
  BY <1>1, NewSendType
<1>3. LocksType
  BY EmptySeq DEF CommInit, LocksType
<1>4. SendTypes
  BY <1>2, <1>3 DEF CommInit, SendTypes, Sending
<1>5. SendsHold /\ RecordsKept
  BY <1>2 DEF SendsHold, RecordsKept, Sending
<1>6. SentAtMostOnce
  BY DEF CommInit, SentAtMostOnce
<1> QED BY <1>4, <1>5, <1>6 DEF SendInv

(* One send goes on.  Only under the lock of its key does it change what is     *)
(* stored and sent for that key, and nobody else's lock is lost.                *)
LEMMA SendMoves ==
  ASSUME SendInv, SendTypes', NEW s \in Send, NEW k \in Key,
         Holds(s, k) \/ UNCHANGED <<outbound, published>>,
         \A t \in Send \ {s} : sends'[t] = sends[t],
         \A j \in Key \ {k} : outbound'[j] = outbound[j] /\ published'[j] = published[j],
         \A t \in Send \ {s} : sends[t].pc \in Sending => Holds(t, sends[t].key)',
         sends'[s].pc \in Sending => sends'[s].key = k /\ Holds(s, k)',
         sends'[s].pc \in {"scanning", "authorizing"} => outbound'[k] = "none",
         sends'[s].pc = "recorded" => outbound'[k] = "pending" /\ published'[k] = 0,
         sends'[s].pc = "publishing" => outbound'[k] = "pending" /\ published'[k] = 1,
         published'[k] <= 1, published'[k] = 1 => outbound'[k] # "none"
  PROVE  SendInv'
<1>1. SendsHold'
  BY DEF SendsHold
<1>2. \A t \in Send \ {s} : sends[t].pc \in Sending =>
         /\ sends[t].key \in Key
         /\ outbound'[sends[t].key] = outbound[sends[t].key]
         /\ published'[sends[t].key] = published[sends[t].key]
  BY DEF SendInv, SendTypes, SendsHold, Holds
<1>3. RecordsKept'
  BY <1>2 DEF SendInv, RecordsKept, Sending
<1>4. SentAtMostOnce'
  BY DEF SendInv, SentAtMostOnce
<1> QED BY <1>1, <1>3, <1>4 DEF SendInv

(* A send ends and gives up the lock it holds. *)
LEMMA EndsMoves ==
  ASSUME SendInv, NEW s \in Send, sends[s].pc \in {"queued"} \cup Sending,
         Holds(s, sends[s].key), SendEnds(s)
  PROVE  /\ sends' \in [Send -> SendRecord] /\ LocksType'
         /\ sends'[s].pc = "done"
         /\ \A t \in Send \ {s} : sends'[t] = sends[t]
         /\ \A t \in Send \ {s} : sends[t].pc \in Sending => Holds(t, sends[t].key)'
         /\ \A t \in Send : sends'[t].pc \in {"queued"} \cup Sending => sends'[t].key \in Key
<1> DEFINE k == sends[s].key
<1>1. sends \in [Send -> SendRecord] /\ k \in Key /\ LocksType
  BY DEF SendInv, SendTypes
<1>2. sends' = [sends EXCEPT ![s] = [NewSend EXCEPT !.pc = "done"]]
  BY DEF SendEnds
<1>3. /\ sends' \in [Send -> SendRecord] /\ sends'[s].pc = "done"
      /\ \A t \in Send \ {s} : sends'[t] = sends[t]
  BY <1>1, <1>2, NewSendType
<1>4. PICK key \in Key : key = k
  BY <1>1
<1>5. locks[key] # <<>> /\ Release(key)
  BY <1>4 DEF SendEnds, Holds
<1>6. LocksType' /\ \A j \in (Key \cup Message) \ {key} : locks'[j] = locks[j]
  BY <1>1, <1>5, ReleaseLock
<1>7. ASSUME NEW t \in Send \ {s}, sends[t].pc \in Sending
      PROVE  Holds(t, sends[t].key)'
  <2>1. Holds(t, sends[t].key) /\ sends[t].key \in Key
    BY <1>7 DEF SendInv, SendsHold, SendTypes
  <2>2. sends[t].key # key
    BY <1>4, <2>1 DEF Holds
  <2>3. sends'[t].key = sends[t].key /\ locks'[sends[t].key] = locks[sends[t].key]
    BY <1>3, <1>6, <2>1, <2>2
  <2> QED BY <2>1, <2>3 DEF Holds
<1>8. \A t \in Send : sends'[t].pc \in {"queued"} \cup Sending => sends'[t].key \in Key
  BY <1>3 DEF SendInv, SendTypes, Sending
<1> QED BY <1>3, <1>6, <1>7, <1>8

(* A step of a send that keeps its lock. *)
LEMMA KeepsMoves ==
  ASSUME SendInv, NEW s \in Send, NEW e \in SendRecord, sends' = [sends EXCEPT ![s] = e],
         e.key \in Key, locks' = locks
  PROVE  /\ sends' \in [Send -> SendRecord] /\ LocksType' /\ sends'[s] = e
         /\ \A t \in Send \ {s} : sends'[t] = sends[t]
         /\ \A t \in Send \ {s} : sends[t].pc \in Sending => Holds(t, sends[t].key)'
         /\ \A t \in Send : sends'[t].pc \in {"queued"} \cup Sending => sends'[t].key \in Key
<1>1. sends \in [Send -> SendRecord]
  BY DEF SendInv, SendTypes
<1>2. /\ sends' \in [Send -> SendRecord] /\ sends'[s] = e
      /\ \A t \in Send \ {s} : sends'[t] = sends[t]
  BY <1>1
<1>3. LocksType'
  BY DEF SendInv, SendTypes, LocksType
<1>4. \A t \in Send \ {s} : sends[t].pc \in Sending => Holds(t, sends[t].key)'
  BY <1>2 DEF SendInv, SendsHold, Holds
<1>5. \A t \in Send : sends'[t].pc \in {"queued"} \cup Sending => sends'[t].key \in Key
  BY <1>2 DEF SendInv, SendTypes
<1> QED BY <1>2, <1>3, <1>4, <1>5

LEMMA RequestInv ==
  ASSUME SendInv, NEW s \in Send, NEW k \in Key, Request(s, k)
  PROVE  SendInv'
<1> DEFINE e == [NewSend EXCEPT !.pc = "queued", !.key = k, !.by = adapter]
<1>1. /\ sends \in [Send -> SendRecord] /\ adapter \in Nat /\ LocksType
      /\ \A t \in Send : sends[t].pc \in {"queued"} \cup Sending => sends[t].key \in Key
  BY DEF SendInv, SendTypes
<1>2. e \in SendRecord /\ e.pc = "queued" /\ e.key = k
  BY <1>1 DEF NewSend, SendRecord
<1>3. /\ sends' \in [Send -> SendRecord] /\ sends'[s] = e
      /\ \A t \in Send \ {s} : sends'[t] = sends[t]
  BY <1>1, <1>2 DEF Request
<1>4. LocksType' /\ \A c, j : j \in Key \cup Message /\ Holds(c, j) => Holds(c, j)'
  BY <1>1, EnqueueLock DEF Request
<1>5. ASSUME NEW t \in Send \ {s}, sends[t].pc \in Sending
      PROVE  Holds(t, sends[t].key)'
  <2>1. PICK j \in Key : j = sends[t].key
    BY <1>1, <1>5
  <2>2. Holds(t, j)'
    BY <1>5, <1>4, <2>1 DEF SendInv, SendsHold
  <2> QED BY <1>3, <2>1, <2>2 DEF Holds
<1>6. UNCHANGED <<outbound, published>>
  BY DEF Request, outboundState
<1>7. SendTypes'
  BY <1>1, <1>2, <1>3, <1>4, <1>6 DEF SendInv, SendTypes, Request, lifecycle, outboundState
<1>8. published[k] <= 1 /\ (published[k] = 1 => outbound[k] # "none")
  BY DEF SendInv, SentAtMostOnce
<1> QED BY <1>2, <1>3, <1>5, <1>6, <1>7, <1>8, SendMoves DEF Sending

(* Before anything is recorded: a send that goes on has found no record. *)
LEMMA LoadOutboundInv ==
  ASSUME SendInv, NEW s \in Send, LoadOutbound(s)
  PROVE  SendInv'
<1>1. /\ sends \in [Send -> SendRecord] /\ sends[s].key \in Key /\ sends[s].pc = "queued"
      /\ UNCHANGED <<outbound, published, adapter, registrations, revision>>
  BY DEF SendInv, SendTypes, LoadOutbound, SendAt, lifecycle
<1>2. PICK k \in Key : k = sends[s].key
  BY <1>1
<1>3. /\ Holds(s, k) /\ published[k] <= 1 /\ (published[k] = 1 => outbound[k] # "none")
  BY <1>2 DEF LoadOutbound, SendInv, SentAtMostOnce
<1>4. CASE outbound[k] = "none" /\ SendGoes(s, "scanning") /\ UNCHANGED locks
  <2> DEFINE e == [sends[s] EXCEPT !.pc = "scanning"]
  <2>1. e \in SendRecord /\ e.pc = "scanning" /\ e.key = k
    BY <1>1, <1>2 DEF SendRecord, Sending
  <2>2. sends' = [sends EXCEPT ![s] = e] /\ locks' = locks
    BY <1>4 DEF SendGoes
  <2>3. /\ sends' \in [Send -> SendRecord] /\ LocksType' /\ sends'[s] = e
        /\ \A t \in Send \ {s} : sends'[t] = sends[t]
        /\ \A t \in Send \ {s} : sends[t].pc \in Sending => Holds(t, sends[t].key)'
        /\ \A t \in Send : sends'[t].pc \in {"queued"} \cup Sending => sends'[t].key \in Key
    BY <2>1, <2>2, KeepsMoves
  <2>4. SendTypes'
    BY <1>1, <2>3 DEF SendInv, SendTypes
  <2>5. Holds(s, k)'
    BY <1>3, <2>2 DEF Holds
  <2> QED BY <1>1, <1>3, <1>4, <2>1, <2>3, <2>4, <2>5, SendMoves
<1>5. CASE SendEnds(s)
  <2>1. /\ sends' \in [Send -> SendRecord] /\ LocksType'
        /\ sends'[s].pc = "done"
        /\ \A t \in Send \ {s} : sends'[t] = sends[t]
        /\ \A t \in Send \ {s} : sends[t].pc \in Sending => Holds(t, sends[t].key)'
        /\ \A t \in Send : sends'[t].pc \in {"queued"} \cup Sending => sends'[t].key \in Key
    BY <1>1, <1>2, <1>3, <1>5, EndsMoves
  <2>2. SendTypes'
    BY <1>1, <2>1 DEF SendInv, SendTypes
  <2> QED BY <1>1, <1>3, <2>1, <2>2, SendMoves DEF Sending
<1> QED BY <1>2, <1>4, <1>5 DEF LoadOutbound

(* A send that holds its lock ends, and what it leaves in the record of its key *)
(* forgets no message that was sent.                                            *)
LEMMA EndInv ==
  ASSUME SendInv, NEW s \in Send, sends[s].pc \in Sending, SendEnds(s),
         NEW o \in {"none", "pending", "sent", "unknown"},
         outbound' = [outbound EXCEPT ![sends[s].key] = o],
         published[sends[s].key] = 1 => o # "none",
         UNCHANGED <<published, adapter, registrations>>, revision' \in Nat
  PROVE  SendInv'
<1>1. PICK k \in Key : k = sends[s].key
  BY DEF SendInv, SendTypes
<1>2. Holds(s, k)
  BY <1>1 DEF SendInv, SendsHold
<1>3. /\ sends' \in [Send -> SendRecord] /\ LocksType'
      /\ sends'[s].pc = "done"
      /\ \A t \in Send \ {s} : sends'[t] = sends[t]
      /\ \A t \in Send \ {s} : sends[t].pc \in Sending => Holds(t, sends[t].key)'
      /\ \A t \in Send : sends'[t].pc \in {"queued"} \cup Sending => sends'[t].key \in Key
  BY <1>1, <1>2, EndsMoves
<1>4. SendTypes'
  BY <1>1, <1>3 DEF SendInv, SendTypes
<1>5. /\ outbound'[k] = o
      /\ \A j \in Key \ {k} : outbound'[j] = outbound[j] /\ published'[j] = published[j]
  BY <1>1 DEF SendInv, SendTypes
<1>6. published[k] <= 1
  BY <1>1 DEF SendInv, SentAtMostOnce
<1> QED BY <1>1, <1>2, <1>3, <1>4, <1>5, <1>6, SendMoves DEF Sending

(* A send goes on with its lock, and what is recorded and sent fits the step it *)
(* has reached.                                                                 *)
LEMMA KeepInv ==
  ASSUME SendInv, NEW s \in Send, sends[s].pc \in Sending,
         NEW e \in SendRecord, e.key = sends[s].key, sends' = [sends EXCEPT ![s] = e],
         NEW o \in {"none", "pending"}, NEW n \in 0 .. 1,
         outbound' = [outbound EXCEPT ![e.key] = o],
         published' = [published EXCEPT ![e.key] = n],
         \/ e.pc = "authorizing" /\ o = "none" /\ n = 0
         \/ e.pc = "recorded" /\ o = "pending" /\ n = 0
         \/ e.pc = "publishing" /\ o = "pending" /\ n = 1,
         UNCHANGED <<locks, adapter, registrations>>, revision' \in Nat
  PROVE  SendInv'
<1>1. PICK k \in Key : k = sends[s].key
  BY DEF SendInv, SendTypes
<1>2. Holds(s, k) /\ Holds(s, k)'
  BY <1>1 DEF SendInv, SendsHold, Holds
<1>3. /\ sends' \in [Send -> SendRecord] /\ LocksType' /\ sends'[s] = e
      /\ \A t \in Send \ {s} : sends'[t] = sends[t]
      /\ \A t \in Send \ {s} : sends[t].pc \in Sending => Holds(t, sends[t].key)'
      /\ \A t \in Send : sends'[t].pc \in {"queued"} \cup Sending => sends'[t].key \in Key
  BY <1>1, KeepsMoves
<1>4. SendTypes'
  BY <1>1, <1>3 DEF SendInv, SendTypes
<1>5. /\ outbound'[k] = o /\ published'[k] = n
      /\ \A j \in Key \ {k} : outbound'[j] = outbound[j] /\ published'[j] = published[j]
  BY <1>1 DEF SendInv, SendTypes
<1>6. o = "none" => n # 1
  OBVIOUS
<1>7. n <= 1
  OBVIOUS
<1> QED BY <1>1, <1>2, <1>3, <1>4, <1>5, <1>6, <1>7, SendMoves

(* Nothing is stored for the key of a send that is being scanned or authorized, *)
(* and nothing was sent for it.                                                 *)
LEMMA NothingSent ==
  ASSUME SendInv, NEW s \in Send, sends[s].pc \in {"scanning", "authorizing"}
  PROVE  outbound[sends[s].key] = "none" /\ published[sends[s].key] = 0
<1>1. PICK k \in Key : k = sends[s].key
  BY DEF SendInv, SendTypes, Sending
<1>2. outbound[k] = "none"
  BY <1>1 DEF SendInv, RecordsKept
<1>3. published[k] \in Nat /\ published[k] <= 1 /\ published[k] # 1
  BY <1>2 DEF SendInv, SendTypes, SentAtMostOnce
<1> QED BY <1>1, <1>2, <1>3

LEMMA ScanEndsInv ==
  ASSUME SendInv, NEW s \in Send, ScanEnds(s)
  PROVE  SendInv'
<1>1. /\ sends \in [Send -> SendRecord] /\ sends[s].key \in Key /\ sends[s].pc = "scanning"
      /\ outbound \in [Key -> {"none", "pending", "sent", "unknown"}]
      /\ published \in [Key -> Nat] /\ revision \in Nat
      /\ UNCHANGED <<outbound, published, adapter, registrations>>
  BY DEF SendInv, SendTypes, ScanEnds, SendAt, lifecycle, Sending
<1>2. outbound[sends[s].key] = "none" /\ published[sends[s].key] = 0
  BY <1>1, NothingSent
<1>3. CASE \E level \in {revision, revision + 1} \cap (0 .. MaxRevision) :
             /\ revision' = level
             /\ sends' = [sends EXCEPT ![s].pc = "authorizing", ![s].approved = level]
             /\ UNCHANGED locks
  <2>1. PICK level \in {revision, revision + 1} \cap (0 .. MaxRevision) :
          /\ revision' = level
          /\ sends' = [sends EXCEPT ![s].pc = "authorizing", ![s].approved = level]
          /\ UNCHANGED locks
    BY <1>3
  <2> DEFINE e == [sends[s] EXCEPT !.pc = "authorizing", !.approved = level]
  <2>2. level \in Nat
    BY <1>1
  <2>3. e \in SendRecord /\ e.key = sends[s].key /\ e.pc = "authorizing"
    BY <1>1, <2>2 DEF SendRecord, Sending
  <2>4. sends' = [sends EXCEPT ![s] = e]
    BY <2>1
  <2>5. /\ outbound' = [outbound EXCEPT ![e.key] = "none"]
        /\ published' = [published EXCEPT ![e.key] = 0]
    BY <1>1, <1>2, <2>3
  <2>6. /\ sends[s].pc \in Sending /\ revision' \in Nat
        /\ UNCHANGED <<locks, adapter, registrations>>
    BY <1>1, <2>1, <2>2 DEF Sending
  <2>7. "none" \in {"none", "pending"} /\ 0 \in 0 .. 1
    OBVIOUS
  <2> HIDE DEF e
  <2> QED BY <2>3, <2>4, <2>5, <2>6, <2>7, KeepInv
<1>4. CASE SendEnds(s) /\ UNCHANGED revision
  <2>1. outbound' = [outbound EXCEPT ![sends[s].key] = "none"]
    BY <1>1, <1>2
  <2>2. /\ sends[s].pc \in Sending /\ SendEnds(s)
        /\ published[sends[s].key] = 1 => "none" # "none"
        /\ UNCHANGED <<published, adapter, registrations>> /\ revision' \in Nat
    BY <1>1, <1>2, <1>4 DEF Sending
  <2>3. "none" \in {"none", "pending", "sent", "unknown"}
    OBVIOUS
  <2> QED BY <2>1, <2>2, <2>3, EndInv, Zenon
<1> QED BY <1>3, <1>4 DEF ScanEnds

LEMMA AuthorizedInv ==
  ASSUME SendInv, NEW s \in Send, Authorized(s)
  PROVE  SendInv'
<1>1. /\ sends \in [Send -> SendRecord] /\ sends[s].key \in Key /\ sends[s].pc = "authorizing"
      /\ outbound \in [Key -> {"none", "pending", "sent", "unknown"}]
      /\ published \in [Key -> Nat] /\ revision \in Nat
      /\ UNCHANGED <<published, adapter, registrations, revision>>
  BY DEF SendInv, SendTypes, Authorized, SendAt, lifecycle, Sending
<1>2. outbound[sends[s].key] = "none" /\ published[sends[s].key] = 0
  BY <1>1, NothingSent
<1>3. CASE /\ outbound' = [outbound EXCEPT ![sends[s].key] = "pending"]
           /\ SendGoes(s, "recorded")
           /\ UNCHANGED locks
  <2> DEFINE e == [sends[s] EXCEPT !.pc = "recorded"]
  <2>1. e \in SendRecord /\ e.key = sends[s].key /\ e.pc = "recorded"
    BY <1>1 DEF SendRecord, Sending
  <2>2. sends' = [sends EXCEPT ![s] = e]
    BY <1>3 DEF SendGoes
  <2>3. /\ outbound' = [outbound EXCEPT ![e.key] = "pending"]
        /\ published' = [published EXCEPT ![e.key] = 0]
    BY <1>1, <1>2, <1>3, <2>1
  <2>4. /\ sends[s].pc \in Sending /\ revision' \in Nat
        /\ UNCHANGED <<locks, adapter, registrations>>
    BY <1>1, <1>3 DEF Sending
  <2>5. "pending" \in {"none", "pending"} /\ 0 \in 0 .. 1
    OBVIOUS
  <2> HIDE DEF e
  <2> QED BY <2>1, <2>2, <2>3, <2>4, <2>5, KeepInv
<1>4. CASE SendEnds(s) /\ UNCHANGED outbound
  <2>1. outbound' = [outbound EXCEPT ![sends[s].key] = "none"]
    BY <1>1, <1>2, <1>4
  <2>2. /\ sends[s].pc \in Sending /\ SendEnds(s)
        /\ published[sends[s].key] = 1 => "none" # "none"
        /\ UNCHANGED <<published, adapter, registrations>> /\ revision' \in Nat
    BY <1>1, <1>2, <1>4 DEF Sending
  <2>3. "none" \in {"none", "pending", "sent", "unknown"}
    OBVIOUS
  <2> QED BY <2>1, <2>2, <2>3, EndInv, Zenon
<1> QED BY <1>3, <1>4 DEF Authorized

(* Only what was not handed to the adapter is forgotten. *)
LEMMA WithdrawInv ==
  ASSUME SendInv, NEW s \in Send, Withdraw(s)
  PROVE  SendInv'
<1>1. /\ sends[s].key \in Key /\ sends[s].pc = "recorded" /\ revision \in Nat
      /\ outbound \in [Key -> {"none", "pending", "sent", "unknown"}]
      /\ UNCHANGED <<published, adapter, registrations, revision>> /\ SendEnds(s)
  BY DEF SendInv, SendTypes, Withdraw, SendAt, lifecycle, Sending
<1>2. outbound[sends[s].key] = "pending" /\ published[sends[s].key] = 0
  BY <1>1 DEF SendInv, RecordsKept
<1>3. PICK o \in {"none", "pending"} : outbound' = [outbound EXCEPT ![sends[s].key] = o]
  BY <1>1, <1>2 DEF Withdraw
<1>4. /\ sends[s].pc \in Sending /\ SendEnds(s)
      /\ published[sends[s].key] = 1 => o # "none"
      /\ UNCHANGED <<published, adapter, registrations>> /\ revision' \in Nat
  BY <1>1, <1>2 DEF Sending
<1>5. o \in {"none", "pending", "sent", "unknown"}
  OBVIOUS
<1> QED BY <1>3, <1>4, <1>5, EndInv, Zenon

LEMMA PublishInv ==
  ASSUME SendInv, NEW s \in Send, Publish(s)
  PROVE  SendInv'
<1> DEFINE e == [sends[s] EXCEPT !.pc = "publishing"]
<1>1. /\ sends \in [Send -> SendRecord] /\ sends[s].key \in Key /\ sends[s].pc = "recorded"
      /\ outbound \in [Key -> {"none", "pending", "sent", "unknown"}] /\ revision \in Nat
      /\ UNCHANGED <<outbound, adapter, registrations, revision, locks>>
  BY DEF SendInv, SendTypes, Publish, SendAt, lifecycle, Sending
<1>2. outbound[sends[s].key] = "pending" /\ published[sends[s].key] = 0
  BY <1>1 DEF SendInv, RecordsKept
<1>3. e \in SendRecord /\ e.key = sends[s].key /\ e.pc = "publishing"
  BY <1>1 DEF SendRecord, Sending
<1>4. sends' = [sends EXCEPT ![s] = e]
  BY DEF Publish, SendGoes
<1>5. /\ outbound' = [outbound EXCEPT ![e.key] = "pending"]
      /\ published' = [published EXCEPT ![e.key] = 1]
  BY <1>1, <1>2, <1>3 DEF Publish
<1>6. /\ sends[s].pc \in Sending /\ revision' \in Nat
      /\ UNCHANGED <<locks, adapter, registrations>>
  BY <1>1 DEF Sending
<1>7. "pending" \in {"none", "pending"} /\ 1 \in 0 .. 1
  OBVIOUS
<1> HIDE DEF e
<1> QED BY <1>3, <1>4, <1>5, <1>6, <1>7, KeepInv

(* A message that was handed over keeps its record, however the send ends. *)
LEMMA PublishedInv ==
  ASSUME SendInv, NEW s \in Send, Published(s)
  PROVE  SendInv'
<1>1. /\ sends[s].key \in Key /\ sends[s].pc = "publishing" /\ revision \in Nat
      /\ outbound \in [Key -> {"none", "pending", "sent", "unknown"}]
      /\ UNCHANGED <<published, adapter, registrations, revision>> /\ SendEnds(s)
  BY DEF SendInv, SendTypes, Published, SendAt, lifecycle, Sending
<1>2. outbound[sends[s].key] = "pending"
  BY <1>1 DEF SendInv, RecordsKept
<1>3. PICK o \in {"pending", "sent", "unknown"} : outbound' = [outbound EXCEPT ![sends[s].key] = o]
  BY <1>1, <1>2 DEF Published
<1>4. /\ sends[s].pc \in Sending /\ SendEnds(s)
      /\ published[sends[s].key] = 1 => o # "none"
      /\ UNCHANGED <<published, adapter, registrations>> /\ revision' \in Nat
  BY <1>1 DEF Sending
<1>5. o \in {"none", "pending", "sent", "unknown"}
  OBVIOUS
<1> QED BY <1>3, <1>4, <1>5, EndInv, Zenon

(* Steps that are not of a send: they leave the sends, their records and the    *)
(* locks of keys as they are.                                                   *)
LEMMA OthersInv ==
  ASSUME SendInv, UNCHANGED <<sends, outbound, published>>, LocksType',
         \A k \in Key : locks'[k] = locks[k],
         adapter' \in Nat, registrations' \in Nat, revision' \in Nat
  PROVE  SendInv'
<1>1. SendTypes'
  BY DEF SendInv, SendTypes
<1>2. SendsHold'
  <2> SUFFICES ASSUME NEW s \in Send, sends[s].pc \in Sending
               PROVE  Holds(s, sends[s].key)'
    BY DEF SendsHold
  <2>1. sends[s].key \in Key /\ Holds(s, sends[s].key)
    BY DEF SendInv, SendTypes, SendsHold
  <2> QED BY <2>1 DEF Holds
<1>3. RecordsKept' /\ SentAtMostOnce'
  BY DEF SendInv, RecordsKept, SentAtMostOnce
<1> QED BY <1>1, <1>2, <1>3 DEF SendInv


(********************************* Deliveries *********************************)

(* Between the load of the record and its end a delivery holds the lock of its  *)
(* message.                                                                     *)
Recording == {"recorded", "counting", "listing", "pruning"}

Delivering == Recording \cup {"reviewing", "emitting"}

DeliveryRecord ==
  [pc : {"new", "queued", "done"} \cup Delivering, message : Message \cup {NewDelivery.message},
   allowed : BOOLEAN, seq : Nat, entries : [Message -> Nat]]

DeliveryTypes ==
  /\ deliveries \in [Delivery -> DeliveryRecord]
  /\ \A d \in Delivery : deliveries[d].pc \in {"queued"} \cup Delivering =>
                           deliveries[d].message \in Message
  /\ \A d \in Delivery : deliveries[d].pc = "reviewing" => deliveries[d].seq # 0
  /\ inbound \in [Message -> Nat] /\ sequence \in Nat
  /\ emitted \in [Message -> Nat] /\ pruned \in [Message -> Nat]
  /\ LocksType

DeliveriesHold ==
  \A d \in Delivery : deliveries[d].pc \in Delivering => Holds(d, deliveries[d].message)

(* How often a message may have been emitted: for each record that was pruned,  *)
(* and for the one that is there.                                               *)
Room(gone, seq) == gone + (IF seq # 0 THEN 1 ELSE 0)

(* A record that was written and whose message was not emitted leaves room. *)
EmitsCovered ==
  /\ \A m \in Message : emitted[m] <= Room(pruned[m], inbound[m])
  /\ \A d \in Delivery :
       LET m == deliveries[d].message
       IN  /\ deliveries[d].pc = "reviewing" => inbound[m] = 0
           /\ deliveries[d].pc \in Recording => emitted[m] + 1 <= Room(pruned[m], inbound[m])

DeliveryInv == DeliveryTypes /\ DeliveriesHold /\ EmitsCovered

LEMMA NewDeliveryType ==
  /\ NewDelivery \in DeliveryRecord /\ NewDelivery.pc = "new"
  /\ NewDelivery.entries \in [Message -> Nat]
  /\ [NewDelivery EXCEPT !.pc = "done"] \in DeliveryRecord
  /\ [NewDelivery EXCEPT !.pc = "done"].pc = "done"
BY DEF NewDelivery, DeliveryRecord

LEMMA DeliveryInit == CommInit => DeliveryInv
<1> SUFFICES ASSUME CommInit PROVE DeliveryInv
  OBVIOUS
<1>1. PICK mix \in CallMixes :
        deliveries = [d \in Delivery |-> IF d \in mix THEN NewDelivery
                                         ELSE [NewDelivery EXCEPT !.pc = "done"]]
  BY DEF CommInit
<1>2. /\ deliveries \in [Delivery -> DeliveryRecord]
      /\ \A d \in Delivery : deliveries[d].pc \in {"new", "done"}
  BY <1>1, NewDeliveryType
<1>3. LocksType
  BY EmptySeq DEF CommInit, LocksType
<1>4. DeliveryTypes
  BY <1>2, <1>3 DEF CommInit, DeliveryTypes, Delivering, Recording
<1>5. DeliveriesHold
  BY <1>2 DEF DeliveriesHold, Delivering, Recording
<1>6. EmitsCovered
  BY <1>2 DEF CommInit, EmitsCovered, Room, Recording
<1> QED BY <1>4, <1>5, <1>6 DEF DeliveryInv

(* One delivery goes on.  Only under the lock of its message does it change     *)
(* what the others rely on, and nobody else's lock is lost.                     *)
LEMMA DeliveryMoves ==
  ASSUME DeliveryInv, DeliveryTypes', NEW d \in Delivery, NEW m \in Message,
         \A j \in Message : \/ j = m /\ Holds(d, m)
                            \/ /\ Room(pruned'[j], inbound'[j]) = Room(pruned[j], inbound[j])
                               /\ emitted'[j] = emitted[j]
                               /\ inbound[j] = 0 => inbound'[j] = 0,
         \A e \in Delivery \ {d} : deliveries'[e] = deliveries[e],
         \A e \in Delivery \ {d} :
           deliveries[e].pc \in Delivering => Holds(e, deliveries[e].message)',
         deliveries'[d].pc \in Delivering => deliveries'[d].message = m /\ Holds(d, m)',
         deliveries'[d].pc = "reviewing" => inbound'[m] = 0,
         deliveries'[d].pc \in Recording => emitted'[m] + 1 <= Room(pruned'[m], inbound'[m]),
         emitted'[m] <= Room(pruned'[m], inbound'[m])
  PROVE  DeliveryInv'
<1>1. DeliveriesHold'
  BY DEF DeliveriesHold
<1>2. ASSUME NEW e \in Delivery \ {d}, deliveries[e].pc \in Delivering
      PROVE  \E j \in Message : /\ j = deliveries[e].message
                                /\ Room(pruned'[j], inbound'[j]) = Room(pruned[j], inbound[j])
                                /\ emitted'[j] = emitted[j]
                                /\ inbound[j] = 0 => inbound'[j] = 0
  <2>1. PICK j \in Message : j = deliveries[e].message
    BY <1>2 DEF DeliveryInv, DeliveryTypes
  <2>2. Holds(e, j)
    BY <1>2, <2>1 DEF DeliveryInv, DeliveriesHold
  <2>3. ~(j = m /\ Holds(d, m))
    BY <2>2 DEF Holds
  <2> QED BY <2>1, <2>3
<1>3. \A j \in Message : emitted'[j] <= Room(pruned'[j], inbound'[j])
  BY DEF DeliveryInv, EmitsCovered
<1>4. ASSUME NEW e \in Delivery, NEW n, n = deliveries'[e].message
      PROVE  /\ deliveries'[e].pc = "reviewing" => inbound'[n] = 0
             /\ deliveries'[e].pc \in Recording =>
                  emitted'[n] + 1 <= Room(pruned'[n], inbound'[n])
  <2>1. CASE e = d
    BY <1>4, <2>1 DEF Delivering
  <2>2. CASE e # d /\ deliveries[e].pc \in Delivering
    <3>1. PICK j \in Message : /\ j = deliveries[e].message
                               /\ Room(pruned'[j], inbound'[j]) = Room(pruned[j], inbound[j])
                               /\ emitted'[j] = emitted[j]
                               /\ inbound[j] = 0 => inbound'[j] = 0
      BY <1>2, <2>2
    <3>2. deliveries'[e] = deliveries[e] /\ n = j
      BY <1>4, <2>2, <3>1
    <3>3. /\ deliveries[e].pc = "reviewing" => inbound[j] = 0
          /\ deliveries[e].pc \in Recording => emitted[j] + 1 <= Room(pruned[j], inbound[j])
      BY <3>1 DEF DeliveryInv, EmitsCovered
    <3> QED BY <3>1, <3>2, <3>3
  <2>3. CASE e # d /\ deliveries[e].pc \notin Delivering
    BY <2>3 DEF Delivering
  <2> QED BY <2>1, <2>2, <2>3
<1>5. EmitsCovered'
  BY <1>3, <1>4 DEF EmitsCovered
<1> QED BY <1>1, <1>5 DEF DeliveryInv


(* A delivery ends and gives up the lock it holds. *)
LEMMA DeliveryEndInv ==
  ASSUME DeliveryInv, NEW d \in Delivery, deliveries[d].pc \in {"queued"} \cup Delivering,
         Holds(d, deliveries[d].message), DeliveryEnds(d),
         UNCHANGED <<inbound, emitted, pruned>>, sequence' \in Nat
  PROVE  DeliveryInv'
<1>1. deliveries \in [Delivery -> DeliveryRecord] /\ LocksType
  BY DEF DeliveryInv, DeliveryTypes
<1>2. PICK m \in Message : m = deliveries[d].message
  BY DEF DeliveryInv, DeliveryTypes
<1>3. /\ deliveries' \in [Delivery -> DeliveryRecord] /\ deliveries'[d].pc = "done"
      /\ \A e \in Delivery \ {d} : deliveries'[e] = deliveries[e]
  BY <1>1, NewDeliveryType DEF DeliveryEnds
<1>4. LocksType' /\ \A j \in (Key \cup Message) \ {m} : locks'[j] = locks[j]
  <2>1. locks[m] # <<>> /\ Release(m)
    BY <1>2 DEF DeliveryEnds, Holds
  <2> QED BY <1>1, <2>1, ReleaseLock
<1>5. ASSUME NEW e \in Delivery \ {d}, deliveries[e].pc \in Delivering
      PROVE  Holds(e, deliveries[e].message)'
  <2>1. Holds(e, deliveries[e].message) /\ deliveries[e].message \in Message
    BY <1>5 DEF DeliveryInv, DeliveriesHold, DeliveryTypes
  <2>2. deliveries[e].message # m
    BY <1>2, <2>1 DEF Holds
  <2>3. /\ deliveries'[e].message = deliveries[e].message
        /\ locks'[deliveries[e].message] = locks[deliveries[e].message]
    BY <1>3, <1>4, <2>1, <2>2
  <2> QED BY <2>1, <2>3 DEF Holds
<1>6. DeliveryTypes'
  BY <1>3, <1>4 DEF DeliveryInv, DeliveryTypes, Delivering, Recording
<1>7. emitted'[m] <= Room(pruned'[m], inbound'[m])
  BY DEF DeliveryInv, EmitsCovered
<1> QED BY <1>3, <1>5, <1>6, <1>7, DeliveryMoves DEF Delivering, Recording

(* A delivery goes on with its lock. *)
LEMMA DeliveryKeepInv ==
  ASSUME DeliveryInv, NEW d \in Delivery, NEW m \in Message, m = deliveries[d].message,
         Holds(d, m), locks' = locks,
         NEW e \in DeliveryRecord, e.pc \in Delivering, e.message = m,
         deliveries' = [deliveries EXCEPT ![d] = e],
         inbound' \in [Message -> Nat], emitted' \in [Message -> Nat],
         pruned' \in [Message -> Nat], sequence' \in Nat,
         \A j \in Message \ {m} : /\ Room(pruned'[j], inbound'[j]) = Room(pruned[j], inbound[j])
                                  /\ emitted'[j] = emitted[j]
                                  /\ inbound[j] = 0 => inbound'[j] = 0,
         e.pc = "reviewing" => inbound'[m] = 0 /\ e.seq # 0,
         e.pc \in Recording => emitted'[m] + 1 <= Room(pruned'[m], inbound'[m]),
         emitted'[m] <= Room(pruned'[m], inbound'[m])
  PROVE  DeliveryInv'
<1>1. deliveries \in [Delivery -> DeliveryRecord] /\ LocksType
  BY DEF DeliveryInv, DeliveryTypes
<1>2. /\ deliveries' \in [Delivery -> DeliveryRecord] /\ deliveries'[d] = e
      /\ \A f \in Delivery \ {d} : deliveries'[f] = deliveries[f]
  BY <1>1
<1>3. LocksType'
  BY <1>1 DEF LocksType
<1>4. DeliveryTypes'
  BY <1>2, <1>3 DEF DeliveryInv, DeliveryTypes
<1>5. \A f \in Delivery \ {d} :
        deliveries[f].pc \in Delivering => Holds(f, deliveries[f].message)'
  BY <1>2 DEF DeliveryInv, DeliveriesHold, Holds
<1>6. Holds(d, m)'
  BY DEF Holds
<1> QED BY <1>2, <1>4, <1>5, <1>6, DeliveryMoves

LEMMA IngestInv ==
  ASSUME DeliveryInv, NEW d \in Delivery, NEW m \in Message, Ingest(d, m)
  PROVE  DeliveryInv'
<1> DEFINE e == [NewDelivery EXCEPT !.pc = "queued", !.message = m]
<1>1. /\ deliveries \in [Delivery -> DeliveryRecord] /\ LocksType
      /\ \A f \in Delivery : deliveries[f].pc \in {"queued"} \cup Delivering =>
                              deliveries[f].message \in Message
  BY DEF DeliveryInv, DeliveryTypes
<1>2. e \in DeliveryRecord /\ e.pc = "queued" /\ e.message = m
  BY DEF NewDelivery, DeliveryRecord
<1>3. /\ deliveries' \in [Delivery -> DeliveryRecord] /\ deliveries'[d] = e
      /\ \A f \in Delivery \ {d} : deliveries'[f] = deliveries[f]
  BY <1>1, <1>2 DEF Ingest
<1>4. LocksType' /\ \A c, j : j \in Key \cup Message /\ Holds(c, j) => Holds(c, j)'
  BY <1>1, EnqueueLock DEF Ingest
<1>5. ASSUME NEW f \in Delivery \ {d}, deliveries[f].pc \in Delivering
      PROVE  Holds(f, deliveries[f].message)'
  <2>1. PICK j \in Message : j = deliveries[f].message
    BY <1>1, <1>5
  <2>2. Holds(f, j)'
    BY <1>5, <1>4, <2>1 DEF DeliveryInv, DeliveriesHold
  <2> QED BY <1>3, <2>1, <2>2 DEF Holds
<1>6. UNCHANGED <<inbound, sequence, emitted, pruned>>
  BY DEF Ingest
<1>7. DeliveryTypes'
  BY <1>1, <1>2, <1>3, <1>4, <1>6 DEF DeliveryInv, DeliveryTypes
<1>8. emitted'[m] <= Room(pruned'[m], inbound'[m])
  BY <1>6 DEF DeliveryInv, EmitsCovered
<1> QED BY <1>2, <1>3, <1>5, <1>6, <1>7, <1>8, DeliveryMoves DEF Delivering, Recording


(* What a delivery that is being recorded or pruned may rely on. *)
LEMMA DeliveryFacts ==
  ASSUME DeliveryInv, NEW d \in Delivery, deliveries[d].pc \in {"queued"} \cup Delivering
  PROVE  /\ deliveries \in [Delivery -> DeliveryRecord] /\ deliveries[d] \in DeliveryRecord
         /\ deliveries[d].message \in Message
         /\ inbound \in [Message -> Nat] /\ sequence \in Nat
         /\ emitted \in [Message -> Nat] /\ pruned \in [Message -> Nat]
         /\ deliveries[d].pc \in Delivering => Holds(d, deliveries[d].message)
         /\ \A m \in Message : emitted[m] <= Room(pruned[m], inbound[m])
         /\ \A m : m = deliveries[d].message =>
              /\ deliveries[d].pc = "reviewing" => inbound[m] = 0 /\ deliveries[d].seq # 0
              /\ deliveries[d].pc \in Recording => emitted[m] + 1 <= Room(pruned[m], inbound[m])
BY DEF DeliveryInv, DeliveryTypes, DeliveriesHold, EmitsCovered

(* A message that has a record goes no further. *)
LEMMA LoadInboundInv ==
  ASSUME DeliveryInv, NEW d \in Delivery, LoadInbound(d)
  PROVE  DeliveryInv'
<1>1. /\ deliveries[d].pc = "queued" /\ Holds(d, deliveries[d].message)
      /\ UNCHANGED <<inbound, emitted, pruned>>
  BY DEF LoadInbound, DeliveryAt
<1>2. PICK m \in Message : m = deliveries[d].message
  BY <1>1, DeliveryFacts
<1>3. CASE /\ m \notin Recorded(inbound)
           /\ sequence' = sequence + 1
           /\ deliveries' = [deliveries EXCEPT ![d].pc = "reviewing", ![d].seq = sequence']
           /\ UNCHANGED locks
  <2> DEFINE e == [deliveries[d] EXCEPT !.pc = "reviewing", !.seq = sequence']
  <2>0. sequence' \in Nat /\ sequence' # 0
    BY <1>1, <1>3, DeliveryFacts
  <2>1. e \in DeliveryRecord /\ e.pc = "reviewing" /\ e.message = m /\ e.seq # 0
    BY <1>1, <1>2, <2>0, DeliveryFacts DEF DeliveryRecord, Delivering, Recording
  <2>2. deliveries' = [deliveries EXCEPT ![d] = e]
    BY <1>3
  <2>3. inbound[m] = 0
    BY <1>3 DEF Recorded
  <2>4. /\ inbound' \in [Message -> Nat] /\ emitted' \in [Message -> Nat]
        /\ pruned' \in [Message -> Nat] /\ sequence' \in Nat
        /\ emitted'[m] <= Room(pruned'[m], inbound'[m])
        /\ inbound'[m] = 0
    BY <1>1, <2>0, <2>3, DeliveryFacts
  <2>5. \A j \in Message \ {m} : /\ Room(pruned'[j], inbound'[j]) = Room(pruned[j], inbound[j])
                                 /\ emitted'[j] = emitted[j]
                                 /\ inbound[j] = 0 => inbound'[j] = 0
    BY <1>1
  <2>6. Holds(d, m) /\ locks' = locks
    BY <1>1, <1>2, <1>3
  <2>7. e.pc \in Delivering /\ e.pc \notin Recording
    BY <2>1 DEF Delivering, Recording
  <2> HIDE DEF e
  <2> QED BY <1>2, <2>1, <2>2, <2>4, <2>5, <2>6, <2>7, DeliveryKeepInv
<1>4. CASE DeliveryEnds(d) /\ UNCHANGED sequence
  <2>1. sequence' \in Nat
    BY <1>1, <1>4, DeliveryFacts
  <2> QED BY <1>1, <1>4, <2>1, DeliveryEndInv
<1> QED BY <1>2, <1>3, <1>4 DEF LoadInbound

(* A record is written where there was none: there is room for one more emit. *)
LEMMA ReviewedInv ==
  ASSUME DeliveryInv, NEW d \in Delivery, Reviewed(d)
  PROVE  DeliveryInv'
<1>1. /\ deliveries[d].pc = "reviewing" /\ deliveries[d].pc \in Delivering
      /\ UNCHANGED <<sequence, emitted, pruned>>
  BY DEF Reviewed, DeliveryAt, Delivering
<1>2. PICK m \in Message : m = deliveries[d].message
  BY <1>1, DeliveryFacts
<1>3. /\ Holds(d, m) /\ inbound[m] = 0 /\ emitted[m] <= pruned[m]
      /\ deliveries[d].seq \in Nat /\ deliveries[d].seq # 0
  BY <1>1, <1>2, DeliveryFacts DEF Room, DeliveryRecord
<1>4. /\ inbound \in [Message -> Nat] /\ emitted \in [Message -> Nat]
      /\ pruned \in [Message -> Nat] /\ sequence \in Nat
  BY <1>1, DeliveryFacts
<1>5. CASE \E verdict \in BOOLEAN :
             /\ inbound' = [inbound EXCEPT ![m] = deliveries[d].seq]
             /\ deliveries' = [deliveries EXCEPT ![d].pc = "recorded", ![d].allowed = verdict,
                                                   ![d].seq = 0]
             /\ UNCHANGED locks
  <2>1. PICK verdict \in BOOLEAN :
          /\ inbound' = [inbound EXCEPT ![m] = deliveries[d].seq]
          /\ deliveries' = [deliveries EXCEPT ![d].pc = "recorded", ![d].allowed = verdict,
                                                ![d].seq = 0]
          /\ UNCHANGED locks
    BY <1>5
  <2> DEFINE e == [deliveries[d] EXCEPT !.pc = "recorded", !.allowed = verdict, !.seq = 0]
  <2>2. e \in DeliveryRecord /\ e.pc = "recorded" /\ e.message = m
    BY <1>1, <1>2, DeliveryFacts DEF DeliveryRecord, Delivering, Recording
  <2>3. deliveries' = [deliveries EXCEPT ![d] = e]
    BY <2>1
  <2>4. /\ inbound' \in [Message -> Nat] /\ emitted' \in [Message -> Nat]
        /\ pruned' \in [Message -> Nat] /\ sequence' \in Nat
        /\ inbound'[m] = deliveries[d].seq
    BY <1>1, <1>3, <1>4, <2>1
  <2>5. \A j \in Message \ {m} : /\ Room(pruned'[j], inbound'[j]) = Room(pruned[j], inbound[j])
                                 /\ emitted'[j] = emitted[j]
                                 /\ inbound[j] = 0 => inbound'[j] = 0
    BY <1>1, <1>3, <1>4, <2>1
  <2>6. /\ emitted'[m] + 1 <= Room(pruned'[m], inbound'[m])
        /\ emitted'[m] <= Room(pruned'[m], inbound'[m])
    BY <1>1, <1>3, <1>4, <2>4 DEF Room
  <2>7. e.pc \in Delivering /\ e.pc # "reviewing" /\ locks' = locks
    BY <2>1, <2>2 DEF Delivering, Recording
  <2> HIDE DEF e
  <2> QED BY <1>2, <1>3, <2>2, <2>3, <2>4, <2>5, <2>6, <2>7, DeliveryKeepInv
<1>6. CASE DeliveryEnds(d) /\ UNCHANGED inbound
  <2>1. sequence' \in Nat
    BY <1>1, <1>4
  <2> QED BY <1>1, <1>2, <1>3, <1>6, <2>1, DeliveryEndInv
<1> QED BY <1>2, <1>5, <1>6 DEF Reviewed

(* After the pruning: the emit takes the room that the record has left. *)
LEMMA EmitInv ==
  ASSUME DeliveryInv, NEW d \in Delivery, deliveries[d].pc \in Recording, Emit(d),
         UNCHANGED <<inbound, pruned, sequence>>
  PROVE  DeliveryInv'
<1>1. PICK m \in Message : m = deliveries[d].message
  BY DeliveryFacts DEF Delivering
<1>2. /\ Holds(d, m) /\ deliveries[d].pc \in Delivering
      /\ emitted[m] + 1 <= Room(pruned[m], inbound[m])
      /\ inbound \in [Message -> Nat] /\ emitted \in [Message -> Nat]
      /\ pruned \in [Message -> Nat] /\ sequence \in Nat
      /\ deliveries[d] \in DeliveryRecord
  BY <1>1, DeliveryFacts DEF Delivering
<1>3. CASE deliveries[d].allowed
  <2> DEFINE e == [deliveries[d] EXCEPT !.pc = "emitting", !.entries = NewDelivery.entries]
  <2>1. e \in DeliveryRecord /\ e.pc = "emitting" /\ e.message = m
    BY <1>1, <1>2, NewDeliveryType DEF DeliveryRecord, Delivering
  <2>2. /\ deliveries' = [deliveries EXCEPT ![d] = e] /\ locks' = locks
        /\ emitted' = [emitted EXCEPT ![m] = @ + 1]
    BY <1>1, <1>3 DEF Emit
  <2>3. /\ inbound' \in [Message -> Nat] /\ emitted' \in [Message -> Nat]
        /\ pruned' \in [Message -> Nat] /\ sequence' \in Nat
    BY <1>2, <2>2
  <2>4. \A j \in Message \ {m} : /\ Room(pruned'[j], inbound'[j]) = Room(pruned[j], inbound[j])
                                 /\ emitted'[j] = emitted[j]
                                 /\ inbound[j] = 0 => inbound'[j] = 0
    BY <1>2, <2>2
  <2>5. emitted'[m] <= Room(pruned'[m], inbound'[m])
    BY <1>2, <2>2
  <2>6. e.pc \in Delivering /\ e.pc # "reviewing" /\ e.pc \notin Recording
    BY <2>1 DEF Delivering, Recording
  <2> HIDE DEF e
  <2> QED BY <1>1, <1>2, <2>1, <2>2, <2>3, <2>4, <2>5, <2>6, DeliveryKeepInv
<1>4. CASE ~deliveries[d].allowed
  <2>1. DeliveryEnds(d) /\ UNCHANGED <<inbound, emitted, pruned>> /\ sequence' \in Nat
    BY <1>2, <1>4 DEF Emit
  <2> QED BY <1>1, <1>2, <2>1, DeliveryEndInv
<1> QED BY <1>3, <1>4

(* Another stage of the pruning, which loses no room. *)
LEMMA PruningInv ==
  ASSUME DeliveryInv, NEW d \in Delivery, deliveries[d].pc \in Recording,
         NEW e \in DeliveryRecord, e.pc \in Recording, e.message = deliveries[d].message,
         deliveries' = [deliveries EXCEPT ![d] = e],
         inbound' \in [Message -> Nat], pruned' \in [Message -> Nat],
         \A j \in Message : /\ Room(pruned'[j], inbound'[j]) = Room(pruned[j], inbound[j])
                            /\ inbound[j] = 0 => inbound'[j] = 0,
         UNCHANGED <<locks, emitted, sequence>>
  PROVE  DeliveryInv'
<1>1. PICK m \in Message : m = deliveries[d].message
  BY DeliveryFacts DEF Delivering
<1>2. /\ Holds(d, m) /\ emitted[m] + 1 <= Room(pruned[m], inbound[m])
      /\ emitted[m] <= Room(pruned[m], inbound[m])
      /\ emitted \in [Message -> Nat] /\ sequence \in Nat
  BY <1>1, DeliveryFacts DEF Delivering
<1>3. e.pc \in Delivering /\ e.pc # "reviewing" /\ e.message = m
  BY <1>1 DEF Delivering, Recording
<1>4. /\ emitted'[m] + 1 <= Room(pruned'[m], inbound'[m])
      /\ emitted'[m] <= Room(pruned'[m], inbound'[m])
      /\ emitted' \in [Message -> Nat] /\ sequence' \in Nat /\ locks' = locks
  BY <1>2
<1>5. \A j \in Message \ {m} : /\ Room(pruned'[j], inbound'[j]) = Room(pruned[j], inbound[j])
                               /\ emitted'[j] = emitted[j]
                               /\ inbound[j] = 0 => inbound'[j] = 0
  OBVIOUS
<1> QED BY <1>1, <1>2, <1>3, <1>4, <1>5, DeliveryKeepInv


LEMMA ListInv ==
  ASSUME DeliveryInv, NEW d \in Delivery, deliveries[d].pc \in Recording,
         NEW pc \in Recording, List(d, pc), UNCHANGED <<inbound, pruned, sequence>>
  PROVE  DeliveryInv'
<1> DEFINE e == [deliveries[d] EXCEPT !.pc = pc, !.entries = inbound]
<1>1. deliveries[d] \in DeliveryRecord /\ inbound \in [Message -> Nat] /\ pruned \in [Message -> Nat]
  BY DeliveryFacts DEF Delivering
<1>2. e \in DeliveryRecord /\ e.pc \in Recording /\ e.message = deliveries[d].message
  BY <1>1 DEF DeliveryRecord, Delivering, Recording
<1>3. deliveries' = [deliveries EXCEPT ![d] = e] /\ UNCHANGED <<locks, emitted, sequence>>
  BY DEF List
<1>4. inbound' \in [Message -> Nat] /\ pruned' \in [Message -> Nat]
  BY <1>1
<1>5. \A j \in Message : /\ Room(pruned'[j], inbound'[j]) = Room(pruned[j], inbound[j])
                         /\ inbound[j] = 0 => inbound'[j] = 0
  OBVIOUS
<1> HIDE DEF e
<1> QED BY <1>2, <1>3, <1>4, <1>5, PruningInv

LEMMA AfterCountInv ==
  ASSUME DeliveryInv, NEW d \in Delivery, deliveries[d].pc \in Recording, NEW count,
         AfterCount(d, count), UNCHANGED <<inbound, pruned, sequence>>
  PROVE  DeliveryInv'
<1>1. CASE Emit(d)
  BY <1>1, EmitInv
<1>2. CASE List(d, "listing")
  <2>1. "listing" \in Recording
    BY DEF Recording
  <2> QED BY <1>2, <2>1, ListInv
<1> QED BY <1>1, <1>2 DEF AfterCount

(* Whatever the list says is too much: a record that goes was an emit that is   *)
(* allowed again.                                                               *)
LEMMA ListedInv ==
  ASSUME DeliveryInv, NEW d \in Delivery, Listed(d)
  PROVE  DeliveryInv'
<1> DEFINE gone == Overflow(deliveries[d].entries)
<1>1. deliveries[d].pc \in Recording /\ sequence' = sequence
  BY DEF Listed, DeliveryAt, Recording
<1>2. CASE Emit(d) /\ UNCHANGED <<inbound, pruned>>
  BY <1>1, <1>2, EmitInv
<1>3. CASE /\ inbound' = [m \in Message |-> IF m \in gone THEN 0 ELSE inbound[m]]
           /\ pruned' = [m \in Message |->
                IF m \in gone \cap Recorded(inbound) THEN pruned[m] + 1 ELSE pruned[m]]
           /\ DeliveryGoes(d, "pruning")
           /\ UNCHANGED <<inboundCount, emitted, locks>>
  <2> DEFINE e == [deliveries[d] EXCEPT !.pc = "pruning"]
  <2> HIDE DEF gone
  <2>1. deliveries[d] \in DeliveryRecord /\ inbound \in [Message -> Nat] /\ pruned \in [Message -> Nat]
    BY <1>1, DeliveryFacts DEF Delivering
  <2>2. e \in DeliveryRecord /\ e.pc \in Recording /\ e.message = deliveries[d].message
    BY <2>1 DEF DeliveryRecord, Delivering, Recording
  <2>3. deliveries' = [deliveries EXCEPT ![d] = e] /\ UNCHANGED <<locks, emitted, sequence>>
    BY <1>1, <1>3 DEF DeliveryGoes
  <2>4. inbound' \in [Message -> Nat] /\ pruned' \in [Message -> Nat]
    BY <1>3, <2>1
  <2>5. ASSUME NEW j \in Message
        PROVE  /\ Room(pruned'[j], inbound'[j]) = Room(pruned[j], inbound[j])
               /\ inbound[j] = 0 => inbound'[j] = 0
    <3>1. CASE j \in gone /\ inbound[j] # 0
      <4>1. inbound'[j] = 0 /\ pruned'[j] = pruned[j] + 1
        BY <1>3, <3>1 DEF Recorded
      <4> QED BY <2>1, <3>1, <4>1 DEF Room
    <3>2. CASE j \in gone /\ inbound[j] = 0
      <4>1. inbound'[j] = 0 /\ pruned'[j] = pruned[j]
        BY <1>3, <3>2 DEF Recorded
      <4> QED BY <3>2, <4>1
    <3>3. CASE j \notin gone
      <4>1. inbound'[j] = inbound[j] /\ pruned'[j] = pruned[j]
        BY <1>3, <3>3
      <4> QED BY <4>1
    <3> QED BY <3>1, <3>2, <3>3
  <2> HIDE DEF e
  <2> QED BY <1>1, <2>2, <2>3, <2>4, <2>5, PruningInv
<1> QED BY <1>2, <1>3 DEF Listed

LEMMA DeliveryStepInv ==
  ASSUME DeliveryInv, NEW d \in Delivery, DeliveryStep(d)
  PROVE  DeliveryInv'
<1>1. CASE \E m \in Message : Ingest(d, m)
  BY <1>1, IngestInv
<1>2. CASE PruneBegins(d)
  <2>1. /\ deliveries[d].pc \in Recording /\ UNCHANGED <<inbound, pruned, sequence>>
        /\ "counting" \in Recording
    BY <1>2 DEF PruneBegins, DeliveryAt, Recording
  <2>2. CASE List(d, "counting")
    BY <2>1, <2>2, ListInv
  <2>3. CASE AfterCount(d, inboundCount + 1)
    BY <2>1, <2>3, AfterCountInv
  <2> QED BY <1>2, <2>2, <2>3 DEF PruneBegins
<1>3. CASE Counted(d)
  <2>1. /\ deliveries[d].pc \in Recording /\ UNCHANGED <<inbound, pruned, sequence>>
        /\ AfterCount(d, Cardinality(Recorded(deliveries[d].entries)))
    BY <1>3 DEF Counted, DeliveryAt, Recording
  <2> QED BY <2>1, AfterCountInv
<1>4. CASE Pruned(d) \/ PruneFails(d)
  <2>1. /\ deliveries[d].pc \in Recording /\ UNCHANGED <<inbound, pruned, sequence>> /\ Emit(d)
    BY <1>4 DEF Pruned, PruneFails, DeliveryAt, Recording
  <2> QED BY <2>1, EmitInv
<1>5. CASE Emitted(d)
  <2>1. /\ deliveries[d].pc \in {"queued"} \cup Delivering /\ deliveries[d].pc \in Delivering
        /\ DeliveryEnds(d) /\ UNCHANGED <<inbound, emitted, pruned, sequence>>
    BY <1>5 DEF Emitted, DeliveryAt, Delivering
  <2>2. Holds(d, deliveries[d].message) /\ sequence' \in Nat
    BY <2>1, DeliveryFacts
  <2> QED BY <2>1, <2>2, DeliveryEndInv
<1> QED BY <1>1, <1>2, <1>3, <1>4, <1>5, LoadInboundInv, ReviewedInv, ListedInv DEF DeliveryStep

LEMMA SendStepInv ==
  ASSUME SendInv, NEW s \in Send, SendStep(s)
  PROVE  SendInv'
BY RequestInv, LoadOutboundInv, ScanEndsInv, AuthorizedInv, WithdrawInv, PublishInv, PublishedInv
   DEF SendStep

(* Steps that are not of a delivery. *)
LEMMA OthersDeliveryInv ==
  ASSUME DeliveryInv, UNCHANGED inboundState, LocksType',
         \A m \in Message : locks'[m] = locks[m]
  PROVE  DeliveryInv'
<1>1. UNCHANGED <<deliveries, inbound, sequence, emitted, pruned>>
  BY DEF inboundState
<1>2. DeliveryTypes'
  BY <1>1 DEF DeliveryInv, DeliveryTypes
<1>3. DeliveriesHold'
  <2> SUFFICES ASSUME NEW d \in Delivery, deliveries[d].pc \in Delivering
               PROVE  Holds(d, deliveries[d].message)'
    BY <1>1 DEF DeliveriesHold
  <2>1. deliveries[d].message \in Message /\ Holds(d, deliveries[d].message)
    BY DEF DeliveryInv, DeliveryTypes, DeliveriesHold
  <2> QED BY <1>1, <2>1 DEF Holds
<1>4. EmitsCovered'
  BY <1>1 DEF DeliveryInv, EmitsCovered
<1> QED BY <1>2, <1>3, <1>4 DEF DeliveryInv


(* A send touches no lock of a message, and a delivery none of a key. *)
LEMMA SendLocks ==
  ASSUME SendInv, NEW s \in Send, SendStep(s)
  PROVE  \A m \in Message : locks'[m] = locks[m]
<1>1. LocksType /\ Key \cap Message = {}
  BY CommAssumption DEF SendInv, SendTypes
<1>2. ASSUME NEW key \in Key, Release(key) \/ Enqueue(s, key)
      PROVE  \A m \in Message : locks'[m] = locks[m]
  BY <1>1, <1>2 DEF LocksType, Release, Enqueue
<1>3. CASE \E k \in Key : Request(s, k)
  BY <1>2, <1>3 DEF Request
<1>4. CASE ~\E k \in Key : Request(s, k)
  <2>1. locks' = locks \/ SendEnds(s)
    BY <1>4 DEF SendStep, LoadOutbound, ScanEnds, Authorized, Withdraw, Publish, Published
  <2>2. sends[s].pc \in {"queued"} \cup Sending
    BY <1>4 DEF SendStep, LoadOutbound, ScanEnds, Authorized, Withdraw, Publish, Published,
                SendAt, Sending
  <2>3. PICK key \in Key : key = sends[s].key
    BY <2>2 DEF SendInv, SendTypes
  <2> QED BY <1>2, <2>1, <2>3 DEF SendEnds
<1> QED BY <1>3, <1>4

LEMMA DeliveryLocks ==
  ASSUME DeliveryInv, NEW d \in Delivery, DeliveryStep(d)
  PROVE  \A k \in Key : locks'[k] = locks[k]
<1>1. LocksType /\ Key \cap Message = {}
  BY CommAssumption DEF DeliveryInv, DeliveryTypes
<1>2. ASSUME NEW m \in Message, Release(m) \/ Enqueue(d, m)
      PROVE  \A k \in Key : locks'[k] = locks[k]
  BY <1>1, <1>2 DEF LocksType, Release, Enqueue
<1>3. CASE \E m \in Message : Ingest(d, m)
  BY <1>2, <1>3 DEF Ingest
<1>4. CASE ~\E m \in Message : Ingest(d, m)
  <2>1. locks' = locks \/ DeliveryEnds(d)
    BY <1>4 DEF DeliveryStep, LoadInbound, Reviewed, PruneBegins, Counted, Listed, Pruned,
                PruneFails, Emitted, AfterCount, Emit, List
  <2>2. deliveries[d].pc \in {"queued"} \cup Delivering
    BY <1>4 DEF DeliveryStep, LoadInbound, Reviewed, PruneBegins, Counted, Listed, Pruned,
                PruneFails, Emitted, DeliveryAt, Delivering, Recording
  <2>3. PICK m \in Message : m = deliveries[d].message
    BY <2>2, DeliveryFacts
  <2> QED BY <1>2, <2>1, <2>3 DEF DeliveryEnds
<1> QED BY <1>3, <1>4

LEMMA RestartInv ==
  ASSUME SendInv, DeliveryInv, Restart
  PROVE  SendInv' /\ DeliveryInv'
<1>1. LocksType' /\ \A c, k : k \in Key \cup Message => ~Holds(c, k)'
  BY EmptySeq DEF Restart, LocksType, Holds
<1>2. SendInv'
  <2>1. sends \in [Send -> SendRecord]
        /\ UNCHANGED <<outbound, published, revision, registrations>> /\ adapter' = 0
    BY DEF SendInv, SendTypes, Restart, stores
  <2>2. sends' \in [Send -> SendRecord] /\ \A s \in Send : sends'[s].pc \in {"new", "done"}
    BY <2>1, NewSendType DEF Restart, SendAt
  <2>3. SendTypes'
    BY <1>1, <2>1, <2>2 DEF SendInv, SendTypes, Sending
  <2>4. SendsHold' /\ RecordsKept'
    BY <2>2 DEF SendsHold, RecordsKept, Sending
  <2>5. SentAtMostOnce'
    BY <2>1 DEF SendInv, SentAtMostOnce
  <2> QED BY <2>3, <2>4, <2>5 DEF SendInv
<1>3. DeliveryInv'
  <2>1. deliveries \in [Delivery -> DeliveryRecord]
        /\ UNCHANGED <<inbound, emitted, pruned>> /\ sequence' = 0
    BY DEF DeliveryInv, DeliveryTypes, Restart, stores
  <2>2. /\ deliveries' \in [Delivery -> DeliveryRecord]
        /\ \A d \in Delivery : deliveries'[d].pc \in {"new", "done"}
    BY <2>1, NewDeliveryType DEF Restart, DeliveryAt
  <2>3. DeliveryTypes'
    BY <1>1, <2>1, <2>2 DEF DeliveryInv, DeliveryTypes, Delivering, Recording
  <2>4. DeliveriesHold'
    BY <2>2 DEF DeliveriesHold, Delivering, Recording
  <2>5. EmitsCovered'
    BY <2>1, <2>2 DEF DeliveryInv, EmitsCovered, Recording
  <2> QED BY <2>3, <2>4, <2>5 DEF DeliveryInv
<1> QED BY <1>2, <1>3

(* Every step keeps what sends and deliveries rely on. *)
LEMMA CommStep ==
  ASSUME SendInv, DeliveryInv, [CommNext]_commVars
  PROVE  SendInv' /\ DeliveryInv'
<1>1. adapter \in Nat /\ registrations \in Nat /\ revision \in Nat /\ LocksType
  BY DEF SendInv, SendTypes
<1>2. CASE UNCHANGED <<inboundState, locks, sends, outbound, published>>
            /\ adapter' \in Nat /\ registrations' \in Nat /\ revision' \in Nat
  <2>1. LocksType' /\ \A k \in Key \cup Message : locks'[k] = locks[k]
    BY <1>1, <1>2 DEF LocksType
  <2> QED BY <1>2, <2>1, OthersInv, OthersDeliveryInv
<1>3. CASE Register
  BY <1>1, <1>2, <1>3 DEF Register, outboundState
<1>4. CASE TearDown
  BY <1>1, <1>2, <1>4 DEF TearDown, outboundState
<1>5. CASE RaiseRun
  BY <1>1, <1>2, <1>5 DEF RaiseRun, lifecycle
<1>6. CASE UNCHANGED commVars
  BY <1>1, <1>2, <1>6 DEF commVars, lifecycle, outboundState
<1>7. ASSUME NEW s \in Send, SendStep(s) PROVE SendInv' /\ DeliveryInv'
  <2>1. SendInv'
    BY <1>7, SendStepInv
  <2>2. LocksType' /\ \A m \in Message : locks'[m] = locks[m]
    BY <1>7, <2>1, SendLocks DEF SendInv, SendTypes
  <2>3. UNCHANGED inboundState
    BY <1>7 DEF SendStep, Request, LoadOutbound, ScanEnds, Authorized, Withdraw, Publish, Published
  <2> QED BY <2>1, <2>2, <2>3, OthersDeliveryInv
<1>8. ASSUME NEW d \in Delivery, DeliveryStep(d) PROVE SendInv' /\ DeliveryInv'
  <2>1. DeliveryInv'
    BY <1>8, DeliveryStepInv
  <2>2. LocksType' /\ \A k \in Key : locks'[k] = locks[k]
    BY <1>8, <2>1, DeliveryLocks DEF DeliveryInv, DeliveryTypes
  <2>3. UNCHANGED <<lifecycle, outboundState>>
    BY <1>8 DEF DeliveryStep, Ingest, LoadInbound, Reviewed, PruneBegins, Counted, Listed, Pruned,
                PruneFails, Emitted
  <2>4. /\ UNCHANGED <<sends, outbound, published>>
        /\ adapter' \in Nat /\ registrations' \in Nat /\ revision' \in Nat
    BY <1>1, <2>3 DEF lifecycle, outboundState
  <2> QED BY <2>1, <2>2, <2>4, OthersInv
<1> QED BY <1>3, <1>4, <1>5, <1>6, <1>7, <1>8, RestartInv DEF CommNext

(* The adapter gets the message of a key once, and the key keeps a record:      *)
(* #withLock lets one send of a key be between its load and its end, and only   *)
(* what was not handed over is forgotten (communication-service.ts, send).      *)
THEOREM TheAdapterIsCalledOnce == CommSpec => []SentAtMostOnce
<1>1. CommInit => SendInv /\ DeliveryInv
  BY SendInit, DeliveryInit
<1>2. SendInv /\ DeliveryInv /\ [CommNext]_commVars => (SendInv /\ DeliveryInv)'
  BY CommStep
<1>3. SendInv /\ DeliveryInv => SentAtMostOnce
  BY DEF SendInv
<1> QED BY <1>1, <1>2, <1>3, PTL DEF CommSpec

(* Every emit of a message has a record, there or pruned: a message is emitted  *)
(* once more than its record was pruned at most, whatever lists the prunings    *)
(* work from (communication-service.ts, ingest and #pruneInbound).              *)
THEOREM SubscribersHearOnce == CommSpec => []EmittedOnce
<1>1. CommInit => SendInv /\ DeliveryInv
  BY SendInit, DeliveryInit
<1>2. SendInv /\ DeliveryInv /\ [CommNext]_commVars => (SendInv /\ DeliveryInv)'
  BY CommStep
<1>3. SendInv /\ DeliveryInv => EmittedOnce
  BY DEF DeliveryInv, DeliveryTypes, EmitsCovered, EmittedOnce, Room
<1> QED BY <1>1, <1>2, <1>3, PTL DEF CommSpec


(******************************** Connections *********************************)

SocketShape(socks) ==
  DOMAIN socks = Connection /\ \A c \in Connection : "stage" \in DOMAIN socks[c]

(* The same connections, but for what is on its way in them. *)
Kept(socks) ==
  SocketShape(socks) /\ \A c \in Connection : socks[c].stage = sockets[c].stage

GatewayShape == {"phase", "generation"} \subseteq DOMAIN gateway

(* Who waits for an address is live; a runtime that has not loaded its session  *)
(* has neither a connection nor a timer.                                        *)
DiscordInv ==
  /\ GatewayShape /\ SocketShape(sockets)
  /\ OwnedSockets \subseteq {Generation} /\ (OwnedSockets # {} => IsLive)
  /\ cycle = "resolving" => IsLive
  /\ runtime = "loading" => ~IsLive /\ cycle = "none" /\ sending = "none" /\ timers = NoTimers

LEMMA KeptNow == DiscordInv => Kept(sockets)
BY DEF DiscordInv, Kept

LEMMA SentKept ==
  ASSUME NEW socks, Kept(socks), NEW frames
  PROVE  Kept(Sent(socks, frames))
BY DEF Kept, SocketShape, Sent

LEMMA EmittingKept ==
  ASSUME DiscordInv, NEW c \in Connection
  PROVE  Kept(Emitting(c))
BY DEF DiscordInv, Kept, SocketShape, Emitting

(* The stages decide who is owned. *)
LEMMA OwnedKept ==
  ASSUME NEW socks, Kept(socks), sockets' = socks
  PROVE  SocketShape(sockets)' /\ OwnedSockets' = OwnedSockets
BY DEF Kept, SocketShape, OwnedSockets

(* A step that opens nothing and leaves a live gateway live. *)
LEMMA QuietInv ==
  ASSUME DiscordInv, SocketShape(sockets)', OwnedSockets' \subseteq OwnedSockets,
         GatewayShape', gateway'.generation = gateway.generation, IsLive => IsLive',
         cycle' = "resolving" => cycle = "resolving",
         runtime' = "loading" => runtime = "loading" /\ UNCHANGED <<gateway, cycle, sending, timers>>
  PROVE  DiscordInv'
BY DEF DiscordInv, Generation, IsLive

(* A step after which nothing is open. *)
LEMMA ClosedInv ==
  ASSUME SocketShape(sockets)', OwnedSockets' = {}, GatewayShape', cycle' = "none",
         runtime' # "loading"
  PROVE  DiscordInv'
BY DEF DiscordInv

LEMMA CloseCycleInv ==
  ASSUME DiscordInv, NEW socks, Kept(socks), CloseCycle(socks)
  PROVE  SocketShape(sockets)' /\ OwnedSockets' = {} /\ cycle' = "none"
<1>1. sockets' = TornDown(socks, Generation) /\ cycle' = "none"
  BY DEF CloseCycle
<1>2. SocketShape(sockets)'
  BY <1>1 DEF Kept, SocketShape, TornDown, Finished, Socket
<1>3. ASSUME NEW c \in Connection
      PROVE  sockets'[c].stage \notin {"opening", "open"}
  <2>1. c # Generation => sockets[c].stage \notin {"opening", "open"}
    BY DEF DiscordInv, OwnedSockets
  <2> QED BY <1>1, <2>1 DEF Kept, TornDown, Finished, Socket
<1> QED BY <1>1, <1>2, <1>3 DEF OwnedSockets

LEMMA BackoffInv ==
  ASSUME DiscordInv, NEW socks, Kept(socks), NEW clear, Backoff(socks, clear),
         runtime' # "loading"
  PROVE  DiscordInv'
<1>1. SocketShape(sockets)' /\ OwnedSockets' = {} /\ cycle' = "none"
  BY CloseCycleInv DEF Backoff
<1>2. GatewayShape'
  BY DEF DiscordInv, GatewayShape, Backoff, Abandoned, Forgotten
<1> QED BY <1>1, <1>2, ClosedInv

LEMMA FatalInv ==
  ASSUME DiscordInv, NEW socks, Kept(socks), ToFatal(socks), runtime' # "loading"
  PROVE  DiscordInv'
<1>1. SocketShape(sockets)' /\ OwnedSockets' = {} /\ cycle' = "none"
  BY CloseCycleInv DEF ToFatal
<1>2. GatewayShape'
  BY DEF DiscordInv, GatewayShape, ToFatal, Abandoned, Forgotten
<1> QED BY <1>1, <1>2, ClosedInv

LEMMA FailureInv ==
  ASSUME DiscordInv, NEW fatal, Failure(fatal), runtime' # "loading"
  PROVE  DiscordInv'
BY KeptNow, BackoffInv, FatalInv DEF Failure


(* A frame or a close is handled while the gateway is live. *)
LEMMA HandleFrameInv ==
  ASSUME DiscordInv, IsLive, NEW socks, Kept(socks), NEW frame, HandleFrame(socks, frame)
  PROVE  DiscordInv'
<1>1. runtime # "loading"
  BY DEF DiscordInv
<1>2. CASE /\ sockets' = socks /\ cycle' = cycle /\ runtime' = runtime
           /\ GatewayShape' /\ gateway'.generation = gateway.generation /\ IsLive'
  <2>1. SocketShape(sockets)' /\ OwnedSockets' = OwnedSockets
    BY <1>2, OwnedKept
  <2> QED BY <1>1, <1>2, <2>1, QuietInv
<1>3. CASE \E clear \in BOOLEAN : Backoff(socks, clear) /\ UNCHANGED worldVars
  BY <1>1, <1>3, BackoffInv DEF worldVars
<1>4. CASE HandleHello(socks)
  BY <1>2, <1>4 DEF HandleHello, Unmoved, worldVars, DiscordInv, GatewayShape, IsLive, Live
<1>5. CASE HandleBeat(socks)
  <2>1. Kept(Acknowledged(socks)) /\ sockets' = Acknowledged(socks)
    BY <1>5, SentKept DEF HandleBeat, Acknowledged
  <2>2. SocketShape(sockets)' /\ OwnedSockets' = OwnedSockets
    BY <2>1, OwnedKept
  <2>3. /\ cycle' = cycle /\ runtime' = runtime
        /\ GatewayShape' /\ gateway'.generation = gateway.generation /\ IsLive'
    BY <1>5 DEF HandleBeat, worldVars, DiscordInv, GatewayShape, IsLive
  <2> QED BY <1>1, <2>2, <2>3, QuietInv
<1>6. CASE HandleAck(socks)
  BY <1>2, <1>6 DEF HandleAck, Unmoved, worldVars, DiscordInv, GatewayShape, IsLive
<1>7. CASE HandleDispatch(socks, frame)
  <2>1. CASE Unmoved(socks) /\ UNCHANGED gateway
    BY <1>2, <2>1 DEF Unmoved, worldVars, DiscordInv, GatewayShape, IsLive
  <2>2. CASE HandleMessage(socks, frame)
    BY <1>2, <2>2 DEF HandleMessage, Advanced, worldVars, DiscordInv, GatewayShape, IsLive
  <2>3. ASSUME NEW state, HandleReady(socks, state), {"phase", "generation"} \subseteq DOMAIN state,
               state.generation = gateway.generation
        PROVE  DiscordInv'
    BY <1>2, <2>3 DEF HandleReady, worldVars, GatewayShape, IsLive, Live
  <2>4. CASE HandleReady(socks, [Advanced(frame) EXCEPT !.session = frame.session])
    <3> DEFINE state == [Advanced(frame) EXCEPT !.session = frame.session]
    <3>1. {"phase", "generation"} \subseteq DOMAIN state /\ state.generation = gateway.generation
      BY DEF Advanced, DiscordInv, GatewayShape
    <3> HIDE DEF state
    <3> QED BY <2>3, <2>4, <3>1 DEF state
  <2>5. CASE HandleReady(socks, Advanced(frame))
    <3>1. /\ {"phase", "generation"} \subseteq DOMAIN Advanced(frame)
          /\ Advanced(frame).generation = gateway.generation
      BY DEF Advanced, DiscordInv, GatewayShape
    <3> QED BY <2>3, <2>5, <3>1
  <2> QED BY <1>7, <2>1, <2>2, <2>4, <2>5 DEF HandleDispatch
<1> QED BY <1>3, <1>4, <1>5, <1>6, <1>7 DEF HandleFrame

LEMMA ReceivingInv ==
  ASSUME DiscordInv, NEW c \in Connection, Arrives(c) \/ Handle(c) \/ Close(c) \/ FrameRejected(c)
  PROVE  DiscordInv'
<1>1. CASE Arrives(c)
  <2>1. SocketShape(sockets)' /\ OwnedSockets' = OwnedSockets
    BY <1>1 DEF Arrives, Arrive, DiscordInv, SocketShape, OwnedSockets
  <2> QED BY <1>1, <2>1, QuietInv
          DEF Arrives, DiscordInv, GatewayShape, IsLive, worldVars
<1>2. CASE Handle(c)
  <2>1. IsLive /\ Kept(Emitting(c)) /\ HandleFrame(Emitting(c), sockets[c].decoding)
    BY <1>2, EmittingKept DEF Handle
  <2> QED BY <2>1, HandleFrameInv
<1>3. CASE Close(c)
  <2>1. runtime' # "loading"
    BY <1>3 DEF Close, DiscordInv, worldVars
  <2>2. ToFatal(sockets) \/ \E clear \in BOOLEAN : Backoff(sockets, clear)
    BY <1>3 DEF Close, ClosedWith
  <2> QED BY <2>1, <2>2, KeptNow, BackoffInv, FatalInv
<1>4. CASE FrameRejected(c)
  <2>1. SocketShape(sockets)' /\ OwnedSockets' \subseteq OwnedSockets
    BY <1>4 DEF FrameRejected, RejectFrame, TornDown, Finished, Socket, DiscordInv, SocketShape,
                OwnedSockets
  <2> QED BY <1>4, <2>1, QuietInv
          DEF FrameRejected, DiscordInv, GatewayShape, IsLive
<1> QED BY <1>1, <1>2, <1>3, <1>4

LEMMA OpeningInv ==
  ASSUME DiscordInv, Opening \/ Reconnect \/ ResolveFails \/ OpenFails
  PROVE  DiscordInv'
<1>1. CASE Load
  <2>1. OwnedSockets = {}
    BY <1>1 DEF Load, DiscordInv
  <2> QED BY <1>1, <2>1
          DEF Load, Connecting, Initial, DiscordInv, GatewayShape, SocketShape, OwnedSockets,
              Generation, IsLive, Live
<1>2. CASE Reconnect
  <2>1. OwnedSockets = {} /\ runtime # "loading" /\ runtime' = runtime
    BY <1>2 DEF Reconnect, DiscordInv, NoTimers, worldVars
  <2> QED BY <1>2, <2>1
          DEF Reconnect, Connecting, DiscordInv, GatewayShape, SocketShape, OwnedSockets,
              Generation, IsLive, Live
<1>3. CASE Resolve
  <2>1. IsLive /\ runtime' = runtime /\ runtime # "loading"
    BY <1>3 DEF Resolve, DiscordInv, worldVars
  <2>2. CASE Failure(FALSE)
    BY <2>1, <2>2, FailureInv
  <2>3. CASE /\ sockets' = Connected(Generation) /\ cycle' = "created"
             /\ UNCHANGED gateway
    <3>1. SocketShape(sockets)'
      BY <2>3 DEF Connected, Socket, DiscordInv, SocketShape
    <3>2. OwnedSockets' \subseteq {Generation}
      BY <2>3 DEF Connected, Socket, DiscordInv, SocketShape, OwnedSockets
    <3> QED BY <2>1, <2>3, <3>1, <3>2 DEF DiscordInv, GatewayShape, Generation, IsLive
  <2> QED BY <1>3, <2>2, <2>3 DEF Resolve
<1>4. CASE Listen
  BY <1>4, QuietInv
     DEF Listen, DiscordInv, GatewayShape, SocketShape, OwnedSockets, IsLive, worldVars
<1>5. CASE Open
  <2>1. SocketShape(sockets)' /\ OwnedSockets' \subseteq OwnedSockets
    BY <1>5 DEF Open, DiscordInv, SocketShape, OwnedSockets
  <2>2. runtime # "loading"
    BY <1>5 DEF Open, DiscordInv
  <2> QED BY <1>5, <2>1, <2>2, QuietInv DEF Open, DiscordInv, GatewayShape, IsLive
<1>6. CASE OpenFails \/ ReadyRejects
  <2>1. runtime' # "loading" /\ Failure(FALSE)
    BY <1>6 DEF OpenFails, ReadyRejects, DiscordInv, worldVars
  <2> QED BY <2>1, FailureInv
<1>7. CASE ResolveFails
  <2>1. runtime' # "loading" /\ \E fatal \in BOOLEAN : Failure(fatal)
    BY <1>7 DEF ResolveFails, DiscordInv
  <2> QED BY <2>1, FailureInv
<1> QED BY <1>1, <1>2, <1>3, <1>4, <1>5, <1>6, <1>7 DEF Opening


LEMMA SendingInv ==
  ASSUME DiscordInv, SendFrame \/ SendRefused
  PROVE  DiscordInv'
<1>1. runtime # "loading" /\ runtime' = runtime
  BY DEF SendFrame, SendRefused, DiscordInv
<1>2. CASE \E fatal \in BOOLEAN : Failure(fatal)
  BY <1>1, <1>2, FailureInv
<1>3. CASE /\ UNCHANGED <<gateway, cycle>>
           /\ Kept(sockets')
  <2>1. SocketShape(sockets)' /\ OwnedSockets' = OwnedSockets
    BY <1>3 DEF Kept, SocketShape, OwnedSockets
  <2> QED BY <1>1, <1>3, <2>1, QuietInv DEF DiscordInv, GatewayShape, IsLive
<1>4. Identified \/ Resumed => Kept(sockets')
  <2> SUFFICES ASSUME Identified \/ Resumed PROVE Kept(sockets')
    OBVIOUS
  <2>1. PICK frames : sockets' = Sent(sockets, frames)
    BY DEF Identified, Resumed
  <2> QED BY <2>1, KeptNow, SentKept
<1>5. CASE SendFrame
  <2>1. \/ Failure(FALSE)
        \/ UNCHANGED <<gateway, cycle>> /\ (sockets' = sockets \/ Identified \/ Resumed)
    BY <1>5 DEF SendFrame
  <2> QED BY <1>2, <1>3, <1>4, <2>1, KeptNow
<1>6. CASE SendRefused
  BY <1>2, <1>6 DEF SendRefused
<1> QED BY <1>5, <1>6

LEMMA TimerInv ==
  ASSUME DiscordInv, Timeout \/ Heartbeat \/ HeartbeatFails \/ HeartbeatIdle
  PROVE  DiscordInv'
<1>1. runtime # "loading" /\ runtime' = runtime
  <2>1. timers["hello"] # 0 \/ timers["ready"] # 0 \/ timers["heartbeat"] # 0
    BY DEF Timeout, HelloTimeout, ReadyTimeout, HeartbeatUnanswered, Heartbeat, HeartbeatFails,
           HeartbeatIdle, Due
  <2>2. timers # NoTimers
    BY <2>1 DEF NoTimers
  <2>3. runtime' = runtime
    BY DEF Timeout, HelloTimeout, ReadyTimeout, HeartbeatUnanswered, Heartbeat, HeartbeatFails,
           HeartbeatIdle, worldVars
  <2> QED BY <2>2, <2>3 DEF DiscordInv
<1>2. CASE Timeout
  <2>1. Backoff(sockets, FALSE)
    BY <1>2 DEF Timeout, HelloTimeout, ReadyTimeout, HeartbeatUnanswered
  <2> QED BY <1>1, <2>1, KeptNow, BackoffInv
<1>3. CASE Heartbeat
  <2>1. Kept(Acknowledged(sockets)) /\ sockets' = Acknowledged(sockets)
    BY <1>3, KeptNow, SentKept DEF Heartbeat, Acknowledged
  <2>2. SocketShape(sockets)' /\ OwnedSockets' = OwnedSockets
    BY <2>1, OwnedKept
  <2>3. /\ cycle' = cycle /\ GatewayShape' /\ gateway'.generation = gateway.generation
        /\ IsLive => IsLive'
    BY <1>3 DEF Heartbeat, DiscordInv, GatewayShape, IsLive
  <2> QED BY <1>1, <2>2, <2>3, QuietInv
<1>4. CASE HeartbeatFails
  <2>1. SocketShape(sockets)' /\ OwnedSockets' = {} /\ cycle' = "none"
    BY <1>4, KeptNow, CloseCycleInv DEF HeartbeatFails
  <2>2. GatewayShape'
    BY <1>4 DEF HeartbeatFails, Abandoned, DiscordInv, GatewayShape
  <2> QED BY <1>1, <2>1, <2>2, ClosedInv
<1>5. CASE HeartbeatIdle
  BY <1>1, <1>5, QuietInv
     DEF HeartbeatIdle, DiscordInv, GatewayShape, SocketShape, OwnedSockets, IsLive
<1> QED BY <1>2, <1>3, <1>4, <1>5

LEMMA StopInv ==
  ASSUME DiscordInv, Stop \/ ForgetStored \/ RegisterAgain \/ Crash
  PROVE  DiscordInv'
<1>1. CASE Stop
  <2>1. SocketShape(sockets)' /\ OwnedSockets' = {} /\ cycle' = "none"
    BY <1>1, KeptNow, CloseCycleInv DEF Stop
  <2>2. GatewayShape'
    BY <1>1 DEF Stop, Abandoned, DiscordInv, GatewayShape
  <2> QED BY <1>1, <2>1, <2>2, ClosedInv DEF Stop
<1>2. CASE ForgetStored
  BY <1>2, QuietInv
     DEF ForgetStored, worldVars, DiscordInv, GatewayShape, SocketShape, OwnedSockets, IsLive
<1>3. CASE NewRuntime
  <2>1. SocketShape(sockets)' /\ OwnedSockets' = {}
    BY <1>3 DEF NewRuntime, Socket, SocketShape, OwnedSockets
  <2>2. GatewayShape' /\ ~IsLive'
    BY <1>3 DEF NewRuntime, Initial, NoSession, Session, GatewayShape, IsLive, Live
  <2> QED BY <1>3, <2>1, <2>2 DEF NewRuntime, DiscordInv, NoTimers
<1> QED BY <1>1, <1>2, <1>3 DEF RegisterAgain, Crash

(* What the remote end does reaches the gateway by the connection only. *)
LEMMA RemoteInv ==
  ASSUME DiscordInv,
         RemoteMessage \/ RemoteGoes \/ RemoteAsks \/ RemoteForgets \/ SocketsAborted
                       \/ SaveEnds \/ IngestEnds
  PROVE  DiscordInv'
<1>1. UNCHANGED <<gateway, cycle, sending, timers, runtime>>
  BY DEF RemoteMessage, RemoteGoes, RemoteAsks, RemoteForgets, SocketsAborted, SaveEnds, IngestEnds
<1>2. CASE \E socks : sockets' = socks /\ Kept(socks)
  <2>1. SocketShape(sockets)' /\ OwnedSockets' = OwnedSockets
    BY <1>2, OwnedKept
  <2> QED BY <1>1, <2>1, QuietInv DEF DiscordInv, GatewayShape, IsLive
<1>3. CASE \E frames : sockets' = Sent(sockets, frames)
  BY <1>2, <1>3, KeptNow, SentKept
<1>4. CASE sockets' = sockets
  BY <1>2, <1>4, KeptNow
<1>5. CASE RemoteMessage
  BY <1>3, <1>4, <1>5 DEF RemoteMessage
<1>6. CASE RemoteGoes
  <2>1. CASE \E code \in Closing :
               sockets' = [sockets EXCEPT ![remote.attached].incoming = <<Frame(code)>>]
    <3>1. Kept(sockets')
      BY <2>1, KeptNow DEF Kept, SocketShape
    <3> QED BY <1>2, <3>1
  <2> QED BY <1>3, <1>4, <1>6, <2>1 DEF RemoteGoes
<1>7. CASE RemoteAsks
  BY <1>3, <1>7 DEF RemoteAsks
<1>8. CASE SocketsAborted
  <2>1. SocketShape(sockets)' /\ OwnedSockets' \subseteq OwnedSockets
    BY <1>8 DEF SocketsAborted, AbortSockets, Finished, Socket, DiscordInv, SocketShape,
                OwnedSockets
  <2> QED BY <1>1, <2>1, QuietInv DEF DiscordInv, GatewayShape, IsLive
<1>9. CASE RemoteForgets \/ SaveEnds \/ IngestEnds
  BY <1>4, <1>9 DEF RemoteForgets, SaveEnds, IngestEnds
<1> QED BY <1>5, <1>6, <1>7, <1>8, <1>9

LEMMA DiscordStarts == DiscordInit => DiscordInv
BY DEF DiscordInit, SocketInit, Socket, Initial, NoSession, Session, DiscordInv, GatewayShape,
       SocketShape, OwnedSockets, IsLive, Live

LEMMA DiscordStep == DiscordInv /\ [DiscordNext]_discordVars => DiscordInv'
<1> SUFFICES ASSUME DiscordInv, [DiscordNext]_discordVars PROVE DiscordInv'
  OBVIOUS
<1>1. CASE UNCHANGED discordVars
  BY <1>1, QuietInv
     DEF discordVars, DiscordInv, GatewayShape, SocketShape, OwnedSockets, IsLive
<1>2. CASE DiscordNext
  BY <1>2, OpeningInv, ReceivingInv, SendingInv, TimerInv, StopInv, RemoteInv
     DEF DiscordNext, Receiving
<1> QED BY <1>1, <1>2

(* However opening, closing, stopping and starting again cross each other, no   *)
(* connection outlives the cycle it was opened in: the one that is owned is of  *)
(* the current generation, and a gateway that waits, has given up or is stopped *)
(* has none (channel-discord runtime.ts, #openSocket and #closeCycle).          *)
THEOREM OneConnection == DiscordSpec => []OneSocket
<1>1. DiscordInit => DiscordInv
  BY DiscordStarts
<1>2. DiscordInv => OneSocket
  <2> SUFFICES ASSUME DiscordInv PROVE OneSocket
    OBVIOUS
  <2>1. OwnedSockets = {} \/ OwnedSockets = {Generation}
    BY DEF DiscordInv
  <2>2. Cardinality({}) = 0 /\ Cardinality({Generation}) = 1
    BY FS_EmptySet, FS_Singleton
  <2> QED BY <2>1, <2>2 DEF OneSocket, DiscordInv
<1> QED BY <1>1, <1>2, DiscordStep, PTL DEF DiscordSpec

(***************************** What is dispatched *****************************)

Dispatches == {"READY", "RESUMED", "MESSAGE"}

Ops == {"hello", "beat", "ack", "reconnect", "invalid", "invalidResumable"} \cup Dispatches

(* What may be on its way: the frames of the remote end and the closes. *)
Events == [op : Ops \cup Closing, session : Nat, seq : Nat]

(* A connection of WebSockets. *)
SocketRecord ==
  [stage : {"none", "opening", "open", "finished"}, incoming : Seq(Events), queue : Seq(Events),
   decoding : Events \cup {NoEvent}]

(* A connection that is not open carries nothing, the pump has frames waiting   *)
(* only while it is at one, and it never gets a close.                          *)
PipeType(k) ==
  /\ k \in SocketRecord
  /\ k.stage # "open" => k.decoding = NoEvent /\ k.incoming = <<>>
  /\ k.decoding = NoEvent => k.queue = <<>>
  /\ k.decoding = NoEvent \/ k.decoding.op \in Ops
  /\ \A i \in 1 .. Len(k.queue) : k.queue[i].op \in Ops

PipesHold(socks) ==
  DOMAIN socks = Connection /\ \A c \in Connection : PipeType(socks[c])

(* What the pump has taken and not handed over. *)
AtPump(k) == (IF k.decoding = NoEvent THEN <<>> ELSE <<k.decoding>>) \o k.queue

(* What a connection has still to hand over. *)
Pipe(k) == AtPump(k) \o k.incoming

LEMMA EventsAssociative ==
  ASSUME NEW s \in Seq(Events), NEW t \in Seq(Events), NEW u \in Seq(Events)
  PROVE  (s \o t) \o u = s \o (t \o u)
<1>1. \A S : \A a, b, c \in Seq(S) : (a \o b) \o c = a \o (b \o c)
  BY ConcatAssociative
<1> QED BY <1>1, SMT

LEMMA SameAtPump ==
  ASSUME NEW k, NEW new, new.queue = k.queue, new.decoding = k.decoding
  PROVE  AtPump(new) = AtPump(k)
BY Zenon DEF AtPump

LEMMA AtPumpType ==
  ASSUME NEW k, PipeType(k)
  PROVE  /\ AtPump(k) \in Seq(Events) /\ k.incoming \in Seq(Events) /\ k.queue \in Seq(Events)
         /\ Pipe(k) \in Seq(Events)
<1> DEFINE now == IF k.decoding = NoEvent THEN <<>> ELSE <<k.decoding>>
<1>1. now \in Seq(Events) /\ k.queue \in Seq(Events) /\ k.incoming \in Seq(Events)
  BY DEF PipeType, SocketRecord
<1> HIDE DEF now
<1>2. now \o k.queue \in Seq(Events)
  BY <1>1, ConcatProperties
<1>3. AtPump(k) = now \o k.queue
  BY DEF AtPump, now
<1>4. AtPump(k) \o k.incoming \in Seq(Events)
  BY <1>1, <1>2, <1>3, ConcatProperties
<1> QED BY <1>1, <1>2, <1>3, <1>4 DEF Pipe

LEMMA NothingInPipe ==
  ASSUME NEW k, PipeType(k), k.stage # "open"
  PROVE  Pipe(k) = <<>>
<1>1. k.decoding = NoEvent /\ k.incoming = <<>> /\ k.queue = <<>>
  BY DEF PipeType
<1>2. <<>> \o <<>> = <<>>
  BY EmptySeq, ConcatEmptySeq
<1>3. Pipe(k) = (<<>> \o <<>>) \o <<>>
  BY <1>1 DEF Pipe, AtPump
<1> QED BY <1>2, <1>3

(* A sequence is its head, followed by its tail. *)
LEMMA HeadThenTail ==
  ASSUME NEW S, NEW s \in Seq(S), s # <<>>
  PROVE  s = <<Head(s)>> \o Tail(s)
<1>1. Head(s) \in S /\ Tail(s) \in Seq(S) /\ Len(Tail(s)) = Len(s) - 1
      /\ \A i \in 1 .. Len(Tail(s)) : Tail(s)[i] = s[i + 1]
  BY HeadTailProperties
<1>2. <<Head(s)>> \in Seq(S) /\ Len(<<Head(s)>>) = 1 /\ <<Head(s)>>[1] = Head(s)
  BY <1>1
<1>3. Len(s) \in Nat \ {0} /\ Head(s) = s[1]
  BY EmptySeq
<1> DEFINE h == <<Head(s)>>
           t == Tail(s)
<1>4. /\ h \o t \in Seq(S) /\ Len(h \o t) = Len(h) + Len(t)
      /\ \A i \in 1 .. Len(h) + Len(t) : (h \o t)[i] = IF i <= Len(h) THEN h[i] ELSE t[i - Len(h)]
  BY <1>1, <1>2, ConcatProperties
<1>5. Len(h) = 1 /\ h[1] = s[1] /\ Len(t) = Len(s) - 1 /\ Len(t) \in Nat
      /\ \A i \in 1 .. Len(t) : t[i] = s[i + 1]
  BY <1>1, <1>2, <1>3
<1> HIDE DEF h, t
<1>6. Len(h \o t) = Len(s)
  BY <1>3, <1>4, <1>5
<1>7. ASSUME NEW i \in 1 .. Len(s) PROVE s[i] = (h \o t)[i]
  <2>1. (h \o t)[i] = IF i <= 1 THEN h[i] ELSE t[i - 1]
    BY <1>3, <1>4, <1>5
  <2>2. CASE i = 1
    BY <1>5, <2>1, <2>2
  <2>3. CASE i # 1
    <3>1. i - 1 \in 1 .. Len(t) /\ (i - 1) + 1 = i /\ ~(i <= 1)
      BY <1>3, <1>5, <2>3
    <3>2. t[i - 1] = s[(i - 1) + 1]
      BY <1>5, <3>1
    <3> QED BY <2>1, <3>1, <3>2
  <2> QED BY <2>2, <2>3
<1>8. s = h \o t
  BY <1>4, <1>6, <1>7, SeqEqual
<1> QED BY <1>8 DEF h, t

(* A frame that arrives stays where it is in the pipe. *)
LEMMA ArrivedPipe ==
  ASSUME NEW k, PipeType(k), k.incoming # <<>>, Head(k.incoming).op \notin Closing,
         k.stage = "open", NEW new,
         new = IF k.decoding = NoEvent
               THEN [k EXCEPT !.incoming = Tail(@), !.decoding = Head(k.incoming)]
               ELSE [k EXCEPT !.incoming = Tail(@), !.queue = Append(@, Head(k.incoming))]
  PROVE  PipeType(new) /\ Pipe(new) = Pipe(k) /\ new.stage = k.stage
<1> DEFINE f == Head(k.incoming)
           rest == Tail(k.incoming)
<1>1. /\ k.incoming \in Seq(Events) /\ k.queue \in Seq(Events) /\ k \in SocketRecord
      /\ f \in Events /\ rest \in Seq(Events)
  BY HeadTailProperties DEF PipeType, SocketRecord
<1>2. f.op \in Ops /\ f # NoEvent
  BY <1>1 DEF Events, NoEvent, Ops, Dispatches
<1>3. k.incoming = <<f>> \o rest
  BY <1>1, HeadThenTail
<1>4. <<f>> \in Seq(Events)
  BY <1>1
<1>5. CASE k.decoding = NoEvent
  <2>1. /\ new.incoming = rest /\ new.decoding = f /\ new.queue = <<>> /\ new.stage = k.stage
        /\ new \in SocketRecord /\ k.queue = <<>>
    BY <1>1, <1>5 DEF SocketRecord, PipeType
  <2> HIDE DEF f, rest
  <2>2. PipeType(new)
    BY <1>2, <2>1 DEF PipeType
  <2>3. <<>> \o k.incoming = k.incoming /\ <<>> \o <<>> = <<>> /\ <<f>> \o <<>> = <<f>>
    BY <1>1, <1>4, EmptySeq, ConcatEmptySeq
  <2>4. AtPump(k) = <<>> \o <<>> /\ AtPump(new) = <<f>> \o <<>>
    BY <1>2, <1>5, <2>1 DEF AtPump
  <2> QED BY <1>3, <2>1, <2>2, <2>3, <2>4 DEF Pipe
<1>6. CASE k.decoding # NoEvent
  <2> DEFINE queue == Append(k.queue, f)
             d == <<k.decoding>>
  <2>1. /\ queue \in Seq(Events) /\ Len(queue) = Len(k.queue) + 1
        /\ \A i \in 1 .. Len(k.queue) : queue[i] = k.queue[i]
        /\ queue[Len(k.queue) + 1] = f
    BY <1>1, AppendProperties
  <2>2. /\ new.incoming = rest /\ new.decoding = k.decoding /\ new.queue = queue
        /\ new.stage = k.stage /\ new \in SocketRecord
    BY <1>1, <1>6, <2>1 DEF SocketRecord
  <2>3. queue = k.queue \o <<f>>
    BY <1>1, AppendIsConcat
  <2>4. d \in Seq(Events)
    BY <1>1, <1>6 DEF SocketRecord
  <2>5. AtPump(k) = d \o k.queue /\ AtPump(new) = d \o queue
    BY <1>6, <2>2 DEF AtPump
  <2> HIDE DEF queue, d, f, rest
  <2>6. d \o queue = (d \o k.queue) \o <<f>>
    BY <1>1, <1>4, <2>3, <2>4, EventsAssociative
  <2>7. d \o k.queue \in Seq(Events)
    BY <1>1, <2>4, ConcatProperties
  <2>8. ((d \o k.queue) \o <<f>>) \o rest = (d \o k.queue) \o (<<f>> \o rest)
    BY <1>1, <1>4, <2>7, EventsAssociative
  <2>9. Pipe(new) = Pipe(k)
    BY <1>3, <2>2, <2>5, <2>6, <2>8 DEF Pipe
  <2>10. \A i \in 1 .. Len(queue) : queue[i].op \in Ops
    <3> SUFFICES ASSUME NEW i \in 1 .. Len(queue) PROVE queue[i].op \in Ops
      OBVIOUS
    <3>1. Len(k.queue) \in Nat
      BY <1>1
    <3>2. i \in 1 .. Len(k.queue) \/ i = Len(k.queue) + 1
      BY <2>1, <3>1
    <3>3. \A n \in 1 .. Len(k.queue) : k.queue[n].op \in Ops
      BY DEF PipeType
    <3> QED BY <1>2, <2>1, <3>2, <3>3
  <2>11. PipeType(new)
    BY <1>6, <2>2, <2>10 DEF PipeType
  <2> QED BY <2>2, <2>9, <2>11
<1> QED BY <1>5, <1>6

(* The frame that is handed over is the first of the pipe. *)
LEMMA EmittedPipe ==
  ASSUME NEW k, PipeType(k), k.decoding # NoEvent, NEW new,
         new = IF k.queue = <<>> THEN [k EXCEPT !.decoding = NoEvent]
               ELSE [k EXCEPT !.decoding = Head(k.queue), !.queue = Tail(@)]
  PROVE  /\ PipeType(new) /\ Pipe(k) = <<k.decoding>> \o Pipe(new) /\ new.stage = k.stage
         /\ k.stage = "open" /\ k.decoding \in Events /\ k.decoding.op \in Ops
<1> DEFINE d == <<k.decoding>>
<1>1. /\ k.incoming \in Seq(Events) /\ k.queue \in Seq(Events) /\ k \in SocketRecord
      /\ k.decoding \in Events /\ d \in Seq(Events) /\ k.stage = "open" /\ k.decoding.op \in Ops
  BY DEF PipeType, SocketRecord
<1>2. AtPump(k) = d \o k.queue
  BY DEF AtPump
<1>3. CASE k.queue = <<>>
  <2>1. /\ new.incoming = k.incoming /\ new.decoding = NoEvent /\ new.queue = <<>>
        /\ new.stage = k.stage /\ new \in SocketRecord
    BY <1>1, <1>3 DEF SocketRecord
  <2>2. PipeType(new)
    BY <1>1, <2>1 DEF PipeType
  <2>3. AtPump(new) = <<>> \o <<>>
    BY <2>1 DEF AtPump
  <2> HIDE DEF d
  <2>4. <<>> \o k.incoming = k.incoming /\ <<>> \o <<>> = <<>> /\ d \o <<>> = d
    BY <1>1, EmptySeq, ConcatEmptySeq
  <2>5. Pipe(k) = d \o Pipe(new)
    BY <1>2, <1>3, <2>1, <2>3, <2>4 DEF Pipe
  <2> QED BY <1>1, <2>1, <2>2, <2>5 DEF d
<1>4. CASE k.queue # <<>>
  <2> DEFINE h == Head(k.queue)
             t == Tail(k.queue)
  <2>1. /\ h \in Events /\ t \in Seq(Events) /\ Len(t) = Len(k.queue) - 1
        /\ \A i \in 1 .. Len(t) : t[i] = k.queue[i + 1]
        /\ h = k.queue[1] /\ Len(k.queue) \in Nat \ {0}
    BY <1>1, <1>4, HeadTailProperties, EmptySeq
  <2>2. /\ new.incoming = k.incoming /\ new.decoding = h /\ new.queue = t
        /\ new.stage = k.stage /\ new \in SocketRecord
    BY <1>1, <1>4, <2>1 DEF SocketRecord
  <2>3. k.queue = <<h>> \o t
    BY <1>1, <1>4, HeadThenTail
  <2> HIDE DEF h, t, d
  <2>4. \A i \in 1 .. Len(k.queue) : k.queue[i].op \in Ops
    BY DEF PipeType
  <2>5. h.op \in Ops /\ h # NoEvent
    <3>1. 1 \in 1 .. Len(k.queue)
      BY <2>1
    <3> QED BY <2>1, <2>4, <3>1 DEF NoEvent, Ops, Dispatches
  <2>6. \A i \in 1 .. Len(t) : t[i].op \in Ops
    <3> SUFFICES ASSUME NEW i \in 1 .. Len(t) PROVE t[i].op \in Ops
      OBVIOUS
    <3>1. i + 1 \in 1 .. Len(k.queue)
      BY <2>1
    <3> QED BY <2>1, <2>4, <3>1
  <2>7. PipeType(new)
    BY <1>1, <2>2, <2>5, <2>6 DEF PipeType
  <2>8. AtPump(new) = k.queue
    BY <2>2, <2>3, <2>5 DEF AtPump
  <2>9. (d \o k.queue) \o k.incoming = d \o (k.queue \o k.incoming)
    BY <1>1, EventsAssociative
  <2>10. Pipe(k) = d \o Pipe(new)
    BY <1>2, <2>2, <2>8, <2>9 DEF Pipe
  <2> QED BY <1>1, <2>2, <2>7, <2>10 DEF d
<1> QED BY <1>3, <1>4

(* What the remote end writes goes to the end of the pipe. *)
LEMMA SentPipe ==
  ASSUME NEW k, PipeType(k), k.stage = "open", NEW frames \in Seq(Events), NEW new,
         new = [k EXCEPT !.incoming = @ \o frames]
  PROVE  PipeType(new) /\ Pipe(new) = Pipe(k) \o frames /\ new.stage = k.stage
<1>1. AtPump(k) \in Seq(Events) /\ k.incoming \in Seq(Events) /\ k.queue \in Seq(Events)
  BY AtPumpType
<1>2. k.incoming \o frames \in Seq(Events)
  BY <1>1, ConcatProperties
<1>3. /\ new.incoming = k.incoming \o frames /\ new.decoding = k.decoding /\ new.queue = k.queue
      /\ new.stage = k.stage /\ new \in SocketRecord
  BY <1>2 DEF PipeType, SocketRecord
<1>4. PipeType(new)
  BY <1>3 DEF PipeType
<1>5. AtPump(new) = AtPump(k)
  BY <1>3, SameAtPump
<1>6. (AtPump(k) \o k.incoming) \o frames = AtPump(k) \o (k.incoming \o frames)
  BY <1>1, EventsAssociative
<1> QED BY <1>3, <1>4, <1>5, <1>6 DEF Pipe

(* A connection that breaks loses the end of the pipe. *)
LEMMA BrokenPipe ==
  ASSUME NEW k, PipeType(k), k.stage = "open", NEW frames \in Seq(Events), NEW new,
         new = [k EXCEPT !.incoming = frames]
  PROVE  /\ PipeType(new) /\ Pipe(new) = AtPump(k) \o frames /\ new.stage = k.stage
<1>1. /\ new.incoming = frames /\ new.decoding = k.decoding /\ new.queue = k.queue
      /\ new.stage = k.stage /\ new \in SocketRecord
  BY DEF PipeType, SocketRecord
<1>2. PipeType(new)
  BY <1>1 DEF PipeType
<1>3. AtPump(new) = AtPump(k)
  BY <1>1, SameAtPump
<1> QED BY <1>1, <1>2, <1>3 DEF Pipe

(******************************* What is on its way *****************************)

IsDispatch(f) == f.op \in Dispatches

(* Each session's log begins with its READY. *)
LogsType(logs) ==
  /\ logs \in Seq(Seq(Dispatches))
  /\ \A s \in 1 .. Len(logs) : Len(logs[s]) > 0 /\ logs[s][1] = "READY"

(* A dispatch that stands in the log, after the sequence number q of session s. *)
Logged(f, s, q, logs) ==
  /\ f.session \in 1 .. Len(logs) /\ f.seq \in 1 .. Len(logs[f.session])
  /\ f.op = logs[f.session][f.seq] /\ f.seq > q /\ s \in {0, f.session}

(* P has the dispatch with the number n. *)
Brings(P, n) == \E j \in 1 .. Len(P) : IsDispatch(P[j]) /\ P[j].seq = n

(* The dispatches in P are of one session, in order, and none is missing.       *)
Follows(P, s, q, logs) ==
  /\ \A i \in 1 .. Len(P) : IsDispatch(P[i]) =>
       Logged(P[i], s, q, logs) /\ \A n \in q + 1 .. P[i].seq - 1 : Brings(P, n)
  /\ \A i, j \in 1 .. Len(P) : IsDispatch(P[i]) /\ IsDispatch(P[j]) =>
       P[i].session = P[j].session /\ (i < j => P[i].seq < P[j].seq)

(* The dispatches in P are all those of session s after q, up to n. *)
Brought(P, s, q, n) ==
  /\ \A i \in 1 .. Len(P) : IsDispatch(P[i]) => P[i].session = s
  /\ \A m \in q + 1 .. n : Brings(P, m)

(* They are all that is missing of the current session. *)
UpToDate(P, s, q, current, logs) ==
  /\ current # 0 /\ s \in {0, current}
  /\ Brought(P, current, q, Len(logs[current]))

NoDispatch(P) == \A i \in 1 .. Len(P) : ~IsDispatch(P[i])

(* The logs of the sessions have only become longer. *)
LogsGrow(logs, more) ==
  /\ Len(logs) <= Len(more)
  /\ \A s \in 1 .. Len(logs) :
       /\ Len(logs[s]) <= Len(more[s])
       /\ \A q \in 1 .. Len(logs[s]) : more[s][q] = logs[s][q]

LEMMA LogsAre ==
  ASSUME NEW logs, LogsType(logs)
  PROVE  /\ Len(logs) \in Nat
         /\ \A s \in 1 .. Len(logs) : logs[s] \in Seq(Dispatches) /\ Len(logs[s]) \in Nat \ {0}
<1>1. logs \in Seq(Seq(Dispatches))
  BY DEF LogsType
<1>2. Len(logs) \in Nat
  BY <1>1
<1>3. ASSUME NEW s \in 1 .. Len(logs)
      PROVE  logs[s] \in Seq(Dispatches) /\ Len(logs[s]) \in Nat \ {0}
  <2>1. logs[s] \in Seq(Dispatches)
    BY <1>1, ElementOfSeq
  <2> QED BY <2>1 DEF LogsType
<1> QED BY <1>2, <1>3

LEMMA EventsAre ==
  ASSUME NEW P \in Seq(Events)
  PROVE  /\ Len(P) \in Nat
         /\ \A i \in 1 .. Len(P) : P[i] \in Events /\ P[i].session \in Nat /\ P[i].seq \in Nat
<1>1. \A i \in 1 .. Len(P) : P[i] \in Events
  BY ElementOfSeq
<1> QED BY <1>1 DEF Events

LEMMA NothingComes ==
  ASSUME NEW P, NoDispatch(P), NEW s, NEW q, NEW logs
  PROVE  Follows(P, s, q, logs)
BY DEF NoDispatch, Follows

(* The indices of a sequence with one element in front. *)
LEMMA InFront ==
  ASSUME NEW f \in Events, NEW R \in Seq(Events), NEW P, P = <<f>> \o R
  PROVE  /\ P \in Seq(Events) /\ Len(P) = Len(R) + 1 /\ Len(R) \in Nat /\ P[1] = f
         /\ \A i \in 1 .. Len(R) : P[i + 1] = R[i]
         /\ \A i \in 1 .. Len(P) : i # 1 => i - 1 \in 1 .. Len(R) /\ P[i] = R[i - 1]
<1> DEFINE h == <<f>>
<1>1. h \in Seq(Events) /\ Len(h) = 1 /\ h[1] = f
  OBVIOUS
<1> HIDE DEF h
<1>2. /\ h \o R \in Seq(Events) /\ Len(h \o R) = Len(h) + Len(R)
      /\ \A i \in 1 .. Len(h) + Len(R) : (h \o R)[i] = IF i <= Len(h) THEN h[i] ELSE R[i - Len(h)]
  BY <1>1, ConcatProperties
<1>3. P = h \o R /\ Len(R) \in Nat
  BY DEF h
<1>4. P \in Seq(Events) /\ Len(P) = 1 + Len(R)
  BY <1>1, <1>2, <1>3
<1>5. \A i \in 1 .. 1 + Len(R) : P[i] = IF i <= 1 THEN h[i] ELSE R[i - 1]
  BY <1>1, <1>2, <1>3
<1>6. P[1] = f
  BY <1>1, <1>3, <1>5
<1>7. ASSUME NEW i \in 1 .. Len(R) PROVE P[i + 1] = R[i]
  <2>1. i + 1 \in 1 .. 1 + Len(R) /\ ~(i + 1 <= 1) /\ (i + 1) - 1 = i
    BY <1>3
  <2> QED BY <1>5, <2>1
<1>8. ASSUME NEW i \in 1 .. Len(P), i # 1 PROVE i - 1 \in 1 .. Len(R) /\ P[i] = R[i - 1]
  <2>1. i - 1 \in 1 .. Len(R) /\ i \in 1 .. 1 + Len(R) /\ ~(i <= 1)
    BY <1>3, <1>4, <1>8
  <2> QED BY <1>5, <2>1
<1> QED BY <1>3, <1>4, <1>6, <1>7, <1>8

(* What is brought by a sequence whose first element is something else is       *)
(* brought by the rest.                                                         *)
LEMMA BroughtLater ==
  ASSUME NEW f \in Events, NEW R \in Seq(Events), NEW P, P = <<f>> \o R, NEW n,
         Brings(P, n), ~(IsDispatch(f) /\ f.seq = n)
  PROVE  Brings(R, n)
<1>1. PICK j \in 1 .. Len(P) : IsDispatch(P[j]) /\ P[j].seq = n
  BY DEF Brings
<1>2. j # 1
  BY <1>1, InFront
<1>3. j - 1 \in 1 .. Len(R) /\ P[j] = R[j - 1]
  BY <1>2, InFront
<1> QED BY <1>1, <1>3 DEF Brings

LEMMA InOrderLater ==
  ASSUME NEW f \in Events, NEW R \in Seq(Events), NEW P, P = <<f>> \o R,
         NEW s, NEW q, NEW logs, Follows(P, s, q, logs),
         NEW i \in 1 .. Len(R), NEW j \in 1 .. Len(R), IsDispatch(R[i]), IsDispatch(R[j])
  PROVE  R[i].session = R[j].session /\ (i < j => R[i].seq < R[j].seq)
<1>1. \A a, b \in 1 .. Len(P) : IsDispatch(P[a]) /\ IsDispatch(P[b]) =>
        P[a].session = P[b].session /\ (a < b => P[a].seq < P[b].seq)
  BY DEF Follows
<1>2. /\ i + 1 \in 1 .. Len(P) /\ P[i + 1] = R[i] /\ j + 1 \in 1 .. Len(P) /\ P[j + 1] = R[j]
      /\ i < j => i + 1 < j + 1
  BY InFront
<1>3. P[i + 1].session = P[j + 1].session /\ (i + 1 < j + 1 => P[i + 1].seq < P[j + 1].seq)
  BY <1>1, <1>2
<1> QED BY <1>2, <1>3

LEMMA FollowsLater ==
  ASSUME NEW f \in Events, NEW R \in Seq(Events), NEW P, P = <<f>> \o R,
         NEW s, NEW q \in Nat, NEW logs, LogsType(logs), Follows(P, s, q, logs), ~IsDispatch(f)
  PROVE  Follows(R, s, q, logs)
<1>1. ASSUME NEW i \in 1 .. Len(R), IsDispatch(R[i])
      PROVE  Logged(R[i], s, q, logs) /\ \A n \in q + 1 .. R[i].seq - 1 : Brings(R, n)
  <2>1. i + 1 \in 1 .. Len(P) /\ P[i + 1] = R[i]
    BY InFront
  <2>2. Logged(R[i], s, q, logs) /\ \A n \in q + 1 .. R[i].seq - 1 : Brings(P, n)
    BY <1>1, <2>1 DEF Follows
  <2> QED BY <2>2, BroughtLater
<1>2. ASSUME NEW i \in 1 .. Len(R), NEW j \in 1 .. Len(R), IsDispatch(R[i]), IsDispatch(R[j])
      PROVE  R[i].session = R[j].session /\ (i < j => R[i].seq < R[j].seq)
  BY <1>2, InOrderLater
<1> QED BY <1>1, <1>2 DEF Follows

LEMMA BroughtByRest ==
  ASSUME NEW f \in Events, NEW R \in Seq(Events), NEW P, P = <<f>> \o R,
         NEW s, NEW q \in Nat, NEW n \in Nat, Brought(P, s, q, n), ~IsDispatch(f)
  PROVE  Brought(R, s, q, n)
<1>1. ASSUME NEW i \in 1 .. Len(R), IsDispatch(R[i]) PROVE R[i].session = s
  <2>1. i + 1 \in 1 .. Len(P) /\ P[i + 1] = R[i]
    BY InFront
  <2> QED BY <1>1, <2>1 DEF Brought
<1>2. ASSUME NEW m \in q + 1 .. n PROVE Brings(R, m)
  BY BroughtLater DEF Brought
<1> QED BY <1>1, <1>2 DEF Brought

(* The first dispatch is the next one of the log. *)
LEMMA FollowsNext ==
  ASSUME NEW f \in Events, NEW R \in Seq(Events), NEW P, P = <<f>> \o R,
         NEW s, NEW q \in Nat, NEW logs, LogsType(logs), Follows(P, s, q, logs), IsDispatch(f)
  PROVE  /\ f.seq = q + 1 /\ Logged(f, s, q, logs)
         /\ \A t \in {s, f.session} : t \in {0, f.session} => Follows(R, t, q + 1, logs)
<1>1. 1 \in 1 .. Len(P) /\ P[1] = f
  BY InFront
<1>2. Logged(f, s, q, logs) /\ \A n \in q + 1 .. f.seq - 1 : Brings(P, n)
  BY <1>1 DEF Follows
<1>3. f.seq \in Nat /\ f.seq > q
  BY <1>2 DEF Logged, Events
<1>4. ASSUME NEW i \in 1 .. Len(R), IsDispatch(R[i])
      PROVE  R[i].session = f.session /\ f.seq < R[i].seq /\ R[i].seq \in Nat
             /\ Logged(R[i], s, q, logs) /\ \A n \in q + 1 .. R[i].seq - 1 : Brings(P, n)
  <2>1. i + 1 \in 1 .. Len(P) /\ P[i + 1] = R[i] /\ 1 < i + 1
    BY InFront
  <2>2. R[i].seq \in Nat
    BY EventsAre
  <2>3. Logged(R[i], s, q, logs) /\ \A n \in q + 1 .. R[i].seq - 1 : Brings(P, n)
    BY <1>4, <2>1 DEF Follows
  <2>4. \A a, b \in 1 .. Len(P) : IsDispatch(P[a]) /\ IsDispatch(P[b]) =>
          P[a].session = P[b].session /\ (a < b => P[a].seq < P[b].seq)
    BY DEF Follows
  <2>5. P[1].session = P[i + 1].session /\ P[1].seq < P[i + 1].seq
    BY <1>1, <1>4, <2>1, <2>4
  <2> QED BY <1>1, <2>1, <2>2, <2>3, <2>5
<1>5. f.seq = q + 1
  <2> SUFFICES ASSUME f.seq # q + 1 PROVE FALSE
    OBVIOUS
  <2>1. q + 1 \in q + 1 .. f.seq - 1
    BY <1>3
  <2>2. Brings(P, q + 1)
    BY <1>2, <2>1
  <2>3. Brings(R, q + 1)
    BY <2>2, BroughtLater
  <2>4. PICK j \in 1 .. Len(R) : IsDispatch(R[j]) /\ R[j].seq = q + 1
    BY <2>3 DEF Brings
  <2>5. f.seq < q + 1
    BY <1>4, <2>4
  <2> QED BY <1>3, <2>5
<1>6. ASSUME NEW t, t \in {0, f.session}
      PROVE  Follows(R, t, q + 1, logs)
  <2>1. ASSUME NEW i \in 1 .. Len(R), IsDispatch(R[i])
        PROVE  Logged(R[i], t, q + 1, logs) /\ \A n \in (q + 1) + 1 .. R[i].seq - 1 : Brings(R, n)
    <3>1. Logged(R[i], t, q + 1, logs)
      BY <1>4, <1>5, <1>6, <2>1 DEF Logged
    <3>2. ASSUME NEW n \in (q + 1) + 1 .. R[i].seq - 1 PROVE Brings(R, n)
      <4>1. n \in q + 1 .. R[i].seq - 1 /\ f.seq # n
        BY <1>4, <1>5, <2>1
      <4>2. Brings(P, n)
        BY <1>4, <2>1, <4>1
      <4> QED BY <4>1, <4>2, BroughtLater
    <3> QED BY <3>1, <3>2
  <2>2. ASSUME NEW i \in 1 .. Len(R), NEW j \in 1 .. Len(R), IsDispatch(R[i]), IsDispatch(R[j])
        PROVE  R[i].session = R[j].session /\ (i < j => R[i].seq < R[j].seq)
    BY <2>2, InOrderLater
  <2> QED BY <2>1, <2>2 DEF Follows
<1> QED BY <1>2, <1>5, <1>6

LEMMA BroughtNext ==
  ASSUME NEW f \in Events, NEW R \in Seq(Events), NEW P, P = <<f>> \o R,
         NEW s, NEW q \in Nat, NEW n \in Nat, Brought(P, s, q, n), f.seq = q + 1
  PROVE  Brought(R, s, q + 1, n)
<1>1. ASSUME NEW i \in 1 .. Len(R), IsDispatch(R[i]) PROVE R[i].session = s
  <2>1. i + 1 \in 1 .. Len(P) /\ P[i + 1] = R[i]
    BY InFront
  <2> QED BY <1>1, <2>1 DEF Brought
<1>2. ASSUME NEW m \in (q + 1) + 1 .. n PROVE Brings(R, m)
  <2>1. m \in q + 1 .. n /\ f.seq # m
    OBVIOUS
  <2> QED BY <2>1, BroughtLater DEF Brought
<1> QED BY <1>1, <1>2 DEF Brought

(* The indices of two sequences, one behind the other. *)
LEMMA Behind ==
  ASSUME NEW A \in Seq(Events), NEW B \in Seq(Events), NEW P, P = A \o B
  PROVE  /\ P \in Seq(Events) /\ Len(P) = Len(A) + Len(B) /\ Len(A) \in Nat /\ Len(B) \in Nat
         /\ \A i \in 1 .. Len(A) : i \in 1 .. Len(P) /\ P[i] = A[i]
         /\ \A i \in 1 .. Len(B) : Len(A) + i \in 1 .. Len(P) /\ P[Len(A) + i] = B[i]
         /\ \A i \in 1 .. Len(P) : i \in 1 .. Len(A) \/ (i - Len(A) \in 1 .. Len(B) /\ P[i] = B[i - Len(A)])
<1>1. /\ P \in Seq(Events) /\ Len(P) = Len(A) + Len(B)
      /\ \A i \in 1 .. Len(A) + Len(B) : P[i] = IF i <= Len(A) THEN A[i] ELSE B[i - Len(A)]
  BY ConcatProperties
<1>2. Len(A) \in Nat /\ Len(B) \in Nat
  OBVIOUS
<1>3. ASSUME NEW i \in 1 .. Len(A) PROVE i \in 1 .. Len(P) /\ P[i] = A[i]
  <2>1. i \in 1 .. Len(A) + Len(B) /\ i <= Len(A)
    BY <1>2
  <2> QED BY <1>1, <2>1
<1>4. ASSUME NEW i \in 1 .. Len(B) PROVE Len(A) + i \in 1 .. Len(P) /\ P[Len(A) + i] = B[i]
  <2>1. Len(A) + i \in 1 .. Len(A) + Len(B) /\ ~(Len(A) + i <= Len(A)) /\ (Len(A) + i) - Len(A) = i
    BY <1>2
  <2> QED BY <1>1, <2>1
<1>5. ASSUME NEW i \in 1 .. Len(P), i \notin 1 .. Len(A)
      PROVE  i - Len(A) \in 1 .. Len(B) /\ P[i] = B[i - Len(A)]
  <2>1. i \in 1 .. Len(A) + Len(B) /\ ~(i <= Len(A)) /\ i - Len(A) \in 1 .. Len(B)
    BY <1>1, <1>2, <1>5
  <2> QED BY <1>1, <2>1
<1> QED BY <1>1, <1>2, <1>3, <1>4, <1>5

LEMMA BroughtByFirst ==
  ASSUME NEW A \in Seq(Events), NEW B \in Seq(Events), NEW n, Brings(A, n)
  PROVE  Brings(A \o B, n)
<1>1. PICK j \in 1 .. Len(A) : IsDispatch(A[j]) /\ A[j].seq = n
  BY DEF Brings
<1>2. j \in 1 .. Len(A \o B) /\ (A \o B)[j] = A[j]
  BY Behind
<1> QED BY <1>1, <1>2 DEF Brings

LEMMA DispatchOfFirst ==
  ASSUME NEW A \in Seq(Events), NEW B \in Seq(Events), NoDispatch(B),
         NEW i \in 1 .. Len(A \o B), IsDispatch((A \o B)[i])
  PROVE  i \in 1 .. Len(A) /\ (A \o B)[i] = A[i]
<1>1. i \in 1 .. Len(A)
  <2> SUFFICES ASSUME i \notin 1 .. Len(A) PROVE FALSE
    OBVIOUS
  <2>1. i - Len(A) \in 1 .. Len(B) /\ (A \o B)[i] = B[i - Len(A)]
    BY Behind
  <2> QED BY <2>1 DEF NoDispatch
<1> QED BY <1>1, Behind

(* Frames that dispatch nothing. *)
LEMMA FollowsMore ==
  ASSUME NEW A \in Seq(Events), NEW B \in Seq(Events), NoDispatch(B),
         NEW s, NEW q, NEW logs, Follows(A, s, q, logs)
  PROVE  Follows(A \o B, s, q, logs)
<1>1. ASSUME NEW i \in 1 .. Len(A \o B), IsDispatch((A \o B)[i])
      PROVE  /\ Logged((A \o B)[i], s, q, logs)
             /\ \A n \in q + 1 .. (A \o B)[i].seq - 1 : Brings(A \o B, n)
  <2>1. i \in 1 .. Len(A) /\ (A \o B)[i] = A[i]
    BY <1>1, DispatchOfFirst
  <2>2. Logged(A[i], s, q, logs) /\ \A n \in q + 1 .. A[i].seq - 1 : Brings(A, n)
    BY <1>1, <2>1 DEF Follows
  <2> QED BY <2>1, <2>2, BroughtByFirst
<1>2. ASSUME NEW i \in 1 .. Len(A \o B), NEW j \in 1 .. Len(A \o B),
             IsDispatch((A \o B)[i]), IsDispatch((A \o B)[j])
      PROVE  /\ (A \o B)[i].session = (A \o B)[j].session
             /\ i < j => (A \o B)[i].seq < (A \o B)[j].seq
  <2>1. /\ i \in 1 .. Len(A) /\ (A \o B)[i] = A[i]
        /\ j \in 1 .. Len(A) /\ (A \o B)[j] = A[j]
    BY <1>2, DispatchOfFirst
  <2> QED BY <1>2, <2>1 DEF Follows
<1> QED BY <1>1, <1>2 DEF Follows

LEMMA BroughtMore ==
  ASSUME NEW A \in Seq(Events), NEW B \in Seq(Events), NoDispatch(B),
         NEW s, NEW q, NEW n, Brought(A, s, q, n)
  PROVE  Brought(A \o B, s, q, n)
<1>1. ASSUME NEW i \in 1 .. Len(A \o B), IsDispatch((A \o B)[i])
      PROVE  (A \o B)[i].session = s
  BY <1>1, DispatchOfFirst DEF Brought
<1>2. \A m \in q + 1 .. n : Brings(A \o B, m)
  BY BroughtByFirst DEF Brought
<1> QED BY <1>1, <1>2 DEF Brought

LEMMA NothingMore ==
  ASSUME NEW A \in Seq(Events), NEW B \in Seq(Events), NoDispatch(A), NoDispatch(B)
  PROVE  NoDispatch(A \o B)
BY DispatchOfFirst DEF NoDispatch

(* A sequence whose end is lost. *)
LEMMA FollowsFirst ==
  ASSUME NEW A \in Seq(Events), NEW B \in Seq(Events),
         NEW s, NEW q \in Nat, NEW logs, Follows(A \o B, s, q, logs)
  PROVE  Follows(A, s, q, logs)
<1> DEFINE P == A \o B
<1>1. \A a, b \in 1 .. Len(P) : IsDispatch(P[a]) /\ IsDispatch(P[b]) =>
        P[a].session = P[b].session /\ (a < b => P[a].seq < P[b].seq)
  BY DEF Follows
<1>2. \A a \in 1 .. Len(P) : IsDispatch(P[a]) =>
        Logged(P[a], s, q, logs) /\ \A n \in q + 1 .. P[a].seq - 1 : Brings(P, n)
  BY DEF Follows
<1>3. P = A \o B
  OBVIOUS
<1> HIDE DEF P
<1>4. \A i \in 1 .. Len(A) : i \in 1 .. Len(P) /\ P[i] = A[i]
  BY <1>3, Behind
<1>5. ASSUME NEW i \in 1 .. Len(A), IsDispatch(A[i]), NEW n \in q + 1 .. A[i].seq - 1
      PROVE  Brings(A, n)
  <2>1. i \in 1 .. Len(P) /\ P[i] = A[i] /\ A[i].seq \in Nat
    BY <1>4, EventsAre
  <2>2. Brings(P, n)
    BY <1>2, <1>5, <2>1
  <2>3. PICK j \in 1 .. Len(P) : IsDispatch(P[j]) /\ P[j].seq = n
    BY <2>2 DEF Brings
  <2>4. j \in 1 .. Len(A)
    <3> SUFFICES ASSUME j \notin 1 .. Len(A) PROVE FALSE
      OBVIOUS
    <3>1. i < j
      <4>1. j - Len(A) \in 1 .. Len(B) /\ Len(A) \in Nat /\ Len(B) \in Nat
        BY <1>3, Behind
      <4> QED BY <4>1
    <3>2. P[i].seq < P[j].seq
      BY <1>1, <1>5, <2>1, <2>3, <3>1
    <3> QED BY <2>1, <2>3, <3>2
  <2>5. P[j] = A[j]
    BY <1>4, <2>4
  <2> QED BY <2>3, <2>4, <2>5 DEF Brings
<1>6. ASSUME NEW i \in 1 .. Len(A), IsDispatch(A[i])
      PROVE  Logged(A[i], s, q, logs)
  BY <1>2, <1>4, <1>6
<1>7. ASSUME NEW i \in 1 .. Len(A), NEW j \in 1 .. Len(A), IsDispatch(A[i]), IsDispatch(A[j])
      PROVE  A[i].session = A[j].session /\ (i < j => A[i].seq < A[j].seq)
  <2>1. i \in 1 .. Len(P) /\ P[i] = A[i] /\ j \in 1 .. Len(P) /\ P[j] = A[j]
    BY <1>4
  <2> QED BY <1>1, <1>7, <2>1
<1> QED BY <1>5, <1>6, <1>7 DEF Follows

LEMMA NothingFirst ==
  ASSUME NEW A \in Seq(Events), NEW B \in Seq(Events), NoDispatch(A \o B)
  PROVE  NoDispatch(A)
BY Behind DEF NoDispatch

(* The logs only grow. *)
LEMMA FollowsGrown ==
  ASSUME NEW P \in Seq(Events), NEW s, NEW q, NEW logs, LogsType(logs), NEW more, LogsType(more),
         LogsGrow(logs, more), Follows(P, s, q, logs)
  PROVE  Follows(P, s, q, more)
<1>1. ASSUME NEW i \in 1 .. Len(P), IsDispatch(P[i])
      PROVE  Logged(P[i], s, q, more)
  <2> DEFINE f == P[i]
  <2>1. Logged(f, s, q, logs)
    BY <1>1 DEF Follows
  <2> HIDE DEF f
  <2>2. /\ f.session \in 1 .. Len(logs) /\ f.seq \in 1 .. Len(logs[f.session])
        /\ f.op = logs[f.session][f.seq] /\ f.seq > q /\ s \in {0, f.session}
    BY <2>1 DEF Logged
  <2>3. /\ f.session \in 1 .. Len(more)
        /\ Len(logs[f.session]) \in Nat /\ Len(more[f.session]) \in Nat
    <3>1. f.session \in 1 .. Len(more)
      BY <2>2, LogsAre DEF LogsGrow
    <3> QED BY <2>2, <3>1, LogsAre
  <2>4. /\ Len(logs[f.session]) <= Len(more[f.session])
        /\ more[f.session][f.seq] = logs[f.session][f.seq]
    BY <2>2 DEF LogsGrow
  <2>5. f.seq \in 1 .. Len(more[f.session])
    BY <2>2, <2>3, <2>4
  <2> QED BY <2>2, <2>3, <2>4, <2>5 DEF Logged, f
<1> QED BY <1>1 DEF Follows

(* The dispatches of a log that come after n. *)
Run(B, s, n, log) ==
  /\ Len(B) = Len(log) - n
  /\ \A i \in 1 .. Len(B) : B[i] = Dispatch(log[n + i], s, n + i)

LEMMA RunBrings ==
  ASSUME NEW A \in Seq(Events), NEW B \in Seq(Events), NEW log \in Seq(Dispatches),
         NEW s, NEW q \in Nat, NEW n \in Nat, n <= Len(log), Run(B, s, n, log),
         \A m \in q + 1 .. n : Brings(A, m)
  PROVE  \A m \in q + 1 .. Len(log) : Brings(A \o B, m)
<1> SUFFICES ASSUME NEW m \in q + 1 .. Len(log) PROVE Brings(A \o B, m)
  OBVIOUS
<1>1. CASE m <= n
  <2>1. Brings(A, m)
    BY <1>1
  <2> QED BY <2>1, BroughtByFirst
<1>2. CASE m > n
  <2> DEFINE i == m - n
  <2>1. Len(log) \in Nat /\ Len(B) = Len(log) - n
    BY DEF Run
  <2>2. i \in 1 .. Len(B) /\ n + i = m /\ m \in 1 .. Len(log)
    BY <1>2, <2>1
  <2> HIDE DEF i
  <2>3. B[i] = Dispatch(log[m], s, m)
    BY <2>2 DEF Run
  <2>4. log[m] \in Dispatches
    BY <2>2, ElementOfSeq
  <2>5. IsDispatch(B[i]) /\ B[i].seq = m
    BY <2>3, <2>4 DEF IsDispatch, Dispatch
  <2>6. Len(A) + i \in 1 .. Len(A \o B) /\ (A \o B)[Len(A) + i] = B[i]
    BY <2>2, Behind
  <2> QED BY <2>5, <2>6 DEF Brings
<1> QED BY <1>1, <1>2

(* What is written next continues what is on its way. *)
LEMMA FollowsRun ==
  ASSUME NEW A \in Seq(Events), NEW B \in Seq(Events), NEW logs, LogsType(logs),
         NEW c \in 1 .. Len(logs), NEW s \in {0, c}, NEW q \in Nat, NEW n \in Nat,
         q <= n, n <= Len(logs[c]), Run(B, c, n, logs[c]),
         Follows(A, s, q, logs), Brought(A, c, q, n),
         \A i \in 1 .. Len(A) : IsDispatch(A[i]) => A[i].seq <= n
  PROVE  Follows(A \o B, s, q, logs) /\ UpToDate(A \o B, s, q, c, logs)
<1> DEFINE P == A \o B
           log == logs[c]
<1>1. log \in Seq(Dispatches) /\ Len(log) \in Nat
  BY LogsAre
<1>2. \A m \in q + 1 .. Len(log) : Brings(P, m)
  BY <1>1, RunBrings DEF Brought
<1>3. P = A \o B /\ Len(A) \in Nat /\ Len(B) \in Nat
  OBVIOUS
<1>4. ASSUME NEW i \in 1 .. Len(B)
      PROVE  /\ B[i] = Dispatch(log[n + i], c, n + i) /\ n + i \in 1 .. Len(log)
             /\ B[i].session = c /\ B[i].seq = n + i /\ B[i].op = log[n + i]
  <2>1. B[i] = Dispatch(log[n + i], c, n + i) /\ n + i \in 1 .. Len(log)
    BY <1>1, <1>3 DEF Run
  <2> QED BY <2>1 DEF Dispatch
<1> HIDE DEF P
<1>5. ASSUME NEW i \in 1 .. Len(P), IsDispatch(P[i]), i \in 1 .. Len(A)
      PROVE  P[i] = A[i] /\ Logged(P[i], s, q, logs) /\ P[i].session = c /\ P[i].seq <= n
  <2>1. P[i] = A[i]
    BY <1>3, <1>5, Behind
  <2> QED BY <1>5, <2>1 DEF Follows, Brought
<1>6. ASSUME NEW i \in 1 .. Len(P), i \notin 1 .. Len(A)
      PROVE  /\ i - Len(A) \in 1 .. Len(B) /\ P[i] = B[i - Len(A)] /\ P[i].session = c
             /\ P[i].seq = n + (i - Len(A)) /\ P[i].op = log[n + (i - Len(A))]
             /\ n + (i - Len(A)) \in 1 .. Len(log)
  <2>1. i - Len(A) \in 1 .. Len(B) /\ P[i] = B[i - Len(A)]
    BY <1>3, <1>6, Behind
  <2> QED BY <1>4, <2>1
<1>7. ASSUME NEW i \in 1 .. Len(P), IsDispatch(P[i])
      PROVE  /\ Logged(P[i], s, q, logs) /\ P[i].session = c
             /\ \A m \in q + 1 .. P[i].seq - 1 : Brings(P, m)
  <2>1. Logged(P[i], s, q, logs) /\ P[i].session = c
    <3>1. CASE i \in 1 .. Len(A)
      BY <1>5, <1>7, <3>1
    <3>2. CASE i \notin 1 .. Len(A)
      <4> DEFINE k == n + (i - Len(A))
      <4>1. P[i].session = c /\ P[i].seq = k /\ P[i].op = log[k] /\ k \in 1 .. Len(log)
            /\ i - Len(A) \in 1 .. Len(B)
        BY <1>6, <3>2
      <4>2. k > q
        BY <1>3, <4>1
      <4> HIDE DEF k
      <4> QED BY <4>1, <4>2 DEF Logged
    <3> QED BY <3>1, <3>2
  <2>2. P[i].seq \in 1 .. Len(log)
    BY <2>1 DEF Logged
  <2> QED BY <1>1, <1>2, <2>1, <2>2
<1>8. ASSUME NEW i \in 1 .. Len(P), NEW j \in 1 .. Len(P), IsDispatch(P[i]), IsDispatch(P[j]), i < j
      PROVE  P[i].seq < P[j].seq
  <2>1. CASE i \in 1 .. Len(A) /\ j \in 1 .. Len(A)
    <3>1. P[i] = A[i] /\ P[j] = A[j]
      BY <1>5, <1>8, <2>1
    <3>2. \A a, b \in 1 .. Len(A) : IsDispatch(A[a]) /\ IsDispatch(A[b]) =>
            A[a].session = A[b].session /\ (a < b => A[a].seq < A[b].seq)
      BY DEF Follows
    <3> QED BY <1>8, <2>1, <3>1, <3>2
  <2>2. CASE i \in 1 .. Len(A) /\ j \notin 1 .. Len(A)
    <3>1. P[i].seq <= n /\ P[i].seq \in Nat
      <4>1. P[i] = A[i] /\ P[i].seq <= n
        BY <1>5, <1>8, <2>2
      <4> QED BY <2>2, <4>1, EventsAre
    <3>2. P[j].seq = n + (j - Len(A)) /\ j - Len(A) \in 1 .. Len(B)
      BY <1>6, <2>2
    <3> QED BY <1>3, <3>1, <3>2
  <2>3. CASE i \notin 1 .. Len(A)
    <3>1. j \notin 1 .. Len(A)
      BY <1>3, <1>8, <2>3
    <3>2. /\ P[i].seq = n + (i - Len(A)) /\ P[j].seq = n + (j - Len(A))
          /\ i - Len(A) \in 1 .. Len(B) /\ j - Len(A) \in 1 .. Len(B)
      BY <1>6, <2>3, <3>1
    <3> QED BY <1>3, <1>8, <3>2
  <2> QED BY <2>1, <2>2, <2>3
<1>9. Follows(P, s, q, logs)
  BY <1>7, <1>8 DEF Follows
<1>10. UpToDate(P, s, q, c, logs)
  <2>1. c # 0
    OBVIOUS
  <2> QED BY <1>2, <1>7, <2>1 DEF UpToDate, Brought
<1> QED BY <1>9, <1>10 DEF P

(***************************** What the gateway knows ***************************)

Phases == {"idle", "backoff", "fatal"} \cup Live

GatewayRecord ==
  [phase : Phases, generation : Nat, session : Nat, sequence : Nat, awaitingAck : BOOLEAN,
   beating : BOOLEAN]

RemoteType ==
  /\ remote \in [current : Nat, attached : Connection \cup {0}, bound : BOOLEAN, messages : Nat,
                 logs : Seq(Seq(Dispatches))]
  /\ LogsType(remote.logs) /\ remote.current <= Len(remote.logs)

Taken == ingesting \cup ingested \cup lost

(* The log of a session is known up to q, and its messages are taken. *)
Held(s, q, logs, taken) ==
  /\ s \in 0 .. Len(logs) /\ q \in Nat /\ (s = 0 <=> q = 0)
  /\ s # 0 => /\ q <= Len(logs[s])
              /\ \A n \in 1 .. q : logs[s][n] = "MESSAGE" => <<s, n>> \in taken

(* The session of the gateway is held, and each that is, or may yet be, stored.  *)
SessionsKnown ==
  /\ gateway \in GatewayRecord /\ Held(gateway.session, gateway.sequence, remote.logs, Taken)
  /\ \A x \in {stored} \cup saving \cup desired : Held(x.session, x.sequence, remote.logs, Taken)

ComingIn(socks) == IF Generation \in Connection THEN Pipe(socks[Generation]) ELSE <<>>

(* What the gateway has still to hear on its connection. *)
Coming == ComingIn(sockets)

(* The remote end dispatches on it. *)
Served == Generation \in Connection /\ Attached(Generation) /\ remote.bound

(* The gateway has not said yet which session it wants. *)
Waiting == gateway.phase = "connecting" \/ sending # "none"

(* What is to come continues what the gateway has seen, and no dispatch is       *)
(* missing from it as long as the remote end serves the gateway.                *)
InOrder ==
  /\ Follows(Coming, gateway.session, gateway.sequence, remote.logs)
  /\ Served => UpToDate(Coming, gateway.session, gateway.sequence, remote.current, remote.logs)
  /\ Waiting => ~Served /\ NoDispatch(Coming)

(* What waits to be sent fits the phase, and a cycle belongs to a live gateway. *)
Agrees ==
  /\ sending \in {"none", "identify", "resume"}
  /\ sending = "resume" => gateway.phase = "resuming" /\ gateway.session # 0
  /\ sending = "identify" => gateway.phase = "identifying"
  /\ gateway.phase = "identifying" => gateway.session = 0
  /\ cycle # "none" => IsLive
  /\ IsLive => Generation \in Connection

(* The invariant: with DiscordInv it is inductive. *)
SkipInv == PipesHold(sockets) /\ RemoteType /\ SessionsKnown /\ InOrder /\ Agrees

LEMMA NothingOnTheWay ==
  /\ NoDispatch(<<>>)
  /\ \A s, q, logs : Follows(<<>>, s, q, logs)
<1>1. NoDispatch(<<>>)
  <2>1. Len(<<>>) = 0
    BY EmptySeq
  <2>2. 1 .. 0 = {}
    OBVIOUS
  <2> QED BY <2>1, <2>2 DEF NoDispatch
<1> QED BY <1>1, NothingComes

LEMMA NoneHeld ==
  ASSUME NEW logs, LogsType(logs), NEW taken
  PROVE  Held(0, 0, logs, taken)
<1>1. 0 \in 0 .. Len(logs)
  BY LogsAre
<1> QED BY <1>1 DEF Held

(* It stays held when the logs grow and more is taken. *)
LEMMA HeldGrows ==
  ASSUME NEW logs, LogsType(logs), NEW more, LogsType(more), LogsGrow(logs, more),
         NEW taken, NEW s, NEW q, Held(s, q, logs, taken)
  PROVE  Held(s, q, more, taken)
<1>1. s \in 0 .. Len(logs) /\ q \in Nat /\ (s = 0 <=> q = 0)
  BY DEF Held
<1>2. Len(logs) \in Nat /\ Len(more) \in Nat /\ Len(logs) <= Len(more)
  BY LogsAre DEF LogsGrow
<1>3. CASE s = 0
  BY <1>1, <1>2, <1>3 DEF Held
<1>4. CASE s # 0
  <2>1. s \in 1 .. Len(logs) /\ s \in 1 .. Len(more)
    BY <1>1, <1>2, <1>4
  <2>2. Len(logs[s]) \in Nat /\ Len(more[s]) \in Nat
    BY <2>1, LogsAre
  <2>3. /\ Len(logs[s]) <= Len(more[s])
        /\ \A n \in 1 .. Len(logs[s]) : more[s][n] = logs[s][n]
    BY <2>1 DEF LogsGrow
  <2>4. q <= Len(logs[s]) /\ \A n \in 1 .. q : logs[s][n] = "MESSAGE" => <<s, n>> \in taken
    BY <1>4 DEF Held
  <2>5. q <= Len(more[s])
    BY <1>1, <2>2, <2>3, <2>4
  <2>6. \A n \in 1 .. q : n \in 1 .. Len(logs[s])
    BY <1>1, <2>2, <2>4
  <2> QED BY <1>1, <1>2, <2>1, <2>3, <2>4, <2>5, <2>6 DEF Held
<1> QED BY <1>3, <1>4

LEMMA HeldTakes ==
  ASSUME NEW logs, NEW taken, NEW all, taken \subseteq all, NEW s, NEW q, Held(s, q, logs, taken)
  PROVE  Held(s, q, logs, all)
BY DEF Held

LEMMA SameLogs == ASSUME NEW logs, LogsType(logs) PROVE LogsGrow(logs, logs)
<1>1. ASSUME NEW s \in 1 .. Len(logs) PROVE Len(logs[s]) \in Nat
  BY LogsAre
<1>2. Len(logs) \in Nat
  BY LogsAre
<1> QED BY <1>1, <1>2 DEF LogsGrow

(* What a step that does not touch the session leaves held. *)
LEMMA SessionsStay ==
  ASSUME SkipInv, RemoteType', LogsGrow(remote.logs, remote.logs'),
         Taken \subseteq Taken', gateway' \in GatewayRecord,
         \/ gateway'.session = gateway.session /\ gateway'.sequence = gateway.sequence
         \/ gateway'.session = 0 /\ gateway'.sequence = 0,
         ({stored} \cup saving \cup desired)'
            \subseteq {stored} \cup saving \cup desired \cup {NoSession}
  PROVE  SessionsKnown'
<1>1. LogsType(remote.logs) /\ LogsType(remote.logs')
  BY DEF SkipInv, RemoteType
<1>2. ASSUME NEW s, NEW q, Held(s, q, remote.logs, Taken)
      PROVE  Held(s, q, remote.logs', Taken')
  BY <1>1, <1>2, HeldGrows, HeldTakes
<1>3. Held(0, 0, remote.logs', Taken')
  BY <1>1, NoneHeld
<1>4. Held(gateway'.session, gateway'.sequence, remote.logs', Taken')
  BY <1>2, <1>3 DEF SkipInv, SessionsKnown
<1>5. ASSUME NEW x \in ({stored} \cup saving \cup desired)'
      PROVE  Held(x.session, x.sequence, remote.logs', Taken')
  BY <1>2, <1>3, <1>5 DEF SkipInv, SessionsKnown, NoSession, Session
<1> QED BY <1>4, <1>5 DEF SessionsKnown

(* A gateway without an open connection hears nothing. *)
LEMMA NothingHeard ==
  ASSUME PipesHold(sockets)',
         (Generation \in Connection)' => (sockets[Generation].stage # "open")'
  PROVE  InOrder'
<1>1. Coming' = <<>>
  BY NothingInPipe DEF Coming, ComingIn, PipesHold
<1>2. ~Served'
  BY DEF Served, Attached
<1> QED BY <1>1, <1>2, NothingOnTheWay DEF InOrder

LEMMA TornDownPipes ==
  ASSUME NEW socks, PipesHold(socks), NEW g
  PROVE  PipesHold(TornDown(socks, g))
<1>1. PipeType(Finished)
  <2>1. Finished \in SocketRecord
    BY DEF Finished, Socket, SocketRecord
  <2>2. Len(<<>>) = 0 /\ 1 .. 0 = {}
    BY EmptySeq
  <2> QED BY <2>1, <2>2 DEF Finished, Socket, PipeType
<1> QED BY <1>1 DEF TornDown, PipesHold

LEMMA FreshPipe ==
  ASSUME NEW stage \in {"none", "opening", "finished"}
  PROVE  PipeType(Socket(stage))
<1>1. Socket(stage) \in SocketRecord
  BY DEF Socket, SocketRecord
<1>2. Len(<<>>) = 0 /\ 1 .. 0 = {}
  BY EmptySeq
<1> QED BY <1>1, <1>2 DEF Socket, PipeType

(* The frame at the pump is the first of what is to come. *)
LEMMA EmittingComing ==
  ASSUME SkipInv, NEW c \in Connection, sockets[c].decoding # NoEvent, c = Generation
  PROVE  /\ PipesHold(Emitting(c)) /\ sockets[c].decoding \in Events
         /\ sockets[c].decoding.op \in Ops
         /\ ComingIn(Emitting(c)) \in Seq(Events)
         /\ Coming = <<sockets[c].decoding>> \o ComingIn(Emitting(c))
         /\ Emitting(c)[c].stage = "open" /\ sockets[c].stage = "open"
<1> DEFINE k == sockets[c]
           new == Emitting(c)[c]
<1>1. PipeType(k) /\ DOMAIN sockets = Connection
  BY DEF SkipInv, PipesHold
<1>2. new = IF k.queue = <<>> THEN [k EXCEPT !.decoding = NoEvent]
            ELSE [k EXCEPT !.decoding = Head(k.queue), !.queue = Tail(@)]
  <2>1. CASE sockets[c].queue = <<>>
    BY <1>1, <2>1 DEF Emitting
  <2>2. CASE sockets[c].queue # <<>>
    BY <1>1, <2>2 DEF Emitting
  <2> QED BY <2>1, <2>2
<1>3. DOMAIN Emitting(c) = Connection /\ \A d \in Connection : d # c => Emitting(c)[d] = sockets[d]
  BY <1>1 DEF Emitting
<1>4. Coming = Pipe(k) /\ ComingIn(Emitting(c)) = Pipe(new)
  BY DEF Coming, ComingIn
<1>5. k.decoding # NoEvent
  OBVIOUS
<1> HIDE DEF k, new
<1>6. /\ PipeType(new) /\ Pipe(k) = <<k.decoding>> \o Pipe(new) /\ new.stage = k.stage
      /\ k.stage = "open" /\ k.decoding \in Events /\ k.decoding.op \in Ops
  BY <1>1, <1>2, <1>5, EmittedPipe
<1>7. Pipe(new) \in Seq(Events)
  BY <1>6, AtPumpType
<1>8. PipesHold(Emitting(c))
  BY <1>3, <1>6 DEF SkipInv, PipesHold, new
<1> QED BY <1>4, <1>6, <1>7, <1>8 DEF k, new

LEMMA ComingType ==
  ASSUME NEW socks, PipesHold(socks)
  PROVE  ComingIn(socks) \in Seq(Events)
BY AtPumpType, EmptySeq DEF ComingIn, PipesHold

(* What is written comes at the end. *)
LEMMA SentComing ==
  ASSUME NEW socks, PipesHold(socks), NEW frames \in Seq(Events),
         remote.attached \in Connection => socks[remote.attached].stage = "open"
  PROVE  /\ PipesHold(Sent(socks, frames))
         /\ ComingIn(Sent(socks, frames)) =
              IF remote.attached = Generation /\ Generation \in Connection
              THEN ComingIn(socks) \o frames ELSE ComingIn(socks)
         /\ \A d \in Connection : Sent(socks, frames)[d].stage = socks[d].stage
<1> DEFINE a == remote.attached
           k == socks[a]
           new == Sent(socks, frames)[a]
<1>1. DOMAIN socks = Connection /\ \A d \in Connection : PipeType(socks[d])
  BY DEF PipesHold
<1>2. /\ DOMAIN Sent(socks, frames) = Connection
      /\ \A d \in Connection : d # a => Sent(socks, frames)[d] = socks[d]
  BY <1>1 DEF Sent
<1>3. CASE a \in Connection
  <2>1. new = [k EXCEPT !.incoming = @ \o frames]
    BY <1>1, <1>3 DEF Sent
  <2>2. PipeType(k) /\ k.stage = "open"
    BY <1>1, <1>3
  <2> HIDE DEF new, k
  <2>3. PipeType(new) /\ Pipe(new) = Pipe(k) \o frames /\ new.stage = k.stage
    BY <2>1, <2>2, SentPipe
  <2>4. \A d \in Connection : d = a => Sent(socks, frames)[d] = new /\ socks[d] = k
    BY DEF new, k
  <2>5. PipesHold(Sent(socks, frames))
    BY <1>1, <1>2, <2>3, <2>4 DEF PipesHold
  <2> HIDE DEF a
  <2>6. \A d \in Connection : Sent(socks, frames)[d].stage = socks[d].stage
    BY <1>2, <2>3, <2>4
  <2>7. ASSUME a = Generation, Generation \in Connection
        PROVE  ComingIn(Sent(socks, frames)) = ComingIn(socks) \o frames
    BY <2>3, <2>4, <2>7 DEF ComingIn
  <2>8. ASSUME a # Generation \/ Generation \notin Connection
        PROVE  ComingIn(Sent(socks, frames)) = ComingIn(socks)
    BY <1>2, <2>8 DEF ComingIn
  <2> QED BY <2>5, <2>6, <2>7, <2>8 DEF a
<1>4. CASE a \notin Connection
  BY <1>1, <1>2, <1>4 DEF PipesHold, ComingIn
<1> QED BY <1>3, <1>4

(*************************** Steps that close a cycle ***************************)

(* A step after which the gateway has no connection. *)
LEMMA ShutSkip ==
  ASSUME DiscordInv', SkipInv, PipesHold(sockets)', OwnedSockets' = {},
         RemoteType', SessionsKnown', Agrees'
  PROVE  SkipInv'
<1>1. (Generation \in Connection)' => (sockets[Generation].stage # "open")'
  BY DEF OwnedSockets
<1>2. InOrder'
  BY <1>1, NothingHeard
<1> QED BY <1>2 DEF SkipInv

LEMMA StillAgrees ==
  ASSUME (cycle = "none")', (sending = "none")', gateway'.phase \notin Live
  PROVE  Agrees'
BY DEF Agrees, IsLive, Live

(* The cycle is closed: what is on its way is gone, and nothing else is known.   *)
LEMMA ClosingSkip ==
  ASSUME DiscordInv, SkipInv, NEW socks, Kept(socks), PipesHold(socks), CloseCycle(socks),
         gateway' \in GatewayRecord, gateway'.phase \notin Live, UNCHANGED <<remote, inboundVars>>,
         \/ gateway'.session = gateway.session /\ gateway'.sequence = gateway.sequence
         \/ gateway'.session = 0 /\ gateway'.sequence = 0,
         ({stored} \cup saving \cup desired)'
            \subseteq {stored} \cup saving \cup desired \cup {NoSession}
  PROVE  SkipInv'
<1>1. OwnedSockets' = {} /\ cycle' = "none" /\ sending' = "none"
  BY CloseCycleInv DEF CloseCycle
<1>2. PipesHold(sockets)'
  BY TornDownPipes DEF CloseCycle
<1>3. RemoteType' /\ LogsType(remote.logs) /\ LogsGrow(remote.logs, remote.logs')
  BY SameLogs DEF SkipInv, RemoteType
<1>4. SessionsKnown'
  BY <1>3, SessionsStay DEF Taken, inboundVars
<1>5. Agrees'
  BY <1>1, StillAgrees
<1>6. (Generation \in Connection)' => (sockets[Generation].stage # "open")'
  BY <1>1 DEF OwnedSockets
<1>7. InOrder'
  BY <1>2, <1>6, NothingHeard
<1> QED BY <1>2, <1>3, <1>4, <1>5, <1>7 DEF SkipInv

LEMMA PersistSessions ==
  ASSUME NEW x, Persist(x)
  PROVE  /\ ({stored} \cup saving \cup desired)' \subseteq {stored} \cup saving \cup desired \cup {x}
         /\ UNCHANGED inboundVars
BY DEF Persist

LEMMA AbandonedRecord ==
  ASSUME gateway \in GatewayRecord, NEW phase \in Phases
  PROVE  /\ Abandoned(phase, gateway) \in GatewayRecord
         /\ Abandoned(phase, gateway).phase = phase
         /\ Abandoned(phase, gateway).session = gateway.session
         /\ Abandoned(phase, gateway).sequence = gateway.sequence
         /\ Abandoned(phase, Forgotten) \in GatewayRecord
         /\ Abandoned(phase, Forgotten).phase = phase
         /\ Abandoned(phase, Forgotten).session = 0
         /\ Abandoned(phase, Forgotten).sequence = 0
BY DEF Abandoned, Forgotten, GatewayRecord

LEMMA BackoffSkip ==
  ASSUME DiscordInv, SkipInv, NEW socks, Kept(socks), PipesHold(socks), NEW clear,
         Backoff(socks, clear), UNCHANGED remote
  PROVE  SkipInv'
<1>1. gateway \in GatewayRecord /\ "backoff" \in Phases /\ "backoff" \notin Live
  BY DEF SkipInv, SessionsKnown, Phases, Live
<1>2. CloseCycle(socks)
  BY DEF Backoff
<1>3. gateway' = Abandoned("backoff", Forgotten) \/ gateway' = Abandoned("backoff", gateway)
  BY DEF Backoff
<1>4. /\ gateway' \in GatewayRecord /\ gateway'.phase \notin Live
      /\ \/ gateway'.session = gateway.session /\ gateway'.sequence = gateway.sequence
         \/ gateway'.session = 0 /\ gateway'.sequence = 0
  BY <1>1, <1>3, AbandonedRecord
<1>5. Persist(NoSession) \/ UNCHANGED sessionVars
  BY DEF Backoff
<1>6. /\ ({stored} \cup saving \cup desired)'
            \subseteq {stored} \cup saving \cup desired \cup {NoSession}
      /\ UNCHANGED inboundVars
  BY <1>5, PersistSessions DEF sessionVars
<1> QED BY <1>2, <1>4, <1>6, ClosingSkip

LEMMA FatalSkip ==
  ASSUME DiscordInv, SkipInv, ToFatal(sockets), UNCHANGED remote
  PROVE  SkipInv'
<1>1. gateway \in GatewayRecord /\ "fatal" \in Phases /\ "fatal" \notin Live /\ PipesHold(sockets)
  BY DEF SkipInv, SessionsKnown, Phases, Live
<1>2. CloseCycle(sockets) /\ gateway' = Abandoned("fatal", Forgotten) /\ Persist(NoSession)
  BY DEF ToFatal
<1>3. /\ gateway' \in GatewayRecord /\ gateway'.phase \notin Live
      /\ gateway'.session = 0 /\ gateway'.sequence = 0
  BY <1>1, <1>2, AbandonedRecord
<1> QED BY <1>1, <1>2, <1>3, KeptNow, PersistSessions, ClosingSkip

LEMMA FailureSkip ==
  ASSUME DiscordInv, SkipInv, NEW fatal, Failure(fatal), UNCHANGED remote
  PROVE  SkipInv'
<1>1. PipesHold(sockets)
  BY DEF SkipInv
<1>2. ToFatal(sockets) \/ Backoff(sockets, FALSE)
  BY DEF Failure
<1> QED BY <1>1, <1>2, KeptNow, BackoffSkip, FatalSkip

LEMMA InitialRecord ==
  ASSUME NEW x, x.session \in Nat, x.sequence \in Nat
  PROVE  /\ Initial(x) \in GatewayRecord /\ Initial(x).phase = "idle"
         /\ Initial(x).session = x.session /\ Initial(x).sequence = x.sequence
         /\ Initial(x).generation = 0
BY DEF Initial, GatewayRecord, Phases

LEMMA StopSkip ==
  ASSUME DiscordInv, SkipInv, Stop \/ ForgetStored \/ RegisterAgain \/ Crash \/ HeartbeatFails,
         DiscordInv'
  PROVE  SkipInv'
<1>1. gateway \in GatewayRecord /\ PipesHold(sockets) /\ Kept(sockets) /\ RemoteType
  BY KeptNow DEF SkipInv, SessionsKnown
<1>2. CASE Stop
  <2>1. Abandoned("idle", gateway) \in GatewayRecord
    BY <1>1, AbandonedRecord DEF Phases
  <2>2. /\ gateway' \in GatewayRecord /\ gateway'.phase = "idle"
        /\ gateway'.session = gateway.session /\ gateway'.sequence = gateway.sequence
    BY <1>1, <1>2, <2>1, AbandonedRecord DEF Stop, Phases, GatewayRecord
  <2>3. gateway'.phase \notin Live
    BY <2>2 DEF Live
  <2> QED BY <1>1, <1>2, <2>2, <2>3, ClosingSkip DEF Stop, sessionVars
<1>3. CASE HeartbeatFails
  <2>1. /\ gateway' \in GatewayRecord /\ gateway'.phase = "backoff"
        /\ gateway'.session = gateway.session /\ gateway'.sequence = gateway.sequence
    BY <1>1, <1>3, AbandonedRecord DEF HeartbeatFails, Phases
  <2>2. gateway'.phase \notin Live
    BY <2>1 DEF Live
  <2> QED BY <1>1, <1>3, <2>1, <2>2, ClosingSkip DEF HeartbeatFails, sessionVars, worldVars
<1>4. CASE ForgetStored
  <2>1. RemoteType' /\ LogsGrow(remote.logs, remote.logs')
    BY <1>1, <1>4, SameLogs DEF ForgetStored, worldVars, RemoteType
  <2>2. SessionsKnown'
    BY <1>1, <1>4, <2>1, SessionsStay DEF ForgetStored, inboundVars, Taken, worldVars
  <2> QED BY <1>4, <2>1, <2>2
          DEF ForgetStored, worldVars, SkipInv, PipesHold, InOrder, Coming, ComingIn, Generation,
              Served, Attached, Waiting, Agrees, IsLive
<1>5. CASE NewRuntime /\ SessionsKnown'
  <2>1. /\ sockets' = [c \in Connection |-> Socket("none")] /\ cycle' = "none" /\ sending' = "none"
        /\ gateway' = Initial(NoSession)
        /\ remote' = [remote EXCEPT !.attached = 0, !.bound = FALSE]
    BY <1>5 DEF NewRuntime
  <2>2. PipesHold(sockets)' /\ OwnedSockets' = {}
    BY <2>1, FreshPipe DEF PipesHold, OwnedSockets, Socket
  <2>3. RemoteType'
    BY <1>1, <2>1 DEF RemoteType
  <2>4. Agrees'
    BY <2>1, StillAgrees DEF Initial, Live
  <2> QED BY <1>5, <2>2, <2>3, <2>4, ShutSkip
<1>6. CASE RegisterAgain
  <2>1. NewRuntime /\ UNCHANGED sessionVars
    BY <1>6 DEF RegisterAgain
  <2>2. gateway' = Initial(NoSession) /\ remote' = [remote EXCEPT !.attached = 0, !.bound = FALSE]
    BY <2>1 DEF NewRuntime
  <2>3. gateway' \in GatewayRecord /\ gateway'.session = 0 /\ gateway'.sequence = 0
    BY <2>2, InitialRecord DEF NoSession, Session
  <2>4. RemoteType' /\ remote'.logs = remote.logs /\ LogsType(remote.logs)
    BY <1>1, <2>2 DEF RemoteType
  <2>5. SessionsKnown'
    BY <1>1, <2>1, <2>3, <2>4, SameLogs, SessionsStay DEF sessionVars, inboundVars, Taken
  <2> QED BY <1>5, <2>1, <2>5
<1>7. CASE Crash
  <2>1. /\ NewRuntime /\ stored' \in {stored} \cup saving /\ saving' = {} /\ desired' = {}
        /\ ingesting' = {} /\ ingested' = ingested
        /\ lost' = lost \cup {m \in ingesting : m[1] = stored'.session /\ m[2] <= stored'.sequence}
    BY <1>7 DEF Crash
  <2>2. gateway' = Initial(NoSession) /\ remote' = [remote EXCEPT !.attached = 0, !.bound = FALSE]
    BY <2>1 DEF NewRuntime
  <2>3. gateway' \in GatewayRecord /\ gateway'.session = 0 /\ gateway'.sequence = 0
    BY <2>2, InitialRecord DEF NoSession, Session
  <2>4. RemoteType' /\ remote'.logs = remote.logs /\ LogsType(remote.logs)
    BY <1>1, <2>2 DEF RemoteType
  <2>5. Held(0, 0, remote'.logs, Taken')
    BY <2>4, NoneHeld
  <2>6. Held(stored'.session, stored'.sequence, remote'.logs, Taken')
    <3> DEFINE s == stored'.session
               q == stored'.sequence
    <3>1. Held(s, q, remote.logs, Taken)
      BY <2>1 DEF SkipInv, SessionsKnown
    <3>2. ASSUME s # 0, NEW n \in 1 .. q, remote.logs[s][n] = "MESSAGE" PROVE <<s, n>> \in Taken'
      <4>1. <<s, n>> \in Taken
        BY <3>1, <3>2 DEF Held
      <4>2. n <= q
        OBVIOUS
      <4>3. <<s, n>>[1] = s /\ <<s, n>>[2] = n
        OBVIOUS
      <4> QED BY <2>1, <4>1, <4>2, <4>3 DEF Taken
    <3> HIDE DEF s, q
    <3>3. Held(s, q, remote.logs, Taken')
      BY <3>1, <3>2 DEF Held
    <3> QED BY <2>4, <3>3 DEF s, q
  <2>7. SessionsKnown'
    BY <2>1, <2>3, <2>5, <2>6 DEF SessionsKnown
  <2> QED BY <1>5, <2>1, <2>7
<1> QED BY <1>2, <1>3, <1>4, <1>6, <1>7

(************************* Steps of opening a connection ************************)

(* Nothing the gateway hears has changed. *)
LEMMA StillInOrder ==
  ASSUME SkipInv, gateway'.session = gateway.session, gateway'.sequence = gateway.sequence,
         Coming' = Coming, Served' => Served, remote'.logs = remote.logs,
         Served => remote'.current = remote.current,
         Waiting' => Waiting
  PROVE  InOrder'
BY DEF SkipInv, InOrder

LEMMA SameRemote ==
  ASSUME SkipInv, UNCHANGED remote
  PROVE  RemoteType' /\ LogsGrow(remote.logs, remote.logs')
<1>1. RemoteType' /\ LogsType(remote.logs)
  BY DEF SkipInv, RemoteType
<1> QED BY <1>1, SameLogs

(* A connection that has just been opened. *)
LEMMA Greeted ==
  /\ PipeType([Socket("opening") EXCEPT !.stage = "open", !.incoming = <<Frame("hello")>>])
  /\ Pipe([Socket("opening") EXCEPT !.stage = "open", !.incoming = <<Frame("hello")>>])
       = <<Frame("hello")>>
<1> DEFINE k == [Socket("opening") EXCEPT !.stage = "open", !.incoming = <<Frame("hello")>>]
<1>1. Frame("hello") \in Events
  BY DEF Frame, Dispatch, Events, Ops
<1>2. <<Frame("hello")>> \in Seq(Events)
  BY <1>1
<1>3. /\ k.stage = "open" /\ k.incoming = <<Frame("hello")>> /\ k.queue = <<>> /\ k.decoding = NoEvent
      /\ k \in SocketRecord
  <2>1. Socket("opening") \in SocketRecord
    BY FreshPipe DEF PipeType
  <2>2. Socket("opening").queue = <<>> /\ Socket("opening").decoding = NoEvent
    BY DEF Socket
  <2> DEFINE h == <<Frame("hello")>>
  <2>3. h \in Seq(Events)
    BY <1>2
  <2> HIDE DEF h
  <2>4. ASSUME NEW o \in SocketRecord
        PROVE  LET new == [o EXCEPT !.stage = "open", !.incoming = h]
               IN  /\ new \in SocketRecord /\ new.stage = "open" /\ new.incoming = h
                   /\ new.queue = o.queue /\ new.decoding = o.decoding
    BY <2>3 DEF SocketRecord
  <2> QED BY <2>1, <2>2, <2>4 DEF h
<1> HIDE DEF k
<1>4. Len(<<>>) = 0 /\ 1 .. 0 = {}
  BY EmptySeq
<1>5. PipeType(k)
  BY <1>3, <1>4 DEF PipeType
<1>6. <<>> \o <<>> = <<>> /\ <<>> \o <<Frame("hello")>> = <<Frame("hello")>>
  BY <1>2, EmptySeq, ConcatEmptySeq
<1>7. Pipe(k) = (<<>> \o <<>>) \o <<Frame("hello")>>
  BY <1>3 DEF Pipe, AtPump
<1> QED BY <1>5, <1>6, <1>7 DEF k

LEMMA NoDispatchOne ==
  ASSUME NEW f \in Events, ~IsDispatch(f)
  PROVE  <<f>> \in Seq(Events) /\ NoDispatch(<<f>>)
BY DEF NoDispatch

LEMMA Frames ==
  ASSUME NEW op \in (Ops \ Dispatches) \cup Closing
  PROVE  /\ Frame(op) \in Events /\ Frame(op).op = op /\ ~IsDispatch(Frame(op))
         /\ <<Frame(op)>> \in Seq(Events) /\ NoDispatch(<<Frame(op)>>)
<1>1. Frame(op) \in Events /\ Frame(op).op = op
  BY DEF Frame, Dispatch, Events
<1>2. op \notin Dispatches
  BY DiscordAssumption DEF Dispatches
<1> QED BY <1>1, <1>2, NoDispatchOne DEF IsDispatch

LEMMA ConnectingSkip ==
  ASSUME DiscordInv, SkipInv, NEW state \in GatewayRecord, Connecting(state),
         state.generation + 1 \in Connection, OwnedSockets = {}, sending = "none",
         \/ state.session = gateway.session /\ state.sequence = gateway.sequence
         \/ state.session = stored.session /\ state.sequence = stored.sequence,
         UNCHANGED <<sending, sockets, sessionVars, remote>>
  PROVE  SkipInv'
<1>1. PipesHold(sockets)' /\ (Generation \in Connection)' => (sockets[Generation].stage # "open")'
  <2>1. sockets'[gateway'.generation] = sockets[gateway'.generation]
    OBVIOUS
  <2> QED BY <2>1 DEF OwnedSockets, Generation
<1>2. InOrder'
  <2>1. PipesHold(sockets)'
    BY DEF SkipInv, PipesHold
  <2> QED BY <1>1, <2>1, NothingHeard
<1>3. RemoteType' /\ LogsType(remote.logs)
  BY DEF SkipInv, RemoteType
<1>4. gateway' = [state EXCEPT !.phase = "connecting", !.generation = @ + 1,
                               !.awaitingAck = FALSE, !.beating = FALSE]
  BY DEF Connecting
<1>5. /\ gateway' \in GatewayRecord /\ gateway'.phase = "connecting"
      /\ gateway'.generation = state.generation + 1
      /\ gateway'.session = state.session /\ gateway'.sequence = state.sequence
  <2>1. "connecting" \in Phases /\ state.generation \in Nat /\ state.generation + 1 \in Nat
    BY DEF GatewayRecord, Phases, Live
  <2> QED BY <1>4, <2>1 DEF GatewayRecord
<1>6. SessionsKnown'
  <2>1. Held(gateway'.session, gateway'.sequence, remote.logs, Taken)
    BY <1>5 DEF SkipInv, SessionsKnown
  <2>2. /\ Taken' = Taken /\ remote' = remote
        /\ ({stored} \cup saving \cup desired)' = {stored} \cup saving \cup desired
    BY DEF Taken, sessionVars, inboundVars
  <2> QED BY <1>5, <2>1, <2>2 DEF SkipInv, SessionsKnown
<1>7. Agrees'
  BY <1>5 DEF Agrees, IsLive, Live, Generation
<1> QED BY <1>2, <1>3, <1>6, <1>7 DEF SkipInv, PipesHold

LEMMA OpeningSkip ==
  ASSUME DiscordInv, SkipInv, DiscordInv', Opening \/ Reconnect \/ ResolveFails \/ OpenFails
  PROVE  SkipInv'
<1>1. gateway \in GatewayRecord /\ PipesHold(sockets) /\ RemoteType
  BY DEF SkipInv, SessionsKnown
<1>2. CASE Load
  <2>1. Held(stored.session, stored.sequence, remote.logs, Taken) /\ LogsType(remote.logs)
    BY DEF SkipInv, SessionsKnown, RemoteType
  <2>2. stored.session \in Nat /\ stored.sequence \in Nat
    BY <2>1, LogsAre DEF Held
  <2>3. /\ Initial(stored) \in GatewayRecord /\ Initial(stored).generation = 0
        /\ Initial(stored).session = stored.session /\ Initial(stored).sequence = stored.sequence
    BY <2>2, InitialRecord
  <2>4. OwnedSockets = {} /\ sending = "none"
    BY <1>2 DEF Load, DiscordInv
  <2>5. 0 + 1 \in Connection
    BY DiscordAssumption
  <2> QED BY <1>2, <2>3, <2>4, <2>5, ConnectingSkip DEF Load
<1>3. CASE Reconnect
  <2>1. OwnedSockets = {} /\ sending = "none"
    BY <1>3 DEF Reconnect, DiscordInv, SkipInv, Agrees, IsLive, Live
  <2>2. gateway.generation + 1 \in Connection
    BY <1>3 DEF Reconnect, Generation
  <2> QED BY <1>1, <1>3, <2>1, <2>2, ConnectingSkip DEF Reconnect, worldVars
<1>4. CASE Resolve
  <2>1. CASE Failure(FALSE)
    BY <1>4, <2>1, FailureSkip DEF Resolve, worldVars
  <2>2. CASE /\ sockets' = Connected(Generation) /\ cycle' = "created"
             /\ UNCHANGED <<gateway, sending, timers, sessionVars>>
    <3>1. PipesHold(sockets)'
      BY <1>1, <2>2, FreshPipe DEF PipesHold, Connected
    <3>2. (Generation \in Connection)' => (sockets[Generation].stage # "open")'
      BY <1>1, <2>2 DEF PipesHold, Connected, Generation, Socket
    <3>3. InOrder'
      BY <3>1, <3>2, NothingHeard
    <3>4. RemoteType' /\ LogsGrow(remote.logs, remote.logs')
      BY <1>4, SameRemote DEF Resolve, worldVars
    <3>5. SessionsKnown'
      BY <1>1, <2>2, <3>4, SessionsStay DEF sessionVars, inboundVars, Taken
    <3>6. IsLive
      BY <1>4 DEF Resolve, DiscordInv
    <3>7. Agrees'
      BY <2>2, <3>6 DEF SkipInv, Agrees, IsLive, Generation
    <3> QED BY <3>1, <3>3, <3>4, <3>5, <3>7 DEF SkipInv
  <2> QED BY <1>4, <2>1, <2>2 DEF Resolve
<1>5. CASE Listen
  <2>1. UNCHANGED <<gateway, sending, sockets, sessionVars, remote>> /\ cycle # "none"
    BY <1>5 DEF Listen, worldVars
  <2> QED BY <2>1
          DEF SkipInv, RemoteType, PipesHold, SessionsKnown, Taken, sessionVars, inboundVars, InOrder,
              Coming, ComingIn, Generation, Served, Attached, Waiting, Agrees, IsLive
<1>6. CASE Open
  <2> DEFINE g == gateway.generation
             new == [sockets[g] EXCEPT !.stage = "open", !.incoming = <<Frame("hello")>>]
  <2>1. /\ cycle = "opening" /\ sockets[g].stage = "opening"
        /\ sockets' = [sockets EXCEPT ![g] = new] /\ cycle' = "open"
        /\ remote' = [remote EXCEPT !.attached = g, !.bound = FALSE]
        /\ UNCHANGED <<gateway, sending, sessionVars>>
    BY <1>6 DEF Open, Generation
  <2>2. IsLive /\ g \in Connection
    BY <2>1 DEF SkipInv, Agrees, Generation
  <2>3. sockets[g] = Socket("opening")
    <3>1. PipeType(sockets[g])
      BY <1>1, <2>2 DEF PipesHold
    <3>2. /\ sockets[g] \in SocketRecord /\ sockets[g].decoding = NoEvent
          /\ sockets[g].incoming = <<>> /\ sockets[g].queue = <<>>
      BY <2>1, <3>1 DEF PipeType
    <3> QED BY <2>1, <3>2 DEF SocketRecord, Socket
  <2>4. PipeType(new) /\ Pipe(new) = <<Frame("hello")>>
    BY <2>3, Greeted
  <2> HIDE DEF new, g
  <2>5. PipesHold(sockets)'
    BY <1>1, <2>1, <2>4 DEF PipesHold
  <2>6. RemoteType' /\ remote'.logs = remote.logs /\ LogsType(remote.logs) /\ remote'.bound = FALSE
    BY <1>1, <2>1, <2>2 DEF RemoteType
  <2>7. SessionsKnown'
    BY <1>1, <2>1, <2>6, SameLogs, SessionsStay DEF sessionVars, inboundVars, Taken
  <2>8. InOrder'
    <3>1. Coming' = <<Frame("hello")>>
      BY <1>1, <2>1, <2>2, <2>4 DEF Coming, ComingIn, Generation, PipesHold, g
    <3>2. NoDispatch(Coming')
      BY <3>1, Frames DEF Ops, Dispatches
    <3>3. ~Served'
      BY <2>6 DEF Served
    <3> QED BY <3>2, <3>3, NothingComes DEF InOrder
  <2>9. Agrees'
    BY <2>1, <2>2 DEF SkipInv, Agrees, IsLive, Generation
  <2> QED BY <2>5, <2>6, <2>7, <2>8, <2>9 DEF SkipInv
<1>7. CASE ReadyRejects \/ OpenFails \/ ResolveFails
  <2>1. UNCHANGED remote /\ \E fatal \in BOOLEAN : Failure(fatal)
    BY <1>7 DEF ReadyRejects, OpenFails, ResolveFails, worldVars
  <2> QED BY <2>1, FailureSkip
<1> QED BY <1>2, <1>3, <1>4, <1>5, <1>6, <1>7 DEF Opening

(* A connection that the service gives up: it is gone, or nothing has happened  *)
(* to the gateway's.                                                            *)
LEMMA LostSkip ==
  ASSUME DiscordInv, SkipInv, (\E c \in Connection : FrameRejected(c)) \/ SocketsAborted
  PROVE  SkipInv'
<1>1. PipesHold(sockets)
  BY DEF SkipInv
<1>2. UNCHANGED <<gateway, cycle, sending, sessionVars, remote>>
  BY DEF FrameRejected, SocketsAborted
<1>3. /\ DOMAIN sockets' = Connection
      /\ \A c \in Connection : sockets'[c] = sockets[c] \/ sockets'[c] = Finished
  BY <1>1 DEF FrameRejected, RejectFrame, TornDown, SocketsAborted, AbortSockets
<1>4. PipesHold(sockets)'
  BY <1>1, <1>3, FreshPipe DEF PipesHold, Finished
<1>5. RemoteType' /\ LogsGrow(remote.logs, remote.logs')
  BY <1>2, SameRemote
<1>6. SessionsKnown' /\ Agrees'
  <2>1. SessionsKnown'
    BY <1>2, <1>5, SessionsStay DEF SkipInv, SessionsKnown, sessionVars, inboundVars, Taken
  <2>2. Agrees'
    BY <1>2 DEF SkipInv, Agrees, IsLive, Generation
  <2> QED BY <2>1, <2>2
<1>7. InOrder'
  <2>1. CASE Generation \in Connection => sockets'[Generation].stage # "open"
    <3>1. (Generation \in Connection)' => (sockets[Generation].stage # "open")'
      BY <1>2, <2>1 DEF Generation
    <3> QED BY <1>4, <3>1, NothingHeard
  <2>2. CASE Generation \in Connection /\ sockets'[Generation] = sockets[Generation]
    <3>1. Coming' = Coming /\ Served' = Served /\ Waiting' = Waiting
      BY <1>2, <2>2 DEF Coming, ComingIn, Served, Attached, Waiting, Generation
    <3> QED BY <1>2, <3>1, StillInOrder
  <2> QED BY <1>3, <2>1, <2>2 DEF Finished, Socket
<1> QED BY <1>4, <1>5, <1>6, <1>7 DEF SkipInv

(***************************** Frames that arrive *******************************)

LEMMA UpToDateMore ==
  ASSUME NEW A \in Seq(Events), NEW B \in Seq(Events), NoDispatch(B),
         NEW s, NEW q, NEW current, NEW logs, UpToDate(A, s, q, current, logs)
  PROVE  UpToDate(A \o B, s, q, current, logs)
BY BroughtMore DEF UpToDate

LEMMA UpToDateLater ==
  ASSUME NEW f \in Events, NEW R \in Seq(Events), NEW P, P = <<f>> \o R, ~IsDispatch(f),
         NEW s, NEW q \in Nat, NEW current, NEW logs, LogsType(logs), current \in 0 .. Len(logs),
         UpToDate(P, s, q, current, logs)
  PROVE  UpToDate(R, s, q, current, logs)
<1>1. current # 0 /\ s \in {0, current} /\ Brought(P, current, q, Len(logs[current]))
  BY DEF UpToDate
<1>2. Len(logs[current]) \in Nat
  BY <1>1, LogsAre
<1>3. Brought(R, current, q, Len(logs[current]))
  BY <1>1, <1>2, BroughtByRest
<1> QED BY <1>1, <1>3 DEF UpToDate

(* What is still to come when a frame that dispatches nothing has been taken.   *)
LEMMA Passed ==
  ASSUME SkipInv, NEW f \in Events, NEW R \in Seq(Events), Coming = <<f>> \o R, ~IsDispatch(f)
  PROVE  /\ Follows(R, gateway.session, gateway.sequence, remote.logs)
         /\ Served => UpToDate(R, gateway.session, gateway.sequence, remote.current, remote.logs)
         /\ Waiting => ~Served /\ NoDispatch(R)
<1>1. gateway.sequence \in Nat /\ LogsType(remote.logs) /\ remote.current \in 0 .. Len(remote.logs)
  <2>1. gateway.sequence \in Nat /\ LogsType(remote.logs) /\ remote.current \in Nat
        /\ remote.current <= Len(remote.logs)
    BY DEF SkipInv, SessionsKnown, GatewayRecord, RemoteType
  <2>2. Len(remote.logs) \in Nat
    BY <2>1, LogsAre
  <2> QED BY <2>1, <2>2
<1>2. Follows(R, gateway.session, gateway.sequence, remote.logs)
  BY <1>1, FollowsLater DEF SkipInv, InOrder
<1>3. Served => UpToDate(R, gateway.session, gateway.sequence, remote.current, remote.logs)
  BY <1>1, UpToDateLater DEF SkipInv, InOrder
<1>4. Waiting => ~Served /\ NoDispatch(R)
  <2> SUFFICES ASSUME Waiting PROVE ~Served /\ NoDispatch(R)
    OBVIOUS
  <2>1. ~Served /\ NoDispatch(Coming)
    BY DEF SkipInv, InOrder
  <2>2. ASSUME NEW i \in 1 .. Len(R) PROVE ~IsDispatch(R[i])
    <3>1. i + 1 \in 1 .. Len(Coming) /\ Coming[i + 1] = R[i]
      BY InFront
    <3> QED BY <2>1, <3>1 DEF NoDispatch
  <2> QED BY <2>1, <2>2 DEF NoDispatch
<1> QED BY <1>2, <1>3, <1>4

(* The connections after a frame has been handed over. *)
LEMMA HandedOver ==
  ASSUME SkipInv, NEW c \in Connection, c = Generation, sockets[c].decoding # NoEvent
  PROVE  /\ PipesHold(Emitting(c)) /\ ComingIn(Emitting(c)) \in Seq(Events)
         /\ sockets[c].decoding \in Events /\ sockets[c].decoding.op \in Ops
         /\ Coming = <<sockets[c].decoding>> \o ComingIn(Emitting(c))
         /\ \A d \in Connection : Emitting(c)[d].stage = sockets[d].stage
<1>1. \A d \in Connection : d # c => Emitting(c)[d] = sockets[d]
  BY DEF SkipInv, PipesHold, Emitting
<1> QED BY <1>1, EmittingComing

LEMMA ServedStill ==
  ASSUME \A d \in Connection : sockets'[d].stage = sockets[d].stage,
         gateway'.generation = gateway.generation, UNCHANGED remote
  PROVE  Served' = Served
BY DEF Served, Attached, Generation

(* A frame that dispatches nothing and closes nothing.                          *)
LEMMA PassOverSkip ==
  ASSUME SkipInv, NEW c \in Connection, c = Generation, sockets[c].decoding # NoEvent,
         ~IsDispatch(sockets[c].decoding),
         \/ sockets' = Emitting(c)
         \/ Attached(Generation) /\ sockets' = Sent(Emitting(c), <<Frame("ack")>>),
         gateway' \in GatewayRecord, gateway'.generation = gateway.generation,
         gateway'.session = gateway.session, gateway'.sequence = gateway.sequence,
         UNCHANGED <<remote, sessionVars>>, Waiting' => Waiting, Agrees'
  PROVE  SkipInv'
<1> DEFINE f == sockets[c].decoding
           R == ComingIn(Emitting(c))
<1>1. /\ PipesHold(Emitting(c)) /\ R \in Seq(Events) /\ f \in Events /\ Coming = <<f>> \o R
      /\ \A d \in Connection : Emitting(c)[d].stage = sockets[d].stage
  BY HandedOver
<1>2. /\ Follows(R, gateway.session, gateway.sequence, remote.logs)
      /\ Served => UpToDate(R, gateway.session, gateway.sequence, remote.current, remote.logs)
      /\ Waiting => ~Served /\ NoDispatch(R)
  <2>1. ~IsDispatch(f)
    OBVIOUS
  <2> HIDE DEF f, R
  <2> QED BY <1>1, <2>1, Passed
<1> HIDE DEF f, R
<1>3. <<Frame("ack")>> \in Seq(Events) /\ NoDispatch(<<Frame("ack")>>)
  BY Frames DEF Ops, Dispatches
<1>4. /\ PipesHold(sockets') /\ \A d \in Connection : sockets'[d].stage = sockets[d].stage
      /\ Coming' = R \/ Coming' = R \o <<Frame("ack")>>
  <2>1. CASE sockets' = Emitting(c)
    BY <1>1, <2>1 DEF Coming, ComingIn, Generation, R
  <2>2. CASE Attached(Generation) /\ sockets' = Sent(Emitting(c), <<Frame("ack")>>)
    <3>1. remote.attached \in Connection => Emitting(c)[remote.attached].stage = "open"
      BY <1>1, <2>2 DEF Attached
    <3>2. /\ PipesHold(sockets') /\ \A d \in Connection : sockets'[d].stage = sockets[d].stage
          /\ ComingIn(sockets') = R \/ ComingIn(sockets') = R \o <<Frame("ack")>>
      <4> DEFINE socks == Emitting(c)
                 frames == <<Frame("ack")>>
      <4>1. /\ PipesHold(socks) /\ frames \in Seq(Events) /\ sockets' = Sent(socks, frames)
            /\ R = ComingIn(socks) /\ \A d \in Connection : socks[d].stage = sockets[d].stage
            /\ remote.attached \in Connection => socks[remote.attached].stage = "open"
        BY <1>1, <1>3, <2>2, <3>1 DEF R
      <4> HIDE DEF socks, frames
      <4>2. /\ PipesHold(Sent(socks, frames))
            /\ \/ ComingIn(Sent(socks, frames)) = ComingIn(socks)
               \/ ComingIn(Sent(socks, frames)) = ComingIn(socks) \o frames
            /\ \A d \in Connection : Sent(socks, frames)[d].stage = socks[d].stage
        BY <4>1, SentComing
      <4>3. PipesHold(sockets') /\ \A d \in Connection : sockets'[d].stage = sockets[d].stage
        BY <4>1, <4>2
      <4>4. ComingIn(sockets') = R \/ ComingIn(sockets') = R \o frames
        BY <4>1, <4>2
      <4> QED BY <4>3, <4>4 DEF frames
    <3>3. Coming' = ComingIn(sockets')
      BY DEF Coming, ComingIn, Generation
    <3> QED BY <3>2, <3>3
  <2> QED BY <2>1, <2>2
<1>5. Served' = Served
  BY <1>4, ServedStill
<1>6. InOrder'
  <2>1. /\ Follows(Coming', gateway.session, gateway.sequence, remote.logs)
        /\ Served => UpToDate(Coming', gateway.session, gateway.sequence, remote.current, remote.logs)
        /\ Waiting => ~Served /\ NoDispatch(Coming')
    BY <1>1, <1>2, <1>3, <1>4, FollowsMore, UpToDateMore, NothingMore
  <2> QED BY <1>5, <2>1 DEF InOrder
<1>7. RemoteType' /\ LogsGrow(remote.logs, remote.logs')
  BY SameRemote
<1>8. SessionsKnown'
  BY <1>7, SessionsStay DEF sessionVars, inboundVars, Taken
<1>9. PipesHold(sockets)'
  BY <1>4 DEF PipesHold
<1> QED BY <1>6, <1>7, <1>8, <1>9 DEF SkipInv

(* What the next dispatch says, and what is still to come after it. *)
LEMMA NextDispatch ==
  ASSUME SkipInv, IsLive, NEW f \in Events, NEW R \in Seq(Events), Coming = <<f>> \o R, IsDispatch(f)
  PROVE  /\ f.seq = gateway.sequence + 1 /\ f.session \in Nat \ {0}
         /\ f.op # "READY" => gateway.session = f.session /\ gateway.phase \in {"ready", "resuming"}
         /\ ~Waiting /\ sending = "none"
         /\ Follows(R, f.session, f.seq, remote.logs)
         /\ Served => UpToDate(R, f.session, f.seq, remote.current, remote.logs)
         /\ \A all : Taken \subseteq all /\ (f.op = "MESSAGE" => <<f.session, f.seq>> \in all) =>
              Held(f.session, f.seq, remote.logs, all)
<1> DEFINE s == gateway.session
           q == gateway.sequence
           logs == remote.logs
<1>1. /\ q \in Nat /\ LogsType(logs) /\ remote.current \in Nat /\ remote.current <= Len(logs)
      /\ Held(s, q, logs, Taken) /\ Follows(Coming, s, q, logs) /\ gateway \in GatewayRecord
  BY DEF SkipInv, SessionsKnown, GatewayRecord, RemoteType, InOrder
<1>2. 1 \in 1 .. Len(Coming) /\ Coming[1] = f
  BY InFront
<1>3. ~Waiting /\ sending = "none" /\ gateway.phase # "connecting"
  BY <1>2 DEF SkipInv, InOrder, NoDispatch, Waiting
<1>4. /\ f.seq = q + 1 /\ Logged(f, s, q, logs)
      /\ Follows(R, f.session, q + 1, logs)
  <2> HIDE DEF s, q, logs
  <2> QED BY <1>1, FollowsNext
<1>5. /\ f.session \in 1 .. Len(logs) /\ f.seq \in 1 .. Len(logs[f.session])
      /\ f.op = logs[f.session][f.seq] /\ s \in {0, f.session}
  BY <1>4 DEF Logged
<1>6. /\ Len(logs) \in Nat /\ Len(logs[f.session]) \in Nat /\ logs[f.session][1] = "READY"
  BY <1>1, <1>5, LogsAre DEF LogsType
<1>7. s = 0 <=> q = 0
  BY <1>1 DEF Held
<1>8. f.op # "READY" => s = f.session /\ s # 0
  <2> SUFFICES ASSUME s = 0 PROVE f.op = "READY"
    BY <1>5, <1>6
  <2>1. f.seq = 1
    BY <1>4, <1>7
  <2> QED BY <1>5, <1>6, <2>1
<1>9. f.op # "READY" => gateway.phase \in {"ready", "resuming"}
  BY <1>3, <1>8 DEF SkipInv, Agrees, IsLive, Live
<1>10. ASSUME NEW all, Taken \subseteq all, f.op = "MESSAGE" => <<f.session, f.seq>> \in all
       PROVE  Held(f.session, f.seq, logs, all)
  <2>1. ASSUME NEW n \in 1 .. f.seq, logs[f.session][n] = "MESSAGE"
        PROVE  <<f.session, n>> \in all
    <3>1. CASE n = f.seq
      BY <1>5, <1>10, <2>1, <3>1
    <3>2. CASE n # f.seq
      <4>1. n \in 1 .. q
        BY <1>1, <1>4, <3>2
      <4>2. s # 0 /\ s = f.session
        BY <1>1, <1>5, <1>7, <4>1
      <4>3. <<s, n>> \in Taken
        BY <1>1, <2>1, <4>1, <4>2 DEF Held
      <4> QED BY <1>10, <4>2, <4>3
    <3> QED BY <3>1, <3>2
  <2>2. f.session \in 0 .. Len(logs) /\ f.seq \in Nat /\ f.seq # 0 /\ f.session # 0
        /\ f.seq <= Len(logs[f.session])
    BY <1>5, <1>6
  <2> HIDE DEF s, q, logs
  <2> QED BY <2>1, <2>2 DEF Held
<1>11. ASSUME Served PROVE UpToDate(R, f.session, q + 1, remote.current, logs)
  <2>1. UpToDate(Coming, s, q, remote.current, logs)
    BY <1>11 DEF SkipInv, InOrder
  <2>2. /\ remote.current # 0 /\ Brought(Coming, remote.current, q, Len(logs[remote.current]))
    BY <2>1 DEF UpToDate
  <2>3. f.session = remote.current
    BY <1>2, <2>2 DEF Brought
  <2>4. Brought(R, remote.current, q + 1, Len(logs[remote.current]))
    <3> HIDE DEF s, q, logs
    <3> QED BY <1>1, <1>4, <1>6, <2>2, <2>3, BroughtNext
  <2> QED BY <2>2, <2>3, <2>4 DEF UpToDate
<1>12. f.session \in Nat \ {0}
  BY <1>5, <1>6
<1> QED BY <1>3, <1>4, <1>8, <1>9, <1>10, <1>11, <1>12

(* The next dispatch is taken, and with it the sequence number. *)
LEMMA AdvanceSkip ==
  ASSUME SkipInv, IsLive, NEW c \in Connection, c = Generation, sockets[c].decoding # NoEvent,
         NEW f, f = sockets[c].decoding, IsDispatch(f), sockets' = Emitting(c),
         gateway' \in GatewayRecord, gateway'.generation = gateway.generation,
         gateway'.session = f.session, gateway'.sequence = f.seq,
         gateway'.phase \in {"ready", "resuming"},
         UNCHANGED <<remote, sending, cycle>>, Taken \subseteq Taken',
         f.op = "MESSAGE" => <<f.session, f.seq>> \in Taken',
         ({stored} \cup saving \cup desired)'
            \subseteq {stored} \cup saving \cup desired \cup {Session(f.session, f.seq)}
  PROVE  SkipInv'
<1> DEFINE R == ComingIn(Emitting(c))
<1>1. /\ PipesHold(Emitting(c)) /\ R \in Seq(Events) /\ f \in Events /\ Coming = <<f>> \o R
      /\ \A d \in Connection : Emitting(c)[d].stage = sockets[d].stage
  BY HandedOver
<1>2. Coming' = R /\ PipesHold(sockets)'
  BY <1>1 DEF Coming, ComingIn, Generation, PipesHold
<1> HIDE DEF R
<1>3. /\ ~Waiting /\ sending = "none" /\ f.session # 0
      /\ Follows(R, f.session, f.seq, remote.logs)
      /\ Served => UpToDate(R, f.session, f.seq, remote.current, remote.logs)
      /\ Held(f.session, f.seq, remote.logs, Taken')
  BY <1>1, NextDispatch
<1>4. Served' = Served
  BY <1>1, ServedStill
<1>5. ~Waiting'
  BY <1>3 DEF Waiting
<1>6. InOrder'
  BY <1>2, <1>3, <1>4, <1>5 DEF InOrder
<1>7. RemoteType'
  BY DEF SkipInv, RemoteType
<1>8. SessionsKnown'
  <2>1. ASSUME NEW x \in {stored} \cup saving \cup desired
        PROVE  Held(x.session, x.sequence, remote.logs, Taken')
    BY HeldTakes DEF SkipInv, SessionsKnown
  <2>2. Session(f.session, f.seq).session = f.session /\ Session(f.session, f.seq).sequence = f.seq
    BY DEF Session
  <2>3. ASSUME NEW x \in ({stored} \cup saving \cup desired)'
        PROVE  Held(x.session, x.sequence, remote.logs', Taken')
    BY <1>3, <2>1, <2>2, <2>3
  <2> QED BY <1>3, <2>3 DEF SessionsKnown
<1>9. Agrees'
  BY <1>3 DEF SkipInv, Agrees, IsLive, Live, Generation
<1> QED BY <1>2, <1>6, <1>7, <1>8, <1>9 DEF SkipInv

LEMMA HandleSkip ==
  ASSUME DiscordInv, SkipInv, NEW c \in Connection, Handle(c)
  PROVE  SkipInv'
<1> DEFINE f == sockets[c].decoding
           socks == Emitting(c)
<1>1. /\ c = Generation /\ IsLive /\ f # NoEvent /\ HandleFrame(socks, f) /\ gateway \in GatewayRecord
  BY DEF Handle, SkipInv, SessionsKnown
<1>2. /\ PipesHold(socks) /\ ComingIn(socks) \in Seq(Events) /\ f \in Events /\ f.op \in Ops
      /\ Coming = <<f>> \o ComingIn(socks) /\ Kept(socks)
  BY <1>1, HandedOver, EmittingKept
<1>3. ASSUME ~IsDispatch(f),
             sockets' = socks \/ (Attached(Generation) /\ sockets' = Sent(socks, <<Frame("ack")>>)),
             gateway' \in GatewayRecord, gateway'.generation = gateway.generation,
             gateway'.session = gateway.session, gateway'.sequence = gateway.sequence,
             UNCHANGED <<remote, sessionVars>>, Waiting' => Waiting, Agrees'
      PROVE  SkipInv'
  BY <1>1, <1>3, PassOverSkip
<1>4. ASSUME gateway' \in GatewayRecord, gateway'.phase = gateway.phase,
             gateway'.session = gateway.session, UNCHANGED <<cycle, sending>>,
             gateway'.generation = gateway.generation
      PROVE  Agrees' /\ Waiting' = Waiting
  BY <1>4 DEF SkipInv, Agrees, IsLive, Generation, Waiting
<1>5. CASE f.op = "hello" /\ HandleHello(socks)
  <2>1. ~IsDispatch(f)
    BY <1>5 DEF IsDispatch, Dispatches
  <2>2. CASE Unmoved(socks) /\ UNCHANGED gateway
    BY <1>1, <1>3, <1>4, <2>1, <2>2 DEF Unmoved, worldVars
  <2>3. CASE gateway.phase = "connecting"
    <3>1. /\ gateway' = [gateway EXCEPT !.phase = IF CanResume THEN "resuming" ELSE "identifying",
                                        !.beating = TRUE, !.awaitingAck = FALSE]
          /\ sending' = IF CanResume THEN "resume" ELSE "identify"
          /\ sockets' = socks /\ UNCHANGED <<cycle, sessionVars, remote>>
      BY <1>5, <2>3 DEF HandleHello, worldVars
    <3>2. /\ gateway' \in GatewayRecord /\ gateway'.generation = gateway.generation
          /\ gateway'.session = gateway.session /\ gateway'.sequence = gateway.sequence
          /\ gateway'.phase = IF CanResume THEN "resuming" ELSE "identifying"
      BY <1>1, <3>1 DEF GatewayRecord, Phases, Live
    <3>3. ~CanResume => gateway.session = 0
      BY DEF CanResume, SkipInv, SessionsKnown, Held
    <3>4. Agrees'
      <4>1. IsLive' /\ Generation' = Generation
        BY <3>2 DEF IsLive, Live, Generation
      <4>2. Generation \in Connection
        BY <1>1
      <4>3. CASE CanResume
        BY <3>1, <3>2, <4>1, <4>2, <4>3 DEF Agrees, CanResume
      <4>4. CASE ~CanResume
        BY <3>1, <3>2, <3>3, <4>1, <4>2, <4>4 DEF Agrees
      <4> QED BY <4>3, <4>4
    <3>5. Waiting
      BY <2>3 DEF Waiting
    <3> QED BY <1>3, <2>1, <3>1, <3>2, <3>4, <3>5
  <2> QED BY <1>5, <2>2, <2>3 DEF HandleHello
<1>6. CASE f.op = "beat" /\ HandleBeat(socks)
  <2>1. ~IsDispatch(f)
    BY <1>6 DEF IsDispatch, Dispatches
  <2>2. /\ gateway' = [gateway EXCEPT !.awaitingAck = TRUE] /\ sockets' = Acknowledged(socks)
        /\ UNCHANGED <<cycle, sending, sessionVars, remote>>
    BY <1>6 DEF HandleBeat, worldVars
  <2>3. /\ gateway' \in GatewayRecord /\ gateway'.generation = gateway.generation
        /\ gateway'.session = gateway.session /\ gateway'.sequence = gateway.sequence
        /\ gateway'.phase = gateway.phase
    BY <1>1, <2>2 DEF GatewayRecord
  <2>4. sockets' = socks \/ (Attached(Generation) /\ sockets' = Sent(socks, <<Frame("ack")>>))
    BY <2>2 DEF Acknowledged
  <2> QED BY <1>3, <1>4, <2>1, <2>2, <2>3, <2>4
<1>7. CASE f.op = "ack" /\ HandleAck(socks)
  <2>1. ~IsDispatch(f)
    BY <1>7 DEF IsDispatch, Dispatches
  <2>2. /\ gateway' = [gateway EXCEPT !.awaitingAck = FALSE] /\ sockets' = socks
        /\ UNCHANGED <<cycle, sending, sessionVars, remote>>
    BY <1>7 DEF HandleAck, Unmoved, worldVars
  <2>3. /\ gateway' \in GatewayRecord /\ gateway'.generation = gateway.generation
        /\ gateway'.session = gateway.session /\ gateway'.sequence = gateway.sequence
        /\ gateway'.phase = gateway.phase
    BY <1>1, <2>2 DEF GatewayRecord
  <2> QED BY <1>3, <1>4, <2>1, <2>2, <2>3
<1>8. CASE \E clear \in BOOLEAN : Backoff(socks, clear) /\ UNCHANGED worldVars
  BY <1>2, <1>8, BackoffSkip DEF worldVars
<1>9. CASE f.op \in Dispatches /\ HandleDispatch(socks, f)
  <2>1. IsDispatch(f)
    BY <1>9 DEF IsDispatch
  <2>2. /\ f.seq = gateway.sequence + 1 /\ f.session \in Nat \ {0}
        /\ f.op # "READY" => gateway.session = f.session /\ gateway.phase \in {"ready", "resuming"}
    <3> DEFINE R == ComingIn(socks)
    <3>1. R \in Seq(Events) /\ Coming = <<f>> \o R /\ f \in Events
      BY <1>2
    <3> HIDE DEF f, R
    <3> QED BY <1>1, <2>1, <3>1, NextDispatch
  <2>3. f.seq \in Nat /\ ~(f.seq <= gateway.sequence)
    BY <1>1, <2>2 DEF GatewayRecord
  <2>4. ASSUME gateway' \in GatewayRecord, gateway'.generation = gateway.generation,
               gateway'.session = f.session, gateway'.sequence = f.seq,
               gateway'.phase \in {"ready", "resuming"}, sockets' = socks,
               UNCHANGED <<remote, sending, cycle>>, Taken \subseteq Taken',
               f.op = "MESSAGE" => <<f.session, f.seq>> \in Taken',
               ({stored} \cup saving \cup desired)'
                  \subseteq {stored} \cup saving \cup desired \cup {Session(f.session, f.seq)}
        PROVE  SkipInv'
    BY <1>1, <2>1, <2>4, AdvanceSkip
  <2>5. ASSUME NEW state, HandleReady(socks, state), state \in GatewayRecord,
               state.session = f.session, state.sequence = f.seq,
               state.generation = gateway.generation, f.op # "MESSAGE"
        PROVE  SkipInv'
    <3>1. /\ gateway' = [state EXCEPT !.phase = "ready"] /\ sockets' = socks
          /\ Persist(Session(f.session, f.seq)) /\ UNCHANGED <<cycle, sending, remote>>
      BY <2>5 DEF HandleReady, worldVars
    <3>2. "ready" \in Phases
      BY DEF Phases, Live
    <3>3. /\ gateway' \in GatewayRecord /\ gateway'.generation = gateway.generation
          /\ gateway'.session = f.session /\ gateway'.sequence = f.seq /\ gateway'.phase = "ready"
      BY <2>5, <3>1, <3>2 DEF GatewayRecord
    <3>4. /\ ({stored} \cup saving \cup desired)'
               \subseteq {stored} \cup saving \cup desired \cup {Session(f.session, f.seq)}
          /\ Taken' = Taken
      BY <3>1, PersistSessions DEF Taken, inboundVars
    <3> QED BY <2>4, <2>5, <3>1, <3>3, <3>4
  <2>6. /\ Advanced(f) \in GatewayRecord /\ Advanced(f).session = gateway.session
        /\ Advanced(f).sequence = f.seq /\ Advanced(f).generation = gateway.generation
        /\ Advanced(f).phase = gateway.phase
    BY <1>1, <2>3 DEF Advanced, GatewayRecord
  <2>7. CASE f.op = "READY"
    <3> DEFINE state == [Advanced(f) EXCEPT !.session = f.session]
    <3>1. HandleReady(socks, state)
      BY <1>9, <2>3, <2>7 DEF HandleDispatch
    <3>2. /\ state \in GatewayRecord /\ state.session = f.session /\ state.sequence = f.seq
          /\ state.generation = gateway.generation
      BY <2>2, <2>6 DEF GatewayRecord
    <3> HIDE DEF state
    <3> QED BY <2>5, <2>7, <3>1, <3>2
  <2>8. CASE f.op = "RESUMED"
    <3>1. HandleReady(socks, Advanced(f))
      BY <1>9, <2>3, <2>8 DEF HandleDispatch
    <3> QED BY <2>2, <2>5, <2>6, <2>8, <3>1
  <2>9. CASE f.op = "MESSAGE"
    <3>1. HandleMessage(socks, f)
      BY <1>9, <2>3, <2>9 DEF HandleDispatch
    <3>2. /\ gateway' = Advanced(f) /\ sockets' = socks
          /\ ingesting' = ingesting \cup {<<f.session, f.seq>>}
          /\ UNCHANGED <<cycle, sending, stored, saving, desired, ingested, lost, remote>>
      BY <2>2, <2>9, <3>1 DEF HandleMessage, worldVars
    <3>3. Taken \subseteq Taken' /\ <<f.session, f.seq>> \in Taken'
      BY <3>2 DEF Taken
    <3> QED BY <2>2, <2>4, <2>6, <2>9, <3>2, <3>3
  <2> QED BY <1>9, <2>7, <2>8, <2>9 DEF Dispatches
<1> QED BY <1>1, <1>2, <1>5, <1>6, <1>7, <1>8, <1>9 DEF HandleFrame, Ops, Dispatches

LEMMA ArrivesSkip ==
  ASSUME DiscordInv, SkipInv, NEW c \in Connection, Arrives(c)
  PROVE  SkipInv'
<1> DEFINE k == sockets[c]
           new == sockets'[c]
<1>1. PipesHold(sockets) /\ UNCHANGED <<gateway, cycle, sending, sessionVars, remote>>
  BY DEF Arrives, SkipInv, worldVars
<1>2. /\ PipeType(k) /\ k.incoming # <<>> /\ Head(k.incoming).op \notin Closing /\ k.stage = "open"
      /\ DOMAIN sockets = Connection
  BY <1>1 DEF Arrives, Arrive, HasEvent, Upcoming, PipesHold
<1>3. /\ new = IF k.decoding = NoEvent
               THEN [k EXCEPT !.incoming = Tail(@), !.decoding = Head(k.incoming)]
               ELSE [k EXCEPT !.incoming = Tail(@), !.queue = Append(@, Head(k.incoming))]
      /\ DOMAIN sockets' = Connection /\ \A d \in Connection : d # c => sockets'[d] = sockets[d]
  BY <1>2 DEF Arrives, Arrive, Upcoming
<1> HIDE DEF k, new
<1>4. PipeType(new) /\ Pipe(new) = Pipe(k) /\ new.stage = k.stage
  BY <1>2, <1>3, ArrivedPipe
<1>5. PipesHold(sockets)'
  BY <1>1, <1>3, <1>4 DEF PipesHold, new
<1>6. \A d \in Connection : Pipe(sockets'[d]) = Pipe(sockets[d]) /\ sockets'[d].stage = sockets[d].stage
  BY <1>3, <1>4 DEF new, k
<1>7. Coming' = Coming /\ Served' = Served /\ Waiting' = Waiting
  BY <1>1, <1>6 DEF Coming, ComingIn, Generation, Served, Attached, Waiting
<1>8. InOrder'
  BY <1>1, <1>7, StillInOrder
<1>9. RemoteType' /\ LogsGrow(remote.logs, remote.logs')
  BY <1>1, SameRemote
<1>10. SessionsKnown' /\ Agrees'
  <2>1. SessionsKnown'
    BY <1>1, <1>9, SessionsStay DEF SkipInv, SessionsKnown, sessionVars, inboundVars, Taken
  <2>2. Agrees'
    BY <1>1 DEF SkipInv, Agrees, IsLive, Generation
  <2> QED BY <2>1, <2>2
<1> QED BY <1>5, <1>8, <1>9, <1>10 DEF SkipInv

LEMMA ReceivingSkip ==
  ASSUME DiscordInv, SkipInv, Receiving
  PROVE  SkipInv'
<1>1. PICK c \in Connection : Arrives(c) \/ Handle(c) \/ Close(c)
  BY DEF Receiving
<1>2. CASE Close(c)
  <2>1. (ToFatal(sockets) \/ \E clear \in BOOLEAN : Backoff(sockets, clear)) /\ UNCHANGED remote
    BY <1>2 DEF Close, ClosedWith, worldVars
  <2>2. PipesHold(sockets)
    BY DEF SkipInv
  <2> QED BY <2>1, <2>2, KeptNow, BackoffSkip, FatalSkip
<1> QED BY <1>1, <1>2, ArrivesSkip, HandleSkip

(*************************** Frames that are written ****************************)

(* The remote end writes frames of its own to the connection it has. *)
LEMMA WrittenSkip ==
  ASSUME DiscordInv, SkipInv, NEW frames \in Seq(Events), NoDispatch(frames),
         Attached(remote.attached), sockets' = Sent(sockets, frames),
         UNCHANGED sessionVars, Waiting' => Waiting, Agrees',
         gateway' \in GatewayRecord, gateway'.generation = gateway.generation,
         gateway'.session = gateway.session, gateway'.sequence = gateway.sequence,
         RemoteType', remote'.logs = remote.logs, Served' => Served,
         Served' => remote'.current = remote.current
  PROVE  SkipInv'
<1>1. PipesHold(sockets) /\ LogsType(remote.logs) /\ Coming \in Seq(Events)
  BY ComingType DEF SkipInv, RemoteType, Coming
<1>2. remote.attached \in Connection => sockets[remote.attached].stage = "open"
  BY DEF Attached
<1>3. /\ PipesHold(sockets')
      /\ ComingIn(sockets') = Coming \/ ComingIn(sockets') = Coming \o frames
  BY <1>1, <1>2, SentComing DEF Coming
<1>4. PipesHold(sockets)' /\ (Coming' = Coming \/ Coming' = Coming \o frames)
  BY <1>3 DEF PipesHold, Coming, ComingIn, Generation
<1>6. /\ Follows(Coming, gateway.session, gateway.sequence, remote.logs)
      /\ Served => UpToDate(Coming, gateway.session, gateway.sequence, remote.current, remote.logs)
      /\ Waiting => ~Served /\ NoDispatch(Coming)
  BY DEF SkipInv, InOrder
<1>7. /\ Follows(Coming', gateway.session, gateway.sequence, remote.logs)
      /\ Served => UpToDate(Coming', gateway.session, gateway.sequence, remote.current, remote.logs)
      /\ Waiting => ~Served /\ NoDispatch(Coming')
  BY <1>1, <1>4, <1>6, FollowsMore, UpToDateMore, NothingMore
<1>8. InOrder'
  BY <1>7 DEF InOrder
<1>9. SessionsKnown'
  BY <1>1, SameLogs, SessionsStay DEF sessionVars, inboundVars, Taken
<1> QED BY <1>4, <1>8, <1>9 DEF SkipInv

(* Nothing arrives, and the remote end serves at most as much as before. *)
LEMMA StillSkip ==
  ASSUME SkipInv, UNCHANGED sockets,
         gateway' \in GatewayRecord, gateway'.generation = gateway.generation,
         gateway'.session = gateway.session, gateway'.sequence = gateway.sequence,
         RemoteType', LogsGrow(remote.logs, remote'.logs),
         Served' => Served /\ remote'.current = remote.current /\ remote'.logs = remote.logs,
         Waiting' => Waiting, Agrees', Taken \subseteq Taken',
         ({stored} \cup saving \cup desired)' \subseteq {stored} \cup saving \cup desired
  PROVE  SkipInv'
<1>1. /\ PipesHold(sockets) /\ LogsType(remote.logs) /\ LogsType(remote'.logs)
      /\ Coming \in Seq(Events)
  BY ComingType DEF SkipInv, RemoteType, Coming
<1>2. PipesHold(sockets)' /\ Coming' = Coming
  BY <1>1 DEF PipesHold, Coming, ComingIn, Generation
<1>3. Follows(Coming, gateway.session, gateway.sequence, remote'.logs)
  BY <1>1, FollowsGrown DEF SkipInv, InOrder
<1>4. InOrder'
  BY <1>2, <1>3 DEF SkipInv, InOrder
<1>5. SessionsKnown'
  BY SessionsStay
<1> QED BY <1>2, <1>4, <1>5 DEF SkipInv

(* A run of the current log goes to the gateway's connection. *)
LEMMA RunSkip ==
  ASSUME DiscordInv, SkipInv, UNCHANGED <<gateway, sessionVars, cycle>>, Agrees',
         RemoteType', LogsGrow(remote.logs, remote'.logs),
         Generation \in Connection, Attached(Generation), remote'.attached = remote.attached,
         NEW s, s = remote'.current, s # 0, gateway.session \in {0, s},
         NEW n \in Nat, gateway.sequence <= n, n <= Len(remote'.logs[s]),
         NEW frames \in Seq(Events), Run(frames, s, n, remote'.logs[s]),
         sockets' = Sent(sockets, frames),
         Brought(Coming, s, gateway.sequence, n),
         \A i \in 1 .. Len(Coming) : IsDispatch(Coming[i]) => Coming[i].seq <= n,
         ~Waiting'
  PROVE  SkipInv'
<1>1. /\ PipesHold(sockets) /\ LogsType(remote.logs) /\ LogsType(remote'.logs)
      /\ Coming \in Seq(Events) /\ gateway.sequence \in Nat
  BY ComingType DEF SkipInv, RemoteType, Coming, SessionsKnown, GatewayRecord
<1>2. s \in 1 .. Len(remote'.logs)
  <2>1. remote'.current \in Nat /\ remote'.current <= Len(remote'.logs)
    BY DEF RemoteType
  <2>2. Len(remote'.logs) \in Nat
    BY <1>1, LogsAre
  <2> QED BY <2>1, <2>2
<1>3. remote.attached = Generation /\ remote.attached \in Connection
      /\ sockets[remote.attached].stage = "open"
  BY DEF Attached
<1>4. PipesHold(sockets') /\ ComingIn(sockets') = Coming \o frames
  BY <1>1, <1>3, SentComing DEF Coming
<1>5. PipesHold(sockets)' /\ Coming' = Coming \o frames
  BY <1>4 DEF PipesHold, Coming, ComingIn, Generation
<1>6. Follows(Coming, gateway.session, gateway.sequence, remote'.logs)
  BY <1>1, FollowsGrown DEF SkipInv, InOrder
<1>7. /\ Follows(Coming \o frames, gateway.session, gateway.sequence, remote'.logs)
      /\ UpToDate(Coming \o frames, gateway.session, gateway.sequence, s, remote'.logs)
  BY <1>1, <1>2, <1>6, FollowsRun
<1>8. InOrder'
  BY <1>5, <1>7 DEF InOrder
<1>9. SessionsKnown'
  BY SessionsStay DEF SkipInv, SessionsKnown, sessionVars, inboundVars, Taken
<1> QED BY <1>5, <1>8, <1>9 DEF SkipInv

LEMMA AppendedTo ==
  ASSUME NEW T, NEW l \in Seq(T), NEW e \in T, NEW m, m = Append(l, e)
  PROVE  /\ m \in Seq(T) /\ Len(m) = Len(l) + 1 /\ m[Len(l) + 1] = e
         /\ \A i \in 1 .. Len(l) : m[i] = l[i]
BY AppendProperties

LEMMA Replaced ==
  ASSUME NEW T, NEW l \in Seq(T), NEW s \in 1 .. Len(l), NEW e \in T, NEW m,
         m = [l EXCEPT ![s] = e]
  PROVE  /\ m \in Seq(T) /\ Len(m) = Len(l) /\ m[s] = e
         /\ \A i \in 1 .. Len(l) : i # s => m[i] = l[i]
BY ExceptSeq

(* The logs have become more, with one more frame, op, in the log of session s. *)
OneMore(logs, s, op, more) ==
  /\ LogsType(more) /\ LogsGrow(logs, more) /\ Len(more) = Len(logs)
  /\ more[s] = Append(logs[s], op) /\ Len(more[s]) = Len(logs[s]) + 1
  /\ more[s][Len(logs[s]) + 1] = op
  /\ more \in Seq(Seq(Dispatches))

(* It is so when the frame has been appended. *)
LEMMA AppendLog ==
  ASSUME NEW logs, LogsType(logs), NEW s \in 1 .. Len(logs), NEW op \in Dispatches,
         NEW new, new = Append(logs[s], op), NEW more, more = [logs EXCEPT ![s] = new]
  PROVE  OneMore(logs, s, op, more)
<1> DEFINE log == logs[s]
<1>1. /\ logs \in Seq(Seq(Dispatches)) /\ log \in Seq(Dispatches) /\ Len(log) \in Nat \ {0}
      /\ Len(logs) \in Nat
  BY LogsAre DEF LogsType
<1>2. /\ new \in Seq(Dispatches) /\ Len(new) = Len(log) + 1 /\ new[Len(log) + 1] = op
      /\ \A i \in 1 .. Len(log) : new[i] = log[i]
  BY <1>1, AppendProperties
<1>3. more = [logs EXCEPT ![s] = new]
  OBVIOUS
<1>4. /\ more \in Seq(Seq(Dispatches)) /\ Len(more) = Len(logs)
      /\ more[s] = new /\ \A t \in 1 .. Len(logs) : t # s => more[t] = logs[t]
  <2> DEFINE T == Seq(Dispatches)
  <2>1. logs \in Seq(T) /\ new \in T /\ s \in 1 .. Len(logs)
    BY <1>1, <1>2
  <2> HIDE DEF T
  <2>2. /\ more \in Seq(T) /\ Len(more) = Len(logs)
        /\ more[s] = new /\ \A t \in 1 .. Len(logs) : t # s => more[t] = logs[t]
    BY ONLY <1>3, <2>1, Replaced
  <2> QED BY <2>2 DEF T
<1>5. LogsType(more)
  <2> SUFFICES ASSUME NEW t \in 1 .. Len(logs)
               PROVE  Len(more[t]) > 0 /\ more[t][1] = "READY"
    BY <1>4 DEF LogsType
  <2>1. CASE t = s
    <3>1. more[t] = new /\ 1 \in 1 .. Len(log)
      BY <1>1, <1>4, <2>1
    <3>2. log[1] = "READY"
      BY DEF LogsType
    <3>3. new[1] = log[1] /\ Len(new) > 0
      BY <1>1, <1>2, <3>1
    <3> QED BY <3>1, <3>2, <3>3
  <2>2. CASE t # s
    BY <1>4, <2>2 DEF LogsType
  <2> QED BY <2>1, <2>2
<1>6. LogsGrow(logs, more)
  <2> SUFFICES ASSUME NEW t \in 1 .. Len(logs)
               PROVE  /\ Len(logs[t]) <= Len(more[t])
                      /\ \A q \in 1 .. Len(logs[t]) : more[t][q] = logs[t][q]
    BY <1>1, <1>4 DEF LogsGrow
  <2>1. CASE t = s
    BY <1>1, <1>2, <1>4, <2>1
  <2>2. CASE t # s
    <3>1. more[t] = logs[t] /\ Len(logs[t]) \in Nat
      BY <1>4, <2>2, LogsAre
    <3> QED BY <3>1
  <2> QED BY <2>1, <2>2
<1>7. more[s] = new
  BY <1>4
<1> QED BY <1>2, <1>4, <1>5, <1>6, <1>7 DEF OneMore

LEMMA NewLog ==
  ASSUME NEW logs, LogsType(logs), NEW more, more = Append(logs, <<"READY">>)
  PROVE  /\ LogsType(more) /\ LogsGrow(logs, more) /\ Len(more) = Len(logs) + 1
         /\ more[Len(logs) + 1] = <<"READY">> /\ more \in Seq(Seq(Dispatches))
<1> DEFINE log == <<"READY">>
<1>1. log \in Seq(Dispatches) /\ Len(log) = 1 /\ log[1] = "READY"
  BY DEF Dispatches
<1> HIDE DEF log
<1>2. logs \in Seq(Seq(Dispatches)) /\ Len(logs) \in Nat /\ more = Append(logs, log)
  BY LogsAre DEF LogsType, log
<1>3. /\ more \in Seq(Seq(Dispatches)) /\ Len(more) = Len(logs) + 1
      /\ \A t \in 1 .. Len(logs) : more[t] = logs[t]
      /\ more[Len(logs) + 1] = log
  <2> DEFINE T == Seq(Dispatches)
  <2>1. logs \in Seq(T) /\ log \in T
    BY <1>1, <1>2
  <2> HIDE DEF T
  <2>2. /\ more \in Seq(T) /\ Len(more) = Len(logs) + 1
        /\ \A t \in 1 .. Len(logs) : more[t] = logs[t]
        /\ more[Len(logs) + 1] = log
    BY <1>2, <2>1, AppendedTo
  <2> QED BY <2>2 DEF T
<1>4. LogsType(more)
  <2> SUFFICES ASSUME NEW t \in 1 .. Len(more)
               PROVE  Len(more[t]) > 0 /\ more[t][1] = "READY"
    BY <1>3 DEF LogsType
  <2>1. t \in 1 .. Len(logs) \/ t = Len(logs) + 1
    BY <1>2, <1>3
  <2> QED BY <1>1, <1>3, <2>1 DEF LogsType
<1>5. LogsGrow(logs, more)
  <2> SUFFICES ASSUME NEW t \in 1 .. Len(logs)
               PROVE  /\ Len(logs[t]) <= Len(more[t])
                      /\ \A q \in 1 .. Len(logs[t]) : more[t][q] = logs[t][q]
    BY <1>2, <1>3 DEF LogsGrow
  <2>1. more[t] = logs[t] /\ Len(logs[t]) \in Nat
    BY <1>3, LogsAre
  <2> QED BY <2>1
<1> QED BY <1>3, <1>4, <1>5 DEF log

LEMMA NothingBrought ==
  ASSUME NEW P, NoDispatch(P), NEW s, NEW q \in Nat, NEW n \in Nat
  PROVE  Brought(P, s, q, q) /\ \A i \in 1 .. Len(P) : IsDispatch(P[i]) => P[i].seq <= n
<1>1. q + 1 .. q = {}
  OBVIOUS
<1> QED BY <1>1 DEF NoDispatch, Brought

LEMMA ServedKept ==
  ASSUME SkipInv, NEW frames \in Seq(Events), Attached(remote.attached),
         sockets' = Sent(sockets, frames), UNCHANGED remote, gateway'.generation = gateway.generation
  PROVE  Served' = Served
<1>1. PipesHold(sockets) /\ (remote.attached \in Connection => sockets[remote.attached].stage = "open")
  BY DEF SkipInv, Attached
<1>2. \A d \in Connection : sockets'[d].stage = sockets[d].stage
  BY <1>1, SentComing
<1> QED BY <1>2, ServedStill

(* A new session: its log has the READY, which is on its way. *)
LEMMA IdentifiedSkip ==
  ASSUME DiscordInv, SkipInv, sending = "identify", Attached(Generation), Identified,
         UNCHANGED <<gateway, cycle, sessionVars>>, sending' = "none"
  PROVE  SkipInv'
<1> DEFINE s == Len(remote.logs) + 1
           more == Append(remote.logs, <<"READY">>)
           frames == <<Dispatch("READY", s, 1)>>
<1>1. /\ RemoteType /\ LogsType(remote.logs) /\ gateway \in GatewayRecord
      /\ gateway.phase = "identifying" /\ gateway.session = 0 /\ gateway.sequence = 0
  BY DEF SkipInv, RemoteType, SessionsKnown, Agrees, Held
<1>2. IsLive /\ Generation \in Connection /\ Waiting
  BY <1>1 DEF SkipInv, Agrees, IsLive, Live, Waiting
<1>3. NoDispatch(Coming)
  BY <1>2 DEF SkipInv, InOrder
<1>4. /\ remote' = [remote EXCEPT !.current = s, !.bound = TRUE, !.logs = more]
      /\ sockets' = Sent(sockets, frames)
  BY DEF Identified
<1>5. /\ LogsType(more) /\ LogsGrow(remote.logs, more) /\ Len(more) = s
      /\ more[s] = <<"READY">> /\ more \in Seq(Seq(Dispatches)) /\ s \in Nat \ {0}
  <2> DEFINE logs == remote.logs
  <2>1. LogsType(logs) /\ more = Append(logs, <<"READY">>) /\ s = Len(logs) + 1
    BY <1>1
  <2> HIDE DEF more, logs, s
  <2>2. /\ LogsType(more) /\ LogsGrow(logs, more) /\ Len(more) = Len(logs) + 1
        /\ more[Len(logs) + 1] = <<"READY">> /\ more \in Seq(Seq(Dispatches))
    BY <2>1, NewLog
  <2>3. Len(logs) \in Nat
    BY <2>1, LogsAre
  <2> QED BY <2>1, <2>2, <2>3 DEF logs
<1>6. frames \in Seq(Events) /\ Run(frames, s, 0, <<"READY">>)
  <2>1. Dispatch("READY", s, 1) \in Events
    BY <1>5 DEF Dispatch, Events, Ops, Dispatches
  <2>2. Len(frames) = 1 /\ frames[1] = Dispatch("READY", s, 1) /\ frames \in Seq(Events)
    BY <2>1
  <2>3. Len(<<"READY">>) = 1 /\ <<"READY">>[1] = "READY" /\ 1 .. 1 = {1} /\ 0 + 1 = 1 /\ 1 - 0 = 1
    OBVIOUS
  <2> HIDE DEF frames, s
  <2>4. \A i \in 1 .. 1 : frames[i] = Dispatch(<<"READY">>[0 + i], s, 0 + i)
    BY <2>2, <2>3
  <2> QED BY <2>2, <2>3, <2>4 DEF Run
<1> HIDE DEF s, more, frames
<1>7. /\ RemoteType' /\ remote'.logs = more /\ remote'.current = s
      /\ remote'.attached = remote.attached
  <2>1. s \in Nat /\ s <= Len(more) /\ TRUE \in BOOLEAN
    BY <1>5
  <2>2. /\ remote'.logs = more /\ remote'.current = s /\ remote'.attached = remote.attached
        /\ remote' \in [current : Nat, attached : Connection \cup {0}, bound : BOOLEAN,
                        messages : Nat, logs : Seq(Seq(Dispatches))]
    BY <1>1, <1>4, <1>5, <2>1 DEF RemoteType
  <2> QED BY <1>5, <2>1, <2>2 DEF RemoteType
<1>8. Agrees' /\ ~Waiting'
  BY <1>1, <1>2 DEF SkipInv, Agrees, IsLive, Generation, Waiting
<1>9. /\ Brought(Coming, s, gateway.sequence, 0)
      /\ \A i \in 1 .. Len(Coming) : IsDispatch(Coming[i]) => Coming[i].seq <= 0
  BY <1>1, <1>3, NothingBrought
<1>10. gateway.sequence <= 0 /\ 0 <= Len(remote'.logs[s])
  BY <1>1, <1>5, <1>7
<1> QED BY <1>1, <1>2, <1>4, <1>5, <1>6, <1>7, <1>8, <1>9, <1>10, RunSkip

(* A resume: the remote end replays the log after the gateway's sequence number, *)
(* or says that it does not know the session.                                   *)
LEMMA ResumedSkip ==
  ASSUME DiscordInv, SkipInv, sending = "resume", Attached(Generation), Resumed,
         UNCHANGED <<gateway, cycle, sessionVars>>, sending' = "none"
  PROVE  SkipInv'
<1>1. /\ RemoteType /\ LogsType(remote.logs) /\ gateway \in GatewayRecord
      /\ gateway.phase = "resuming" /\ gateway.session # 0 /\ gateway.sequence \in Nat
      /\ Held(gateway.session, gateway.sequence, remote.logs, Taken)
  BY DEF SkipInv, RemoteType, SessionsKnown, Agrees, GatewayRecord
<1>2. IsLive /\ Generation \in Connection /\ Waiting
  BY <1>1 DEF SkipInv, Agrees, IsLive, Live, Waiting
<1>3. NoDispatch(Coming) /\ ~Served
  BY <1>2 DEF SkipInv, InOrder
<1>4. Agrees' /\ ~Waiting'
  BY <1>1, <1>2 DEF SkipInv, Agrees, IsLive, Generation, Waiting
<1>5. CASE gateway.session = remote.current
  <2> DEFINE s == remote.current
             q == gateway.sequence
             log == Append(remote.logs[s], "RESUMED")
             more == [remote.logs EXCEPT ![s] = log]
             frames == [i \in 1 .. (Len(log) - q) |-> Dispatch(log[q + i], s, q + i)]
  <2>1. s \in 1 .. Len(remote.logs) /\ q <= Len(remote.logs[s]) /\ Len(remote.logs[s]) \in Nat
    <3>1. s \in Nat /\ s # 0 /\ s <= Len(remote.logs) /\ Len(remote.logs) \in Nat
      BY <1>1, <1>5, LogsAre DEF RemoteType
    <3> QED BY <1>1, <1>5, <3>1, LogsAre DEF Held
  <2>2. /\ remote' = [remote EXCEPT !.bound = TRUE, !.logs = more]
        /\ sockets' = Sent(sockets, frames)
    BY <1>5 DEF Resumed
  <2>3. "RESUMED" \in Dispatches
    BY DEF Dispatches
  <2>4. /\ LogsType(more) /\ LogsGrow(remote.logs, more) /\ Len(more) = Len(remote.logs)
        /\ more[s] = log /\ Len(more[s]) = Len(remote.logs[s]) + 1
        /\ more \in Seq(Seq(Dispatches))
    <3> DEFINE logs == remote.logs
               op == "RESUMED"
    <3>1. more = [logs EXCEPT ![s] = log] /\ log = Append(logs[s], op)
      OBVIOUS
    <3>2. LogsType(logs) /\ s \in 1 .. Len(logs) /\ op \in Dispatches
      BY <1>1, <2>1, <2>3
    <3> HIDE DEF s, q, log, more, logs, op
    <3>3. OneMore(logs, s, op, more)
      BY ONLY <3>1, <3>2, AppendLog, Zenon
    <3>4. more[s] = log
      BY <3>1, <3>3 DEF OneMore
    <3> QED BY <3>3, <3>4 DEF logs, OneMore
  <2>5. log \in Seq(Dispatches) /\ Len(log) = Len(remote.logs[s]) + 1 /\ s \in Nat /\ q \in Nat
    BY <1>1, <2>1, <2>4, LogsAre
  <2>6. frames \in Seq(Events) /\ Run(frames, s, q, log)
    <3> HIDE DEF log, s, q
    <3>1. Len(log) - q \in Nat
      BY <2>1, <2>5
    <3>2. ASSUME NEW i \in 1 .. Len(log) - q PROVE Dispatch(log[q + i], s, q + i) \in Events
      <4>1. q + i \in 1 .. Len(log)
        BY <2>5, <3>1
      <4>2. log[q + i] \in Dispatches
        BY <2>5, <4>1, ElementOfSeq
      <4> QED BY <2>5, <4>1, <4>2 DEF Dispatch, Events, Ops
    <3>3. frames \in [1 .. Len(log) - q -> Events]
      BY <3>2
    <3>4. frames \in Seq(Events) /\ Len(frames) = Len(log) - q
      BY <3>1, <3>3
    <3>5. \A i \in 1 .. Len(log) - q : frames[i] = Dispatch(log[q + i], s, q + i)
      OBVIOUS
    <3> QED BY <3>4, <3>5 DEF Run
  <2> HIDE DEF s, q, log, more, frames
  <2>7. /\ RemoteType' /\ remote'.logs = more /\ remote'.current = s
        /\ remote'.attached = remote.attached
    BY <1>1, <2>2, <2>4 DEF RemoteType, s
  <2>8. /\ Brought(Coming, s, gateway.sequence, q)
        /\ \A i \in 1 .. Len(Coming) : IsDispatch(Coming[i]) => Coming[i].seq <= q
    BY <1>3, <2>5, NothingBrought DEF q
  <2>9. gateway.sequence <= q /\ q <= Len(remote'.logs[s])
    BY <2>1, <2>4, <2>5, <2>7 DEF q
  <2>10. s # 0 /\ gateway.session \in {0, s}
    BY <1>1, <1>5 DEF s
  <2> QED BY <1>2, <1>4, <2>2, <2>4, <2>5, <2>6, <2>7, <2>8, <2>9, <2>10, RunSkip
<1>6. CASE gateway.session # remote.current
  <2>1. sockets' = Sent(sockets, <<Frame("invalid")>>) /\ UNCHANGED remote
    BY <1>6 DEF Resumed
  <2>2. <<Frame("invalid")>> \in Seq(Events) /\ NoDispatch(<<Frame("invalid")>>)
    BY Frames DEF Ops, Dispatches
  <2>3. Attached(remote.attached) /\ RemoteType'
    BY <1>1, <2>1 DEF Attached, RemoteType
  <2>4. ~Served'
    <3> DEFINE frames == <<Frame("invalid")>>
    <3>1. frames \in Seq(Events) /\ sockets' = Sent(sockets, frames)
      BY <2>1, <2>2
    <3>2. gateway'.generation = gateway.generation
      OBVIOUS
    <3> HIDE DEF frames
    <3> QED BY <1>3, <2>1, <2>3, <3>1, <3>2, ServedKept
  <2> QED BY <1>1, <1>4, <2>1, <2>2, <2>3, <2>4, WrittenSkip
<1> QED BY <1>5, <1>6

LEMMA SendingSkip ==
  ASSUME DiscordInv, SkipInv, SendFrame \/ SendRefused
  PROVE  SkipInv'
<1>1. CASE \E fatal \in BOOLEAN : Failure(fatal) /\ UNCHANGED remote
  BY <1>1, FailureSkip
<1>2. CASE SendRefused
  BY <1>1, <1>2 DEF SendRefused
<1>3. CASE SendFrame /\ sockets[Generation].stage # "open"
  BY <1>1, <1>3 DEF SendFrame
<1>4. CASE SendFrame /\ sockets[Generation].stage = "open"
  <2>1. /\ sending \in {"identify", "resume"} /\ sending' = "none"
        /\ UNCHANGED <<gateway, cycle, sessionVars>>
    BY <1>4 DEF SendFrame, SkipInv, Agrees
  <2>2. CASE ~Attached(Generation)
    <3>1. UNCHANGED <<sockets, remote>>
      BY <1>4, <2>2 DEF SendFrame
    <3>2. RemoteType' /\ LogsGrow(remote.logs, remote'.logs)
      BY <3>1, SameRemote
    <3>3. Served' = Served /\ (Waiting' => Waiting)
      BY <2>1, <3>1 DEF Served, Attached, Generation, Waiting
    <3>4. Agrees'
      BY <2>1 DEF SkipInv, Agrees, IsLive, Generation
    <3>5. gateway \in GatewayRecord /\ Taken' = Taken
      BY <2>1 DEF SkipInv, SessionsKnown, sessionVars, inboundVars, Taken
    <3> QED BY <2>1, <3>1, <3>2, <3>3, <3>4, <3>5, StillSkip DEF sessionVars
  <2>3. CASE Attached(Generation) /\ sending = "identify"
    BY <1>4, <2>1, <2>3, IdentifiedSkip DEF SendFrame
  <2>4. CASE Attached(Generation) /\ sending = "resume"
    BY <1>4, <2>1, <2>4, ResumedSkip DEF SendFrame
  <2> QED BY <2>1, <2>2, <2>3, <2>4
<1> QED BY <1>2, <1>3, <1>4

(************************* Timers, the store, the remote end ********************)

LEMMA TimerSkip ==
  ASSUME DiscordInv, SkipInv, DiscordInv', Timeout \/ Heartbeat \/ HeartbeatFails \/ HeartbeatIdle
  PROVE  SkipInv'
<1>1. gateway \in GatewayRecord /\ PipesHold(sockets)
  BY DEF SkipInv, SessionsKnown
<1>2. CASE Timeout
  <2>1. Backoff(sockets, FALSE) /\ UNCHANGED remote
    BY <1>2 DEF Timeout, HelloTimeout, ReadyTimeout, HeartbeatUnanswered
  <2> QED BY <1>1, <2>1, KeptNow, BackoffSkip
<1>3. CASE HeartbeatFails
  BY <1>3, StopSkip
<1>4. CASE Heartbeat \/ HeartbeatIdle
  <2>1. /\ UNCHANGED <<cycle, sending, sessionVars, remote>>
        /\ gateway' = gateway \/ gateway' = [gateway EXCEPT !.awaitingAck = TRUE]
        /\ \/ sockets' = sockets
           \/ Attached(Generation) /\ sockets' = Sent(sockets, <<Frame("ack")>>)
    BY <1>4 DEF Heartbeat, HeartbeatIdle, Acknowledged, worldVars
  <2>2. /\ gateway' \in GatewayRecord /\ gateway'.generation = gateway.generation
        /\ gateway'.session = gateway.session /\ gateway'.sequence = gateway.sequence
        /\ gateway'.phase = gateway.phase
    BY <1>1, <2>1 DEF GatewayRecord
  <2>3. RemoteType' /\ LogsGrow(remote.logs, remote'.logs)
    BY <2>1, SameRemote
  <2>4. Agrees' /\ Waiting' = Waiting
    BY <2>1, <2>2 DEF SkipInv, Agrees, IsLive, Generation, Waiting
  <2>5. CASE sockets' = sockets
    <3>1. Served' = Served /\ Taken' = Taken
      BY <2>1, <2>2, <2>5 DEF Served, Attached, Generation, Taken, sessionVars, inboundVars
    <3> QED BY <2>1, <2>2, <2>3, <2>4, <2>5, <3>1, StillSkip DEF sessionVars
  <2>6. CASE Attached(Generation) /\ sockets' = Sent(sockets, <<Frame("ack")>>)
    <3> DEFINE frames == <<Frame("ack")>>
    <3>1. frames \in Seq(Events) /\ NoDispatch(frames)
      BY Frames DEF Ops, Dispatches
    <3>2. Attached(remote.attached) /\ sockets' = Sent(sockets, frames)
      BY <2>6 DEF Attached
    <3> HIDE DEF frames
    <3>3. Served' = Served
      BY <2>1, <2>2, <3>1, <3>2, ServedKept
    <3> QED BY <2>1, <2>2, <2>3, <2>4, <3>1, <3>2, <3>3, WrittenSkip
  <2> QED BY <2>1, <2>5, <2>6
<1> QED BY <1>2, <1>3, <1>4

LEMMA StoringSkip ==
  ASSUME SkipInv, SaveEnds \/ IngestEnds
  PROVE  SkipInv'
<1>1. UNCHANGED <<gateway, cycle, sending, sockets, remote>>
  BY DEF SaveEnds, IngestEnds
<1>2. Taken' = Taken
  BY DEF SaveEnds, IngestEnds, inboundVars, Taken
<1>3. ({stored} \cup saving \cup desired)' \subseteq {stored} \cup saving \cup desired
  BY DEF SaveEnds, IngestEnds
<1>4. RemoteType' /\ LogsGrow(remote.logs, remote'.logs)
  BY <1>1, SameRemote
<1>5. Agrees' /\ Waiting' = Waiting /\ Served' = Served
  BY <1>1 DEF SkipInv, Agrees, IsLive, Generation, Waiting, Served, Attached
<1>6. gateway \in GatewayRecord
  BY DEF SkipInv, SessionsKnown
<1> QED BY <1>1, <1>2, <1>3, <1>4, <1>5, <1>6, StillSkip

LEMMA RemoteLogged ==
  ASSUME NEW r, NEW C, NEW T,
         r \in [current : Nat, attached : C, bound : BOOLEAN, messages : Nat, logs : T],
         NEW more \in T, NEW x, x = [r EXCEPT !.messages = @ + 1, !.logs = more]
  PROVE  /\ x \in [current : Nat, attached : C, bound : BOOLEAN, messages : Nat, logs : T]
         /\ x.logs = more /\ x.current = r.current /\ x.attached = r.attached
         /\ x.bound = r.bound
<1>1. r.messages + 1 \in Nat
  OBVIOUS
<1> QED BY <1>1

(* The connection to which the remote end writes is the gateway's. *)
LEMMA AttachedIsCurrent ==
  ASSUME DiscordInv, RemoteType, remote.attached # 0, Attached(remote.attached)
  PROVE  remote.attached = Generation /\ Generation \in Connection /\ Attached(Generation)
BY DEF DiscordInv, OwnedSockets, RemoteType, Attached

LEMMA RemoteMessageSkip ==
  ASSUME DiscordInv, SkipInv, RemoteMessage
  PROVE  SkipInv'
<1> DEFINE s == remote.current
           op == "MESSAGE"
           log == Append(remote.logs[s], op)
           more == [remote.logs EXCEPT ![s] = log]
           frames == <<Dispatch(op, s, Len(log))>>
<1>1. /\ s # 0 /\ remote' = [remote EXCEPT !.messages = @ + 1, !.logs = more]
      /\ UNCHANGED <<gateway, cycle, sending, sessionVars>>
      /\ IF remote.bound /\ remote.attached # 0 /\ Attached(remote.attached)
         THEN sockets' = Sent(sockets, frames) ELSE sockets' = sockets
  BY DEF RemoteMessage
<1>2. /\ RemoteType /\ LogsType(remote.logs) /\ gateway \in GatewayRecord
      /\ gateway.sequence \in Nat
      /\ Held(gateway.session, gateway.sequence, remote.logs, Taken)
  BY DEF SkipInv, RemoteType, SessionsKnown, GatewayRecord
<1>3. s \in 1 .. Len(remote.logs) /\ s \in Nat
  <2>1. s \in Nat /\ s <= Len(remote.logs) /\ Len(remote.logs) \in Nat
    BY <1>2, LogsAre DEF RemoteType
  <2> QED BY <1>1, <2>1
<1>4. /\ LogsType(more) /\ LogsGrow(remote.logs, more) /\ Len(more) = Len(remote.logs)
      /\ more[s] = log /\ Len(more[s]) = Len(remote.logs[s]) + 1
      /\ more[s][Len(remote.logs[s]) + 1] = op
      /\ more \in Seq(Seq(Dispatches)) /\ op \in Dispatches
  <2> DEFINE logs == remote.logs
  <2>1. more = [logs EXCEPT ![s] = log] /\ log = Append(logs[s], op)
    OBVIOUS
  <2>2. LogsType(logs) /\ s \in 1 .. Len(logs) /\ op \in Dispatches
    BY <1>2, <1>3 DEF Dispatches
  <2> HIDE DEF s, log, more, logs, op
  <2>3. OneMore(logs, s, op, more)
    BY ONLY <2>1, <2>2, AppendLog, Zenon
  <2>4. more[s] = log
    BY <2>1, <2>3 DEF OneMore
  <2> QED BY <2>2, <2>3, <2>4 DEF logs, OneMore
<1>5. Len(remote.logs[s]) \in Nat
  BY <1>2, <1>3, LogsAre
<1> HIDE DEF s, log, more, op
<1>6. /\ RemoteType' /\ remote'.logs = more /\ remote'.current = s
      /\ remote'.attached = remote.attached /\ remote'.bound = remote.bound
  <2>0. remote \in [current : Nat, attached : Connection \cup {0}, bound : BOOLEAN,
                      messages : Nat, logs : Seq(Seq(Dispatches))]
    BY <1>2 DEF RemoteType
  <2>1. /\ remote'.logs = more /\ remote'.current = remote.current
        /\ remote'.attached = remote.attached /\ remote'.bound = remote.bound
        /\ remote' \in [current : Nat, attached : Connection \cup {0}, bound : BOOLEAN,
                        messages : Nat, logs : Seq(Seq(Dispatches))]
    BY ONLY <1>1, <1>4, <2>0, RemoteLogged
  <2> QED BY <1>2, <1>4, <2>1 DEF RemoteType, s
<1>7. Agrees' /\ Waiting' = Waiting
  BY <1>1 DEF SkipInv, Agrees, IsLive, Generation, Waiting
<1>8. CASE remote.bound /\ remote.attached # 0 /\ Attached(remote.attached)
  <2> DEFINE n == Len(remote.logs[s])
  <2>1. Generation \in Connection /\ Attached(Generation) /\ Served
    BY <1>2, <1>8, AttachedIsCurrent DEF Served
  <2>2. sockets' = Sent(sockets, frames)
    BY <1>1, <1>8
  <2>3. /\ ~Waiting /\ Follows(Coming, gateway.session, gateway.sequence, remote.logs)
        /\ UpToDate(Coming, gateway.session, gateway.sequence, s, remote.logs)
    BY <2>1 DEF SkipInv, InOrder, s
  <2>4. gateway.session \in {0, s} /\ Brought(Coming, s, gateway.sequence, n)
    BY <2>3 DEF UpToDate
  <2>5. gateway.sequence <= n
    BY <1>2, <1>5, <2>4 DEF Held
  <2>6. ASSUME NEW i \in 1 .. Len(Coming), IsDispatch(Coming[i]) PROVE Coming[i].seq <= n
    <3>1. Coming[i].session = s
      BY <2>4, <2>6 DEF Brought
    <3>2. Coming[i].seq \in 1 .. Len(remote.logs[Coming[i].session])
      BY <2>3, <2>6 DEF Follows, Logged
    <3> QED BY <1>5, <3>1, <3>2
  <2>7. frames \in Seq(Events) /\ Run(frames, s, n, more[s])
    <3> DEFINE f == Dispatch(op, s, Len(log))
    <3>1. Len(log) = n + 1 /\ Len(log) \in Nat /\ more[s][n + 1] = op
      BY <1>4, <1>5
    <3>2. f \in Events /\ f = Dispatch(more[s][n + 1], s, n + 1)
      BY <1>3, <1>4, <3>1 DEF Dispatch, Events, Ops
    <3> HIDE DEF f
    <3>3. frames = <<f>>
      BY DEF f
    <3>4. frames \in Seq(Events) /\ Len(frames) = 1 /\ frames[1] = f
      BY <3>2, <3>3
    <3>5. Len(frames) = Len(more[s]) - n
      BY <1>4, <1>5, <3>4
    <3>6. \A i \in 1 .. Len(frames) : i = 1
      BY <3>4
    <3> QED BY <3>2, <3>4, <3>5, <3>6 DEF Run
  <2> HIDE DEF n, frames
  <2>8. n \in Nat /\ n <= Len(remote'.logs[s])
    BY <1>4, <1>5, <1>6 DEF n
  <2>9. ~Waiting'
    BY <1>7, <2>3
  <2> QED BY <1>1, <1>4, <1>6, <1>7, <2>1, <2>2, <2>4, <2>5, <2>6, <2>7, <2>8, <2>9, RunSkip
<1>9. CASE ~(remote.bound /\ remote.attached # 0 /\ Attached(remote.attached))
  <2>1. sockets' = sockets
    BY <1>1, <1>9
  <2>2. ~Served'
    <3>1. ~Served
      BY <1>9, SocketAssumption DEF Served, Attached
    <3> QED BY <1>1, <1>6, <2>1, <3>1 DEF Served, Attached, Generation
  <2>3. Taken' = Taken /\ ({stored} \cup saving \cup desired)' = {stored} \cup saving \cup desired
    BY <1>1 DEF sessionVars, inboundVars, Taken
  <2> QED BY <1>1, <1>2, <1>4, <1>6, <1>7, <2>1, <2>2, <2>3, StillSkip
<1> QED BY <1>8, <1>9

(* A connection that breaks: what the gateway has not read is gone. *)
LEMMA BrokenSkip ==
  ASSUME DiscordInv, SkipInv, Attached(Generation), Generation \in Connection,
         NEW f \in Events, ~IsDispatch(f),
         sockets' = [sockets EXCEPT ![Generation].incoming = <<f>>],
         UNCHANGED <<gateway, cycle, sending, sessionVars>>,
         RemoteType', remote'.logs = remote.logs, ~Served'
  PROVE  SkipInv'
<1> DEFINE k == sockets[Generation]
           new == sockets'[Generation]
           frames == <<f>>
<1>1. PipesHold(sockets) /\ LogsType(remote.logs) /\ gateway \in GatewayRecord
      /\ gateway.sequence \in Nat
  BY DEF SkipInv, RemoteType, SessionsKnown, GatewayRecord
<1>2. frames \in Seq(Events) /\ NoDispatch(frames)
  BY NoDispatchOne
<1>3. /\ PipeType(k) /\ k.stage = "open" /\ new = [k EXCEPT !.incoming = frames]
      /\ DOMAIN sockets' = Connection
      /\ \A d \in Connection : d # Generation => sockets'[d] = sockets[d]
  BY <1>1 DEF Attached, PipesHold
<1>4. Coming = Pipe(k) /\ Coming' = Pipe(new)
  BY DEF Coming, ComingIn, Generation
<1> HIDE DEF frames, k, new
<1>5. PipeType(new) /\ Pipe(new) = AtPump(k) \o frames
  BY <1>2, <1>3, BrokenPipe
<1>6. /\ AtPump(k) \in Seq(Events) /\ k.incoming \in Seq(Events)
      /\ Coming = AtPump(k) \o k.incoming /\ Coming' = AtPump(k) \o frames
  BY <1>3, <1>4, <1>5, AtPumpType DEF Pipe
<1>7. PipesHold(sockets)'
  BY <1>1, <1>3, <1>5 DEF PipesHold, new
<1>8. Follows(AtPump(k) \o frames, gateway.session, gateway.sequence, remote.logs)
  <2>1. Follows(AtPump(k) \o k.incoming, gateway.session, gateway.sequence, remote.logs)
    BY <1>6 DEF SkipInv, InOrder
  <2>2. Follows(AtPump(k), gateway.session, gateway.sequence, remote.logs)
    BY <1>1, <1>6, <2>1, FollowsFirst
  <2> QED BY <1>2, <1>6, <2>2, FollowsMore
<1>9. Waiting => NoDispatch(AtPump(k) \o frames)
  <2>1. Waiting => NoDispatch(AtPump(k) \o k.incoming)
    BY <1>6 DEF SkipInv, InOrder
  <2> QED BY <1>2, <1>6, <2>1, NothingFirst, NothingMore
<1>10. Waiting' = Waiting
  BY DEF Waiting
<1>11. InOrder'
  BY <1>6, <1>8, <1>9, <1>10 DEF InOrder
<1>12. SessionsKnown'
  BY <1>1, SameLogs, SessionsStay DEF sessionVars, inboundVars, Taken
<1>13. Agrees'
  BY DEF SkipInv, Agrees, IsLive, Generation
<1> QED BY <1>7, <1>11, <1>12, <1>13 DEF SkipInv

(* A remote end whose logs stay. *)
LEMMA RemoteShape ==
  ASSUME RemoteType, NEW bound \in BOOLEAN, NEW current \in {0, remote.current},
         NEW attached \in {0, remote.attached},
         remote' = [remote EXCEPT !.attached = attached, !.bound = bound, !.current = current]
  PROVE  /\ RemoteType' /\ remote'.logs = remote.logs /\ remote'.current = current
         /\ remote'.attached = attached /\ remote'.bound = bound
<1> DEFINE logs == Seq(Seq(Dispatches))
           R == [current : Nat, attached : Connection \cup {0}, bound : BOOLEAN,
                 messages : Nat, logs : logs]
<1>1. /\ remote \in R /\ LogsType(remote.logs) /\ remote.current <= Len(remote.logs)
      /\ remote.current \in Nat
  BY DEF RemoteType
<1>2. Len(remote.logs) \in Nat
  BY <1>1, LogsAre
<1>3. current \in Nat /\ current <= Len(remote.logs) /\ attached \in Connection \cup {0}
  BY <1>1, <1>2
<1> HIDE DEF logs
<1>4. /\ remote' \in R /\ remote'.logs = remote.logs /\ remote'.current = current
      /\ remote'.attached = attached /\ remote'.bound = bound
  BY <1>1, <1>3
<1> QED BY <1>1, <1>3, <1>4 DEF RemoteType, logs

LEMMA AgreesStill ==
  ASSUME SkipInv, UNCHANGED <<gateway, cycle, sending>>
  PROVE  Agrees' /\ Waiting' = Waiting /\ gateway \in GatewayRecord
BY DEF SkipInv, Agrees, IsLive, Generation, Waiting, SessionsKnown

(* Without a connection the remote end serves nobody. *)
LEMMA NotServed ==
  ASSUME remote'.attached = 0 \/ ~remote'.bound
  PROVE  ~Served'
BY SocketAssumption DEF Served, Attached

LEMMA RemoteGoesSkip ==
  ASSUME DiscordInv, SkipInv, RemoteGoes
  PROVE  SkipInv'
<1>1. /\ remote.attached # 0 /\ Attached(remote.attached)
      /\ UNCHANGED <<gateway, cycle, sending, sessionVars>> /\ RemoteType
      /\ LogsType(remote.logs)
  BY DEF RemoteGoes, SkipInv, RemoteType
<1>2. Agrees' /\ Waiting' = Waiting /\ gateway \in GatewayRecord
  BY <1>1, AgreesStill
<1>3. CASE UNCHANGED sockets /\ remote' = [remote EXCEPT !.attached = 0, !.bound = FALSE]
  <2>1. remote' = [remote EXCEPT !.attached = 0, !.bound = FALSE, !.current = remote.current]
    BY <1>1, <1>3 DEF RemoteType
  <2>2. RemoteType' /\ remote'.logs = remote.logs /\ ~Served'
    BY <1>1, <2>1, RemoteShape, NotServed
  <2>3. LogsGrow(remote.logs, remote'.logs) /\ Taken' = Taken
    BY <1>1, <2>2, SameLogs DEF sessionVars, inboundVars, Taken
  <2> QED BY <1>1, <1>2, <1>3, <2>2, <2>3, StillSkip DEF sessionVars
<1>4. ASSUME NEW code \in Closing,
             sockets' = IF code = "abnormal"
                        THEN [sockets EXCEPT ![remote.attached].incoming = <<Frame(code)>>]
                        ELSE Sent(sockets, <<Frame(code)>>),
             remote' = [remote EXCEPT !.attached = 0, !.bound = FALSE,
                                      !.current = IF code = "fresh" THEN 0 ELSE @]
      PROVE  SkipInv'
  <2> DEFINE f == Frame(code)
             frames == <<f>>
             current == IF code = "fresh" THEN 0 ELSE remote.current
  <2>1. f \in Events /\ ~IsDispatch(f) /\ frames \in Seq(Events) /\ NoDispatch(frames)
    BY Frames
  <2>2. /\ current \in {0, remote.current} /\ FALSE \in BOOLEAN
        /\ remote' = [remote EXCEPT !.attached = 0, !.bound = FALSE, !.current = current]
    BY <1>4
  <2>3. CASE code = "abnormal"
    <3>1. sockets' = [sockets EXCEPT ![remote.attached].incoming = <<f>>]
      BY <1>4, <2>3
    <3> HIDE DEF f, frames, current
    <3>2. RemoteType' /\ remote'.logs = remote.logs /\ ~Served'
      BY <1>1, <2>2, RemoteShape, NotServed
    <3>3. remote.attached = Generation /\ Generation \in Connection /\ Attached(Generation)
      BY <1>1, AttachedIsCurrent
    <3> QED BY <1>1, <2>1, <3>1, <3>2, <3>3, BrokenSkip
  <2>4. CASE code # "abnormal"
    <3>1. sockets' = Sent(sockets, frames)
      BY <1>4, <2>4
    <3> HIDE DEF f, frames, current
    <3>2. RemoteType' /\ remote'.logs = remote.logs /\ ~Served'
      BY <1>1, <2>2, RemoteShape, NotServed
    <3> QED BY <1>1, <1>2, <2>1, <3>1, <3>2, WrittenSkip
  <2> QED BY <2>3, <2>4
<1> QED BY <1>3, <1>4 DEF RemoteGoes

LEMMA RemoteAsksSkip ==
  ASSUME DiscordInv, SkipInv, RemoteAsks
  PROVE  SkipInv'
<1>1. PICK op \in {"beat", "reconnect", "invalid", "invalidResumable"} :
        /\ sockets' = Sent(sockets, <<Frame(op)>>)
        /\ remote' = IF op = "invalid" THEN [remote EXCEPT !.current = 0, !.bound = FALSE]
                     ELSE remote
  BY DEF RemoteAsks
<1>2. /\ Attached(remote.attached) /\ UNCHANGED <<gateway, cycle, sending, sessionVars>>
      /\ RemoteType
  BY DEF RemoteAsks, SkipInv
<1>3. Agrees' /\ Waiting' = Waiting /\ gateway \in GatewayRecord
  BY <1>2, AgreesStill
<1> DEFINE frames == <<Frame(op)>>
<1>4. frames \in Seq(Events) /\ NoDispatch(frames) /\ sockets' = Sent(sockets, frames)
  BY <1>1, Frames DEF Ops, Dispatches
<1> HIDE DEF frames
<1>5. CASE op = "invalid"
  <2>1. remote' = [remote EXCEPT !.attached = remote.attached, !.bound = FALSE, !.current = 0]
    BY <1>1, <1>2, <1>5 DEF RemoteType
  <2>2. RemoteType' /\ remote'.logs = remote.logs /\ ~Served'
    BY <1>2, <2>1, RemoteShape, NotServed
  <2> QED BY <1>2, <1>3, <1>4, <2>2, WrittenSkip
<1>6. CASE op # "invalid"
  <2>1. UNCHANGED remote
    BY <1>1, <1>6
  <2>2. RemoteType' /\ Served' = Served
    BY <1>2, <1>4, <2>1, ServedKept DEF RemoteType
  <2> QED BY <1>2, <1>3, <1>4, <2>1, <2>2, WrittenSkip
<1> QED BY <1>5, <1>6

LEMMA RemoteForgetsSkip ==
  ASSUME SkipInv, RemoteForgets
  PROVE  SkipInv'
<1>1. /\ ~remote.bound /\ UNCHANGED <<gateway, cycle, sending, sockets, sessionVars>>
      /\ RemoteType /\ LogsType(remote.logs) /\ remote' = [remote EXCEPT !.current = 0]
  BY DEF RemoteForgets, SkipInv, RemoteType
<1>2. Agrees' /\ Waiting' = Waiting /\ gateway \in GatewayRecord
  BY <1>1, AgreesStill
<1>3. remote' = [remote EXCEPT !.attached = remote.attached, !.bound = remote.bound, !.current = 0]
      /\ remote.bound \in BOOLEAN
  BY <1>1 DEF RemoteType
<1>4. RemoteType' /\ remote'.logs = remote.logs /\ ~Served'
  BY <1>1, <1>3, RemoteShape, NotServed
<1>5. LogsGrow(remote.logs, remote'.logs) /\ Taken' = Taken
  BY <1>1, <1>4, SameLogs DEF sessionVars, inboundVars, Taken
<1> QED BY <1>1, <1>2, <1>4, <1>5, StillSkip DEF sessionVars

LEMMA QuietSkip ==
  ASSUME SkipInv, UNCHANGED discordVars
  PROVE  SkipInv'
<1>1. UNCHANGED <<gateway, cycle, sending, sockets, sessionVars, remote>>
  BY DEF discordVars, sessionVars, inboundVars
<1>2. Agrees' /\ Waiting' = Waiting /\ gateway \in GatewayRecord
  BY <1>1, AgreesStill
<1>3. RemoteType' /\ LogsGrow(remote.logs, remote'.logs)
  BY <1>1, SameRemote
<1>4. Served' = Served /\ Taken' = Taken
  BY <1>1 DEF Served, Attached, Generation, Taken, sessionVars, inboundVars
<1> QED BY <1>1, <1>2, <1>3, <1>4, StillSkip DEF sessionVars

LEMMA SkipInit == DiscordInit => SkipInv
<1> SUFFICES ASSUME DiscordInit PROVE SkipInv
  OBVIOUS
<1>1. PipesHold(sockets) /\ (Generation \in Connection => sockets[Generation].stage # "open")
  <2>1. sockets = [c \in Connection |-> Socket("none")]
    BY DEF DiscordInit, SocketInit
  <2>2. PipeType(Socket("none")) /\ Socket("none").stage # "open"
    BY FreshPipe DEF Socket
  <2> QED BY <2>1, <2>2 DEF PipesHold
<1>2. /\ gateway \in GatewayRecord /\ gateway.session = 0 /\ gateway.sequence = 0
      /\ gateway.phase = "idle" /\ gateway.generation = 0
  BY DEF DiscordInit, Initial, NoSession, Session, GatewayRecord, Phases
<1>3. RemoteType
  <2>1. Len(<<>>) = 0 /\ 1 .. 0 = {} /\ <<>> \in Seq(Seq(Dispatches))
    BY EmptySeq
  <2>2. LogsType(<<>>)
    BY <2>1 DEF LogsType
  <2>3. remote = [current |-> 0, attached |-> 0, bound |-> FALSE, messages |-> 0, logs |-> <<>>]
    BY DEF DiscordInit
  <2> DEFINE L == Seq(Seq(Dispatches))
             none == <<>>
  <2>4. none \in L
    BY <2>1
  <2> HIDE DEF L, none
  <2>5. remote \in [current : Nat, attached : Connection \cup {0}, bound : BOOLEAN,
                    messages : Nat, logs : L]
    BY <2>3, <2>4 DEF none
  <2> QED BY <2>1, <2>2, <2>3, <2>5 DEF RemoteType, L
<1>4. SessionsKnown
  <2>1. Held(0, 0, remote.logs, Taken)
    BY <1>3, NoneHeld DEF RemoteType
  <2>2. \A x \in {stored} \cup saving \cup desired : x.session = 0 /\ x.sequence = 0
    BY DEF DiscordInit, NoSession, Session
  <2> QED BY <1>2, <2>1, <2>2 DEF SessionsKnown
<1>5. InOrder
  <2>1. Coming = <<>>
    BY <1>1, NothingInPipe DEF Coming, ComingIn, PipesHold
  <2>2. ~Served
    BY <1>1 DEF Served, Attached
  <2> QED BY <2>1, <2>2, NothingOnTheWay DEF InOrder
<1>6. Agrees
  BY <1>2 DEF DiscordInit, Agrees, IsLive, Live
<1> QED BY <1>1, <1>3, <1>4, <1>5, <1>6 DEF SkipInv

LEMMA SkipStep ==
  ASSUME DiscordInv, SkipInv, [DiscordNext]_discordVars
  PROVE  DiscordInv' /\ SkipInv'
<1>1. DiscordInv'
  BY DiscordStep
<1>2. CASE UNCHANGED discordVars
  BY <1>1, <1>2, QuietSkip
<1>3. CASE Opening \/ Reconnect \/ ResolveFails \/ OpenFails
  BY <1>1, <1>3, OpeningSkip
<1>4. CASE Receiving
  BY <1>1, <1>4, ReceivingSkip
<1>5. CASE (\E c \in Connection : FrameRejected(c)) \/ SocketsAborted
  BY <1>1, <1>5, LostSkip
<1>6. CASE SendFrame \/ SendRefused
  BY <1>1, <1>6, SendingSkip
<1>7. CASE Timeout \/ Heartbeat \/ HeartbeatFails \/ HeartbeatIdle
  BY <1>1, <1>7, TimerSkip
<1>8. CASE SaveEnds \/ IngestEnds
  BY <1>1, <1>8, StoringSkip
<1>9. CASE Stop \/ ForgetStored \/ RegisterAgain \/ Crash
  BY <1>1, <1>9, StopSkip
<1>10. CASE RemoteMessage \/ RemoteGoes \/ RemoteAsks \/ RemoteForgets
  BY <1>1, <1>10, RemoteMessageSkip, RemoteGoesSkip, RemoteAsksSkip, RemoteForgetsSkip
<1> QED BY <1>2, <1>3, <1>4, <1>5, <1>6, <1>7, <1>8, <1>9, <1>10 DEF DiscordNext

(* The gateway never resumes past a message it has not handed over: a dispatch  *)
(* that comes is the next one of the session's log, and what reads the sequence *)
(* number after closes, replays, restarts and stale saves has it from a state   *)
(* in which all up to it were taken (channel-discord gateway.ts, dispatch;      *)
(* runtime.ts, #enqueuePersist and #emitInbound).                               *)
THEOREM NothingSkipped == DiscordSpec => []NothingIsSkipped
<1>1. DiscordInit => DiscordInv /\ SkipInv
  BY SkipInit, DiscordStarts
<1>2. DiscordInv /\ SkipInv /\ [DiscordNext]_discordVars => (DiscordInv /\ SkipInv)'
  BY SkipStep
<1>3. DiscordInv /\ SkipInv => NothingIsSkipped
  BY DEF SkipInv, SessionsKnown, Held, Taken, NothingIsSkipped
<1> QED BY <1>1, <1>2, <1>3, PTL DEF DiscordSpec

==============================================================================
