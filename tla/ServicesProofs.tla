---------------------------- MODULE ServicesProofs ----------------------------
(* The safety of what the kernel and its services keep for plugins: the grants  *)
(* of the OAuth service, the tasks of the scheduler, the instances of a graph.  *)
EXTENDS OAuthGrants, SchedulerCore, GraphInstance, SequenceTheorems, TLAPS

--------------------------------------------------------------------------------
(* OAuthGrants: a disconnected grant stays away, for any number of calls,       *)
(* generations and restarts.                                                    *)


Awaiting(c) == At(c, "waiting") \/ At(c, "exchanging")

(* What waits for tokens took its generation before the disconnects that count, *)
(* so that it will not be current.                                              *)
GenerationsAreOld ==
  \A c \in Call : Awaiting(c) =>
    calls[c].gen <= generation /\ (clean # {} => calls[c].gen < generation)

(* A queued write is the only one of a call that waits for it. *)
WritesAreAwaited ==
  /\ \A i \in 1 .. Len(writes) : At(writes[i].call, "writing")
  /\ \A i, j \in 1 .. Len(writes) : i # j => writes[i].call # writes[j].call

(* No grant is queued behind the write of a disconnect that counts: the store   *)
(* carries out its writes in order, so those before it do no harm.              *)
NoGrantBehind ==
  \A i \in 1 .. Len(writes) :
    writes[i].call \in clean => \A j \in i .. Len(writes) : ~writes[j].grant

GrantsInv == /\ OAuthTypeOK
        /\ GenerationsAreOld
        /\ WritesAreAwaited
        /\ NoGrantBehind
        /\ DisconnectedIsGone

LEMMA GrantsInvInit == OAuthInit => GrantsInv
<1> SUFFICES ASSUME OAuthInit PROVE GrantsInv
  OBVIOUS
<1>1. /\ generation = 0 /\ boots = 0 /\ writes = <<>> /\ clean = {} /\ refreshing = {}
      /\ vault = FALSE /\ serving = TRUE /\ calls = [c \in Call |-> Fresh]
  BY DEF OAuthInit
<1>2. OAuthTypeOK
  <2>1. 0 \in 0 .. MaxGeneration /\ 0 \in 0 .. MaxBoots
    BY OAuthAssumption
  <2>2. Fresh \in [kind : {"connect", "token", "disconnect"}, pc : Pc,
                   gen : 0 .. MaxGeneration, found : BOOLEAN,
                   cancelled : BOOLEAN, aborted : BOOLEAN]
    BY <2>1 DEF Fresh, Pc
  <2>3. writes \in Seq([call : Call, grant : BOOLEAN])
    BY <1>1, EmptySeq
  <2> QED BY <1>1, <2>1, <2>2, <2>3 DEF OAuthTypeOK
<1>3. \A c \in Call : calls[c].pc = "new"
  BY <1>1 DEF Fresh
<1>4. Len(writes) = 0
  BY <1>1
<1>5. GenerationsAreOld
  BY <1>3 DEF GenerationsAreOld, Awaiting, At
<1>6. WritesAreAwaited /\ NoGrantBehind
  BY <1>4 DEF WritesAreAwaited, NoGrantBehind
<1>7. DisconnectedIsGone
  BY <1>1 DEF DisconnectedIsGone
<1> QED BY <1>2, <1>5, <1>6, <1>7 DEF GrantsInv

(* Writes are queued by calls. *)
LEMMA QueuedWrites ==
  ASSUME OAuthTypeOK
  PROVE  \A i \in 1 .. Len(writes) : writes[i].call \in Call /\ writes[i].grant \in BOOLEAN
<1>1. writes \in Seq([call : Call, grant : BOOLEAN])
  BY DEF OAuthTypeOK
<1>2. \A i \in 1 .. Len(writes) : writes[i] \in [call : Call, grant : BOOLEAN]
  BY <1>1, ElementOfSeq
<1> QED BY <1>2

(* An action that queues nothing, starts no wait for tokens and lets no         *)
(* generation go back: calls only leave the places the invariant speaks of.     *)
LEMMA QuietStep ==
  ASSUME GrantsInv, OAuthTypeOK',
         writes' = writes, vault' = vault, generation <= generation',
         \A c \in Call : /\ At(c, "writing") => At(c, "writing")'
                         /\ Awaiting(c)' => Awaiting(c) /\ calls'[c].gen = calls[c].gen
                         /\ At(c, "gone")' => At(c, "gone"),
         \/ clean' \subseteq clean
         \/ /\ generation < generation'
            /\ \A c \in clean' \ clean : ~At(c, "writing") /\ ~At(c, "gone")'
  PROVE  GrantsInv'
<1>1. /\ generation \in Nat /\ generation' \in Nat
      /\ \A c \in Call : calls[c].gen \in Nat
      /\ clean \subseteq Call /\ clean' \subseteq Call
  BY OAuthAssumption DEF GrantsInv, OAuthTypeOK
<1>2. \A i \in 1 .. Len(writes) : writes[i].call \in Call
  BY QueuedWrites DEF GrantsInv
<1>3. GenerationsAreOld'
  BY <1>1 DEF GrantsInv, GenerationsAreOld
<1>4. WritesAreAwaited'
  <2>1. \A i \in 1 .. Len(writes) : At(writes[i].call, "writing")'
    BY <1>2 DEF GrantsInv, WritesAreAwaited
  <2>2. \A i, j \in 1 .. Len(writes) : i # j => writes[i].call # writes[j].call
    BY DEF GrantsInv, WritesAreAwaited
  <2> QED BY <2>1, <2>2 DEF WritesAreAwaited, At
<1>5. NoGrantBehind'
  <2> SUFFICES ASSUME NEW i \in 1 .. Len(writes), writes[i].call \in clean'
               PROVE  \A j \in i .. Len(writes) : ~writes[j].grant
    BY DEF NoGrantBehind
  <2>1. At(writes[i].call, "writing")
    BY DEF GrantsInv, WritesAreAwaited
  <2> QED BY <2>1 DEF GrantsInv, NoGrantBehind
<1>6. DisconnectedIsGone'
  <2> SUFFICES ASSUME NEW c \in clean', At(c, "gone")'
               PROVE  ~vault /\ \A i \in 1 .. Len(writes) : ~writes[i].grant
    BY DEF DisconnectedIsGone
  <2>1. c \in clean /\ At(c, "gone")
    BY <1>1
  <2> QED BY <2>1 DEF GrantsInv, DisconnectedIsGone
<1> QED BY <1>3, <1>4, <1>5, <1>6 DEF GrantsInv

CallRecord == [kind : {"connect", "token", "disconnect"}, pc : Pc, gen : 0 .. MaxGeneration,
               found : BOOLEAN, cancelled : BOOLEAN, aborted : BOOLEAN]

(* A call goes on, and those that joined its refresh may settle with it. *)
LEMMA SettledType ==
  ASSUME OAuthTypeOK, NEW c \in Call, NEW pc \in Pc, Settled(c, pc)
  PROVE  /\ calls' \in [Call -> CallRecord]
         /\ refreshing' \subseteq Call
         /\ calls'[c] = [calls[c] EXCEPT !.pc = pc]
         /\ At(c, pc)'
         /\ \A d \in Call \ {c} : calls'[d] = calls[d] \/ (At(d, "joined") /\ At(d, "done")')
<1>1. calls \in [Call -> CallRecord]
  BY DEF OAuthTypeOK, CallRecord
<1>2. \A d \in Call : /\ [calls[d] EXCEPT !.pc = pc] \in CallRecord
                      /\ [calls[d] EXCEPT !.pc = "done"] \in CallRecord
  BY <1>1 DEF CallRecord, Pc
<1>3. calls' \in [Call -> CallRecord]
  BY <1>1, <1>2 DEF Settled
<1>4. calls'[c] = [calls[c] EXCEPT !.pc = pc] /\ calls'[c].pc = pc
  BY <1>1 DEF Settled, CallRecord
<1>5. \A d \in Call \ {c} : calls'[d] = calls[d] \/ (At(d, "joined") /\ calls'[d].pc = "done")
  BY <1>1 DEF Settled, CallRecord
<1>6. refreshing' \subseteq Call
  BY DEF Settled, OAuthTypeOK
<1> QED BY <1>3, <1>4, <1>5, <1>6 DEF At

(* A call that settles without a write of the store. *)
LEMMA SettledInv ==
  ASSUME GrantsInv, NEW c \in Call, Settled(c, "done"), ~At(c, "writing"),
         UNCHANGED <<vault, writes, generation, serving, clean, boots>>
  PROVE  GrantsInv'
<1>1. OAuthTypeOK
  BY DEF GrantsInv
<1>2. /\ calls' \in [Call -> CallRecord]
      /\ refreshing' \subseteq Call
      /\ At(c, "done")'
      /\ \A d \in Call \ {c} : calls'[d] = calls[d] \/ (At(d, "joined") /\ At(d, "done")')
  BY <1>1, SettledType DEF Pc
<1>3. OAuthTypeOK'
  BY <1>1, <1>2 DEF OAuthTypeOK, CallRecord
<1>4. \A d \in Call : /\ At(d, "writing") => At(d, "writing")'
                      /\ Awaiting(d)' => Awaiting(d) /\ calls'[d].gen = calls[d].gen
                      /\ At(d, "gone")' => At(d, "gone")
  BY <1>2 DEF At, Awaiting
<1>5. generation <= generation'
  BY <1>1 DEF OAuthTypeOK
<1> QED BY <1>3, <1>4, <1>5, QuietStep

(* One call goes on without a write and without beginning to wait. *)
LEMMA OneCallInv ==
  ASSUME GrantsInv, NEW c \in Call, NEW e \in CallRecord,
         calls' = [calls EXCEPT ![c] = e],
         e.pc = calls[c].pc \/ (calls[c].pc # "writing" /\ e.pc \notin {"gone", "waiting",
                                                                        "exchanging"}),
         e.gen = calls[c].gen,
         UNCHANGED <<vault, writes, generation, serving, refreshing, clean, boots>>
  PROVE  GrantsInv'
<1>1. OAuthTypeOK /\ calls \in [Call -> CallRecord]
  BY DEF GrantsInv, OAuthTypeOK, CallRecord
<1>2. calls' \in [Call -> CallRecord] /\ calls'[c] = e
      /\ \A d \in Call \ {c} : calls'[d] = calls[d]
  BY <1>1
<1>3. OAuthTypeOK'
  BY <1>1, <1>2 DEF OAuthTypeOK, CallRecord
<1>4. \A d \in Call : /\ At(d, "writing") => At(d, "writing")'
                      /\ Awaiting(d)' => Awaiting(d) /\ calls'[d].gen = calls[d].gen
                      /\ At(d, "gone")' => At(d, "gone")
  BY <1>2 DEF At, Awaiting
<1>5. generation <= generation'
  BY <1>1 DEF OAuthTypeOK
<1> QED BY <1>3, <1>4, <1>5, QuietStep

(* A write is queued; a grant only when no disconnect counts. *)
LEMMA QueueInv ==
  ASSUME GrantsInv, NEW c \in Call, NEW grant \in BOOLEAN, grant => clean = {},
         ~At(c, "writing"),
         calls' = [calls EXCEPT ![c] = [calls[c] EXCEPT !.pc = "writing"]],
         EnqueueWrite(c, grant),
         UNCHANGED <<vault, generation, serving, refreshing, clean, boots>>
  PROVE  GrantsInv'
<1> DEFINE w == [call |-> c, grant |-> grant]
           Queued == [call : Call, grant : BOOLEAN]
<1>1. OAuthTypeOK /\ calls \in [Call -> CallRecord] /\ writes \in Seq(Queued) /\ w \in Queued
  BY DEF GrantsInv, OAuthTypeOK, CallRecord
<1>2. [calls[c] EXCEPT !.pc = "writing"] \in CallRecord
      /\ [calls[c] EXCEPT !.pc = "writing"].pc = "writing"
  BY <1>1 DEF CallRecord, Pc
<1>3. /\ calls' \in [Call -> CallRecord] /\ calls'[c].pc = "writing"
      /\ \A d \in Call \ {c} : calls'[d] = calls[d]
  BY <1>1, <1>2
<1>4. /\ writes' \in Seq(Queued) /\ Len(writes') = Len(writes) + 1
      /\ \A i \in 1 .. Len(writes) : writes'[i] = writes[i]
      /\ writes'[Len(writes) + 1] = w
      /\ Len(writes) \in Nat
  BY <1>1, AppendProperties, LenProperties DEF EnqueueWrite
<1>5. OAuthTypeOK'
  BY <1>1, <1>3, <1>4 DEF OAuthTypeOK, CallRecord
<1>6. GenerationsAreOld'
  <2>1. \A d \in Call : Awaiting(d)' => Awaiting(d) /\ calls'[d].gen = calls[d].gen
    BY <1>3 DEF Awaiting, At
  <2> QED BY <2>1 DEF GrantsInv, GenerationsAreOld
<1>7. \A i \in 1 .. Len(writes) : /\ writes[i].call \in Call
                                  /\ At(writes[i].call, "writing")
                                  /\ writes[i].call # c
  BY <1>1, QueuedWrites DEF GrantsInv, WritesAreAwaited
<1>8. WritesAreAwaited'
  <2>1. \A i \in 1 .. Len(writes') : calls'[writes'[i].call].pc = "writing"
    <3> SUFFICES ASSUME NEW i \in 1 .. Len(writes')
                 PROVE  calls'[writes'[i].call].pc = "writing"
      OBVIOUS
    <3>1. i \in 1 .. Len(writes) \/ i = Len(writes) + 1
      BY <1>4
    <3> QED BY <1>3, <1>4, <1>7, <3>1 DEF At
  <2>2. \A i, j \in 1 .. Len(writes) : i # j => writes[i].call # writes[j].call
    BY DEF GrantsInv, WritesAreAwaited
  <2>3. \A i, j \in 1 .. Len(writes') : i # j => writes'[i].call # writes'[j].call
    BY <1>4, <1>7, <2>2
  <2> QED BY <2>1, <2>3 DEF WritesAreAwaited, At
<1>9. NoGrantBehind'
  <2>1. CASE clean = {}
    BY <2>1 DEF NoGrantBehind
  <2>2. CASE ~grant
    <3> SUFFICES ASSUME NEW i \in 1 .. Len(writes'), writes'[i].call \in clean,
                        NEW j \in i .. Len(writes')
                 PROVE  ~writes'[j].grant
      BY DEF NoGrantBehind
    <3>1. CASE j = Len(writes) + 1
      BY <1>4, <2>2, <3>1
    <3>2. CASE j # Len(writes) + 1
      <4>1. i \in 1 .. Len(writes) /\ j \in i .. Len(writes) /\ j \in 1 .. Len(writes)
        BY <1>4, <3>2
      <4> QED BY <1>4, <4>1 DEF GrantsInv, NoGrantBehind
    <3> QED BY <3>1, <3>2
  <2> QED BY <2>1, <2>2
<1>10. DisconnectedIsGone'
  <2> SUFFICES ASSUME NEW d \in clean, At(d, "gone")'
               PROVE  ~vault /\ \A i \in 1 .. Len(writes') : ~writes'[i].grant
    BY DEF DisconnectedIsGone
  <2>1. d \in Call /\ d # c /\ At(d, "gone") /\ ~grant
    <3>1. d \in Call
      BY DEF GrantsInv, OAuthTypeOK
    <3>2. d # c
      BY <1>3 DEF At
    <3>3. At(d, "gone")
      BY <1>3, <3>1, <3>2 DEF At
    <3> QED BY <3>1, <3>2, <3>3
  <2>2. ~vault /\ \A i \in 1 .. Len(writes) : ~writes[i].grant
    BY <2>1 DEF GrantsInv, DisconnectedIsGone
  <2>3. \A i \in 1 .. Len(writes') : i \in 1 .. Len(writes) \/ i = Len(writes) + 1
    BY <1>4
  <2>4. ~w.grant
    BY <2>1
  <2> QED BY <1>4, <2>2, <2>3, <2>4
<1> QED BY <1>5, <1>6, <1>8, <1>9, <1>10 DEF GrantsInv

(* The store carries out the first write. *)
LEMMA WriteInv ==
  ASSUME GrantsInv, Write
  PROVE  GrantsInv'
<1> DEFINE Queued == [call : Call, grant : BOOLEAN]
<1>1. OAuthTypeOK /\ calls \in [Call -> CallRecord] /\ writes \in Seq(Queued) /\ writes # <<>>
      /\ UNCHANGED <<generation, serving, clean, boots>>
  BY DEF GrantsInv, OAuthTypeOK, CallRecord, Write
<1>2. /\ writes' \in Seq(Queued) /\ Len(writes) \in Nat /\ Len(writes) >= 1
      /\ Len(writes') = Len(writes) - 1
      /\ Head(writes) = writes[1] /\ writes[1] \in Queued
      /\ \A i \in 1 .. Len(writes') : writes'[i] = writes[i + 1]
  <2>1. writes' = Tail(writes)
    BY DEF Write
  <2>2. /\ Head(writes) \in Queued /\ Tail(writes) \in Seq(Queued)
        /\ Len(Tail(writes)) = Len(writes) - 1
        /\ \A i \in 1 .. Len(Tail(writes)) : Tail(writes)[i] = writes[i + 1]
    BY <1>1, HeadTailProperties
  <2>3. Head(writes) = writes[1]
    BY <1>1
  <2>4. Len(writes) \in Nat /\ Len(writes) # 0
    BY <1>1, EmptySeq, LenProperties
  <2> QED BY <2>1, <2>2, <2>3, <2>4
<1>3. PICK c \in Call, grant \in BOOLEAN : c = writes[1].call /\ grant = writes[1].grant
  BY <1>2
<1>4. PICK pc \in {"done", "gone"} :
        /\ Settled(c, pc)
        /\ pc = "gone" => ~grant /\ vault' = grant
        /\ vault' = grant \/ vault' = vault
  BY <1>2, <1>3 DEF Write
<1>5. /\ calls' \in [Call -> CallRecord]
      /\ refreshing' \subseteq Call
      /\ At(c, pc)'
      /\ \A d \in Call \ {c} : calls'[d] = calls[d] \/ (At(d, "joined") /\ At(d, "done")')
  BY <1>1, <1>4, SettledType DEF Pc
<1>6. pc \in Pc /\ calls'[c].pc = pc
  BY <1>5 DEF At, Pc
<1>7. vault' \in BOOLEAN
  BY <1>1, <1>3, <1>4 DEF OAuthTypeOK
<1>8. OAuthTypeOK'
  BY <1>1, <1>2, <1>5, <1>7 DEF OAuthTypeOK, CallRecord
<1>9. \A d \in Call : /\ At(d, "writing") /\ d # c => calls'[d] = calls[d]
                      /\ Awaiting(d)' => Awaiting(d) /\ calls'[d].gen = calls[d].gen
                      /\ At(d, "gone")' => At(d, "gone") \/ d = c
  BY <1>5, <1>6 DEF At, Awaiting
<1>10. GenerationsAreOld'
  BY <1>1, <1>9 DEF GrantsInv, GenerationsAreOld
<1>11. \A i \in 1 .. Len(writes') : /\ i + 1 \in 1 .. Len(writes)
                                    /\ writes[i + 1].call \in Call
                                    /\ writes[i + 1].call # c
                                    /\ At(writes[i + 1].call, "writing")
  <2> SUFFICES ASSUME NEW i \in 1 .. Len(writes')
               PROVE  /\ i + 1 \in 1 .. Len(writes)
                      /\ writes[i + 1].call \in Call
                      /\ writes[i + 1].call # c
                      /\ At(writes[i + 1].call, "writing")
    OBVIOUS
  <2>1. i + 1 \in 1 .. Len(writes) /\ 1 \in 1 .. Len(writes) /\ i + 1 # 1
    BY <1>2
  <2> QED BY <2>1, <1>1, <1>3, QueuedWrites DEF GrantsInv, WritesAreAwaited
<1>12. WritesAreAwaited'
  <2>1. \A i \in 1 .. Len(writes') : calls'[writes'[i].call].pc = "writing"
    BY <1>2, <1>9, <1>11 DEF At
  <2>2. \A i, j \in 1 .. Len(writes') : i # j => writes'[i].call # writes'[j].call
    <3> SUFFICES ASSUME NEW i \in 1 .. Len(writes'), NEW j \in 1 .. Len(writes'), i # j
                 PROVE  writes'[i].call # writes'[j].call
      OBVIOUS
    <3>1. i + 1 # j + 1
      BY <1>2
    <3> QED BY <1>2, <1>11, <3>1 DEF GrantsInv, WritesAreAwaited
  <2> QED BY <2>1, <2>2 DEF WritesAreAwaited, At
<1>13. NoGrantBehind'
  <2> SUFFICES ASSUME NEW i \in 1 .. Len(writes'), writes'[i].call \in clean,
                      NEW j \in i .. Len(writes')
               PROVE  ~writes'[j].grant
    BY <1>1 DEF NoGrantBehind
  <2>1. /\ j \in 1 .. Len(writes') /\ i + 1 \in 1 .. Len(writes)
        /\ j + 1 \in i + 1 .. Len(writes)
    BY <1>2
  <2> QED BY <1>2, <2>1 DEF GrantsInv, NoGrantBehind
<1>14. DisconnectedIsGone'
  <2> SUFFICES ASSUME NEW e \in clean, At(e, "gone")'
               PROVE  ~vault' /\ \A i \in 1 .. Len(writes') : ~writes'[i].grant
    BY <1>1 DEF DisconnectedIsGone
  <2>1. e \in Call /\ 1 \in 1 .. Len(writes)
    BY <1>1, <1>2 DEF OAuthTypeOK
  <2>2. \A i \in 1 .. Len(writes') : i + 1 \in 1 .. Len(writes)
    BY <1>11
  <2>3. CASE At(e, "gone")
    <3>1. ~vault /\ \A i \in 1 .. Len(writes) : ~writes[i].grant
      BY <2>3 DEF GrantsInv, DisconnectedIsGone
    <3> QED BY <1>2, <1>3, <1>4, <2>1, <2>2, <3>1
  <2>4. CASE e = c
    <3>1. pc = "gone"
      BY <1>6, <2>4 DEF At
    <3>2. \A j \in 1 .. Len(writes) : ~writes[j].grant
      BY <1>2, <1>3, <2>1, <2>4 DEF GrantsInv, NoGrantBehind
    <3> QED BY <1>2, <1>3, <1>4, <2>2, <3>1, <3>2
  <2> QED BY <1>9, <2>1, <2>3, <2>4
<1> QED BY <1>8, <1>10, <1>12, <1>13, <1>14 DEF GrantsInv

(* #abortOwnedKey marks calls and changes nothing else of them. *)
LEMMA AbortedType ==
  ASSUME OAuthTypeOK, NEW c \in Call
  PROVE  /\ [calls[c] EXCEPT !.aborted = TRUE] \in CallRecord
         /\ [calls[c] EXCEPT !.aborted = TRUE].pc = calls[c].pc
         /\ [calls[c] EXCEPT !.aborted = TRUE].gen = calls[c].gen
<1>1. calls[c] \in CallRecord
  BY DEF OAuthTypeOK, CallRecord
<1> QED BY <1>1 DEF CallRecord

(* A disconnect, the end of a plugin or of the service: the generation goes on  *)
(* and calls are told, one of which may be the disconnect that begins.          *)
LEMMA AbortInv ==
  ASSUME GrantsInv, OAuthTypeOK', NEW begun \in SUBSET Call,
         \A c \in begun : calls[c].pc = "new" /\ calls'[c].pc = "loading",
         \A c \in Call \ begun : calls'[c].pc = calls[c].pc /\ calls'[c].gen = calls[c].gen,
         generation' = generation + 1, clean' = clean \cup begun,
         writes' = writes, vault' = vault
  PROVE  GrantsInv'
<1>1. generation \in Nat
  BY OAuthAssumption DEF GrantsInv, OAuthTypeOK
<1>2. \A c \in Call : /\ At(c, "writing") => At(c, "writing")'
                      /\ Awaiting(c)' => Awaiting(c) /\ calls'[c].gen = calls[c].gen
                      /\ At(c, "gone")' => At(c, "gone")
  BY DEF At, Awaiting
<1>3. \A c \in clean' \ clean : ~At(c, "writing") /\ ~At(c, "gone")'
  BY DEF At
<1>4. generation <= generation' /\ generation < generation'
  BY <1>1
<1> QED BY <1>2, <1>3, <1>4, QuietStep

LEMMA AbortOwnedKeyType ==
  ASSUME OAuthTypeOK, generation < MaxGeneration, AbortOwnedKey
  PROVE  /\ calls' \in [Call -> CallRecord]
         /\ generation' \in 0 .. MaxGeneration
         /\ \A c \in Call : calls'[c].pc = calls[c].pc /\ calls'[c].gen = calls[c].gen
<1>1. calls \in [Call -> CallRecord]
  BY DEF OAuthTypeOK, CallRecord
<1>2. \A c \in Call : calls'[c] = calls[c] \/ calls'[c] = [calls[c] EXCEPT !.aborted = TRUE]
  BY <1>1 DEF AbortOwnedKey
<1>3. calls' \in [Call -> CallRecord]
  BY <1>1, AbortedType DEF AbortOwnedKey
<1>4. \A c \in Call : calls'[c].pc = calls[c].pc /\ calls'[c].gen = calls[c].gen
  BY <1>2, AbortedType
<1>5. generation' \in 0 .. MaxGeneration
  BY OAuthAssumption DEF OAuthTypeOK, AbortOwnedKey
<1> QED BY <1>3, <1>4, <1>5

LEMMA DisconnectInv ==
  ASSUME GrantsInv, NEW c \in Call, Disconnect(c)
  PROVE  GrantsInv'
<1> DEFINE e == [Fresh EXCEPT !.kind = "disconnect", !.pc = "loading", !.found = vault]
<1>1. OAuthTypeOK /\ calls \in [Call -> CallRecord] /\ vault \in BOOLEAN /\ clean \subseteq Call
  BY DEF GrantsInv, OAuthTypeOK, CallRecord
<1>2. 0 \in 0 .. MaxGeneration /\ generation' = generation + 1
      /\ generation' \in 0 .. MaxGeneration
  BY OAuthAssumption DEF GrantsInv, OAuthTypeOK, Disconnect
<1>3. e \in CallRecord /\ e.pc = "loading"
  BY <1>1, <1>2 DEF Fresh, CallRecord, Pc
<1>4. /\ calls'[c] = e
      /\ \A d \in Call \ {c} : \/ calls'[d] = calls[d]
                               \/ calls'[d] = [calls[d] EXCEPT !.aborted = TRUE]
      /\ calls' = [d \in Call |-> calls'[d]]
  BY DEF Disconnect
<1>5. \A d \in Call \ {c} : /\ calls'[d] \in CallRecord
                            /\ calls'[d].pc = calls[d].pc /\ calls'[d].gen = calls[d].gen
  BY <1>1, <1>4, AbortedType
<1>6. calls' \in [Call -> CallRecord]
  BY <1>3, <1>4, <1>5
<1>7. OAuthTypeOK'
  BY <1>1, <1>2, <1>6 DEF OAuthTypeOK, CallRecord, Disconnect
<1>8. {c} \in SUBSET Call /\ calls[c].pc = "new" /\ calls'[c].pc = "loading"
  BY <1>3, <1>4 DEF Disconnect, Uncalled, At
<1>9. clean' = clean \cup {c} /\ writes' = writes /\ vault' = vault
  BY DEF Disconnect
<1> QED BY <1>2, <1>5, <1>7, <1>8, <1>9, AbortInv

(* A call takes the generation of now: no disconnect counts any more. *)
LEMMA TakesGenerationInv ==
  ASSUME GrantsInv, NEW c \in Call, NEW e \in CallRecord, ~At(c, "writing"),
         calls' = [calls EXCEPT ![c] = e], e.gen = generation, e.pc # "gone",
         refreshing' \subseteq Call, clean' = {},
         UNCHANGED <<vault, writes, generation, serving, boots>>
  PROVE  GrantsInv'
<1>1. OAuthTypeOK /\ calls \in [Call -> CallRecord] /\ generation \in Nat
  BY OAuthAssumption DEF GrantsInv, OAuthTypeOK, CallRecord
<1>2. /\ calls' \in [Call -> CallRecord] /\ calls'[c] = e
      /\ \A d \in Call \ {c} : calls'[d] = calls[d]
  BY <1>1
<1>3. OAuthTypeOK'
  BY <1>1, <1>2 DEF OAuthTypeOK, CallRecord
<1>4. GenerationsAreOld'
  BY <1>1, <1>2 DEF GrantsInv, GenerationsAreOld, Awaiting, At
<1>5. \A i \in 1 .. Len(writes) : writes[i].call \in Call /\ At(writes[i].call, "writing")
  BY <1>1, QueuedWrites DEF GrantsInv, WritesAreAwaited
<1>6. WritesAreAwaited'
  <2>1. \A i \in 1 .. Len(writes) : calls'[writes[i].call].pc = "writing"
    BY <1>2, <1>5 DEF At
  <2>2. \A i, j \in 1 .. Len(writes) : i # j => writes[i].call # writes[j].call
    BY DEF GrantsInv, WritesAreAwaited
  <2> QED BY <2>1, <2>2 DEF WritesAreAwaited, At
<1>7. NoGrantBehind' /\ DisconnectedIsGone'
  BY DEF NoGrantBehind, DisconnectedIsGone
<1> QED BY <1>3, <1>4, <1>6, <1>7 DEF GrantsInv

LEMMA BootInv ==
  ASSUME GrantsInv, Boot
  PROVE  GrantsInv'
<1> DEFINE e == [Fresh EXCEPT !.pc = "done"]
<1>1. OAuthTypeOK /\ calls \in [Call -> CallRecord] /\ clean \subseteq Call
  BY DEF GrantsInv, OAuthTypeOK, CallRecord
<1>2. 0 \in 0 .. MaxGeneration
  BY OAuthAssumption
<1>3. e \in CallRecord /\ e.pc = "done"
  BY <1>2 DEF Fresh, CallRecord, Pc
<1>4. /\ calls' = [c \in Call |-> IF calls[c].pc \in {"new", "gone"} THEN calls[c] ELSE e]
      /\ writes' = <<>> /\ generation' = 0 /\ serving' = TRUE /\ refreshing' = {}
      /\ vault' = vault /\ boots < MaxBoots /\ boots' = boots + 1
      /\ clean' = {c \in clean : At(c, "gone")}
  BY DEF Boot
<1>5. calls' \in [Call -> CallRecord]
      /\ \A c \in Call : calls'[c].pc \in {"new", "gone", "done"}
  BY <1>1, <1>3, <1>4
<1>6. OAuthTypeOK'
  <2>1. boots' \in 0 .. MaxBoots
    BY <1>1, <1>4, OAuthAssumption DEF OAuthTypeOK
  <2>2. writes' \in Seq([call : Call, grant : BOOLEAN])
    BY <1>4, EmptySeq
  <2> QED BY <1>1, <1>2, <1>4, <1>5, <2>1, <2>2 DEF OAuthTypeOK, CallRecord
<1>7. GenerationsAreOld'
  BY <1>5 DEF GenerationsAreOld, Awaiting, At
<1>8. Len(writes') = 0
  BY <1>4
<1>9. WritesAreAwaited' /\ NoGrantBehind'
  BY <1>8 DEF WritesAreAwaited, NoGrantBehind
<1>10. DisconnectedIsGone'
  BY <1>4, <1>8 DEF GrantsInv, DisconnectedIsGone
<1> QED BY <1>6, <1>7, <1>9, <1>10 DEF GrantsInv

LEMMA CallsStepInv ==
  ASSUME GrantsInv, NEW c \in Call,
         \/ Connect(c) \/ AccessToken(c) \/ TokenLoaded(c) \/ Exchanged(c) \/ Fails(c)
         \/ DisconnectLoaded(c) \/ Revoked(c) \/ CallerAborts(c)
  PROVE  GrantsInv'
<1>1. /\ OAuthTypeOK /\ calls \in [Call -> CallRecord] /\ calls[c] \in CallRecord
      /\ vault \in BOOLEAN /\ generation \in 0 .. MaxGeneration /\ refreshing \subseteq Call
      /\ 0 \in 0 .. MaxGeneration
  BY OAuthAssumption DEF GrantsInv, OAuthTypeOK, CallRecord
<1>2. CASE Connect(c)
  <2>1. [Fresh EXCEPT !.pc = "waiting", !.gen = generation] \in CallRecord
    BY <1>1 DEF Fresh, CallRecord, Pc
  <2> QED BY <1>1, <1>2, <2>1, TakesGenerationInv DEF Connect, Uncalled, At, Fresh
<1>3. CASE AccessToken(c)
  <2>1. [Fresh EXCEPT !.kind = "token", !.pc = "loading", !.found = vault] \in CallRecord
    BY <1>1 DEF Fresh, CallRecord, Pc
  <2> DEFINE e == [Fresh EXCEPT !.kind = "token", !.pc = "loading", !.found = vault]
  <2>2. calls[c].pc = "new" /\ e.pc = "loading"
    BY <1>3 DEF AccessToken, Uncalled, At, Fresh
  <2>3. OAuthTypeOK'
    BY <1>1, <1>3, <2>1 DEF AccessToken, OAuthTypeOK, CallRecord
  <2>4. /\ calls'[c] = e /\ \A d \in Call \ {c} : calls'[d] = calls[d]
        /\ writes' = writes /\ vault' = vault /\ generation' = generation /\ clean' = clean
    BY <1>1, <1>3 DEF AccessToken
  <2>5. \A d \in Call : /\ At(d, "writing") => At(d, "writing")'
                        /\ Awaiting(d)' => Awaiting(d) /\ calls'[d].gen = calls[d].gen
                        /\ At(d, "gone")' => At(d, "gone")
    BY <2>2, <2>4 DEF At, Awaiting
  <2>6. generation <= generation'
    BY <1>1, <2>4
  <2> QED BY <2>3, <2>4, <2>5, <2>6, QuietStep
<1>4. CASE TokenLoaded(c)
  <2>1. CASE Settled(c, "done") /\ UNCHANGED clean
    BY <1>4, <2>1, SettledInv DEF TokenLoaded, At
  <2>2. CASE /\ calls' = [calls EXCEPT ![c] = [calls[c] EXCEPT !.pc = "joined"]]
             /\ UNCHANGED <<refreshing, clean>>
    <3>1. /\ [calls[c] EXCEPT !.pc = "joined"] \in CallRecord
          /\ [calls[c] EXCEPT !.pc = "joined"].pc = "joined"
          /\ [calls[c] EXCEPT !.pc = "joined"].gen = calls[c].gen
      BY <1>1 DEF CallRecord, Pc
    <3> QED BY <1>4, <2>2, <3>1, OneCallInv DEF TokenLoaded, At
  <2>3. CASE /\ calls' = [calls EXCEPT ![c] = [calls[c] EXCEPT !.pc = "exchanging",
                                                             !.gen = generation]]
             /\ refreshing' = {c} /\ clean' = {}
    <3>1. /\ [calls[c] EXCEPT !.pc = "exchanging", !.gen = generation] \in CallRecord
          /\ [calls[c] EXCEPT !.pc = "exchanging", !.gen = generation].pc = "exchanging"
          /\ [calls[c] EXCEPT !.pc = "exchanging", !.gen = generation].gen = generation
      BY <1>1 DEF CallRecord, Pc
    <3> QED BY <1>4, <2>3, <3>1, TakesGenerationInv DEF TokenLoaded, At
  <2> QED BY <1>4, <2>1, <2>2, <2>3 DEF TokenLoaded
<1>5. CASE Exchanged(c)
  <2>1. clean = {}
    BY <1>1, <1>5 DEF GrantsInv, GenerationsAreOld, Exchanged, Current, Awaiting
  <2> QED BY <1>5, <2>1, QueueInv DEF Exchanged, At
<1>6. CASE Fails(c)
  BY <1>6, SettledInv DEF Fails, At
<1>7. CASE DisconnectLoaded(c)
  <2>1. CASE /\ calls' = [calls EXCEPT ![c] = [calls[c] EXCEPT !.pc = "revoking"]]
             /\ UNCHANGED <<writes, refreshing>>
    <3>1. /\ [calls[c] EXCEPT !.pc = "revoking"] \in CallRecord
          /\ [calls[c] EXCEPT !.pc = "revoking"].pc = "revoking"
          /\ [calls[c] EXCEPT !.pc = "revoking"].gen = calls[c].gen
      BY <1>1 DEF CallRecord, Pc
    <3> QED BY <1>7, <2>1, <3>1, OneCallInv DEF DisconnectLoaded, At
  <2>2. CASE /\ calls' = [calls EXCEPT ![c] = [calls[c] EXCEPT !.pc = "writing"]]
             /\ EnqueueWrite(c, FALSE) /\ UNCHANGED refreshing
    BY <1>7, <2>2, QueueInv DEF DisconnectLoaded, At
  <2>3. CASE Settled(c, "done") /\ UNCHANGED writes
    BY <1>7, <2>3, SettledInv DEF DisconnectLoaded, At
  <2> QED BY <1>7, <2>1, <2>2, <2>3 DEF DisconnectLoaded
<1>8. CASE Revoked(c)
  BY <1>8, QueueInv DEF Revoked, At
<1>9. CASE CallerAborts(c)
  <2>1. /\ [calls[c] EXCEPT !.cancelled = TRUE] \in CallRecord
        /\ [calls[c] EXCEPT !.cancelled = TRUE].pc = calls[c].pc
        /\ [calls[c] EXCEPT !.cancelled = TRUE].gen = calls[c].gen
    BY <1>1 DEF CallRecord
  <2> QED BY <1>9, <2>1, OneCallInv DEF CallerAborts
<1> QED BY <1>2, <1>3, <1>4, <1>5, <1>6, <1>7, <1>8, <1>9

LEMMA LifecycleInv ==
  ASSUME GrantsInv, AbortOwned \/ ShutDown
  PROVE  GrantsInv'
<1>1. OAuthTypeOK /\ {} \in SUBSET Call /\ generation \in Nat
  BY OAuthAssumption DEF GrantsInv, OAuthTypeOK
<1>2. CASE AbortOwnedKey /\ generation < MaxGeneration
  <2>1. /\ calls' \in [Call -> CallRecord]
        /\ generation' \in 0 .. MaxGeneration
        /\ \A c \in Call : calls'[c].pc = calls[c].pc /\ calls'[c].gen = calls[c].gen
    BY <1>1, <1>2, AbortOwnedKeyType
  <2>2. UNCHANGED <<vault, writes, refreshing, clean, boots>> /\ serving' \in BOOLEAN
    BY <1>1 DEF AbortOwned, ShutDown, OAuthTypeOK
  <2>3. OAuthTypeOK'
    BY <1>1, <2>1, <2>2 DEF OAuthTypeOK, CallRecord
  <2>4. generation' = generation + 1 /\ clean' = clean \cup {}
    BY <1>2, <2>2 DEF AbortOwnedKey
  <2> QED BY <1>1, <2>1, <2>2, <2>3, <2>4, AbortInv
<1>3. CASE ShutDown /\ UNCHANGED <<generation, calls>>
  <2>1. OAuthTypeOK' /\ writes' = writes /\ vault' = vault /\ clean' = clean
    BY <1>1, <1>3 DEF ShutDown, OAuthTypeOK
  <2>2. \A c \in Call : /\ At(c, "writing") => At(c, "writing")'
                        /\ Awaiting(c)' => Awaiting(c) /\ calls'[c].gen = calls[c].gen
                        /\ At(c, "gone")' => At(c, "gone")
    BY <1>3 DEF At, Awaiting
  <2>3. generation <= generation'
    BY <1>1, <1>3
  <2> QED BY <2>1, <2>2, <2>3, QuietStep
<1> QED BY <1>2, <1>3 DEF AbortOwned, ShutDown

LEMMA GrantsInvNext == GrantsInv /\ [OAuthNext]_grantVars => GrantsInv'
<1> SUFFICES ASSUME GrantsInv, [OAuthNext]_grantVars PROVE GrantsInv'
  OBVIOUS
<1>1. CASE AbortOwned \/ ShutDown
  BY <1>1, LifecycleInv
<1>2. CASE Boot
  BY <1>2, BootInv
<1>3. CASE Write
  BY <1>3, WriteInv
<1>4. ASSUME NEW c \in Call,
             \/ Connect(c) \/ AccessToken(c) \/ TokenLoaded(c) \/ Exchanged(c) \/ Fails(c)
             \/ Disconnect(c) \/ DisconnectLoaded(c) \/ Revoked(c) \/ CallerAborts(c)
      PROVE  GrantsInv'
  BY <1>4, CallsStepInv, DisconnectInv
<1>5. CASE UNCHANGED grantVars
  BY <1>5 DEF grantVars, GrantsInv, OAuthTypeOK, GenerationsAreOld, WritesAreAwaited, NoGrantBehind,
              DisconnectedIsGone, Awaiting, At
<1> QED BY <1>1, <1>2, <1>3, <1>4, <1>5 DEF OAuthNext

(* A disconnect that succeeded stays in force against every connect, refresh    *)
(* and write that was under way (OAuthService.disconnect, 684-705).             *)
THEOREM DisconnectedStaysGone == OAuthSpec => []DisconnectedIsGone
<1>1. GrantsInv => DisconnectedIsGone
  BY DEF GrantsInv
<1> QED BY <1>1, GrantsInvInit, GrantsInvNext, PTL DEF OAuthSpec

(* Every variable keeps to its set of values. *)
THEOREM OAuthTypeCorrect == OAuthSpec => []OAuthTypeOK
<1>1. GrantsInv => OAuthTypeOK
  BY DEF GrantsInv
<1> QED BY <1>1, GrantsInvInit, GrantsInvNext, PTL DEF OAuthSpec

--------------------------------------------------------------------------------
(* SchedulerCore: for any plugins, ids, registrations and bounds.               *)


(* What a cancel found is freed, or knows by its signal: the part of the        *)
(* invariant that keeps a running cron from being armed again.                  *)
CancelledIsTold ==
  \A r \in cancelled :
    \/ entries[r].state = "free"
    \/ entries[r].state = "executing" /\ entries[r].aborted

(* A timer is set only for an entry whose signal is not aborted. *)
ArmedIsLive == \A r \in Registration : entries[r].state = "armed" => ~entries[r].aborted

TasksInv == /\ TypeOK
        /\ WaitingIsArmed
        /\ StoppedIsQuiet
        /\ CancelledIsTold
        /\ ArmedIsLive

(* #arm of a deadline within the bound makes an entry. *)
LEMMA ArmedType ==
  ASSUME NEW k \in Key, NEW kind \in Kind, NEW wait \in 0 .. MaxWait
  PROVE  /\ Armed(k, kind, wait) \in Entry
         /\ Armed(k, kind, wait).state = "armed"
         /\ Armed(k, kind, wait).key = k
         /\ ~Armed(k, kind, wait).aborted
<1>1. (IF wait > MaxDelay THEN MaxDelay ELSE wait) \in 0 .. MaxWait
  BY SchedulerAssumption
<1> QED BY <1>1 DEF Armed, Entry

(* Freeing an entry keeps its key. *)
LEMMA FreeType ==
  ASSUME TypeOK, NEW r \in Registration
  PROVE  /\ Free(r) \in Entry
         /\ Free(r).state = "free"
         /\ Free(r).key = entries[r].key
<1>1. entries[r] \in Entry
  BY DEF TypeOK
<1>2. 0 \in 0 .. MaxWait
  BY SchedulerAssumption
<1> QED BY <1>1, <1>2 DEF Free, Entry, Kind

LEMMA TasksInvInit == Init => TasksInv
<1> SUFFICES ASSUME Init PROVE TasksInv
  OBVIOUS
<1>1. PICK k \in Key :
        entries = [r \in Registration |-> [state |-> "free", key |-> k, kind |-> "once",
                                           left |-> 0, timer |-> 0, aborted |-> FALSE]]
  BY DEF Init
<1>2. 0 \in 0 .. MaxWait
  BY SchedulerAssumption
<1>3. entries \in [Registration -> Entry]
  BY <1>1, <1>2 DEF Entry, Kind
<1>4. /\ \A j \in Key : callbacks[j] = NoRegistration
      /\ running = {} /\ cancelled = {} /\ stopped = FALSE
  BY DEF Init
<1>5. TypeOK
  BY <1>3, <1>4 DEF Init, TypeOK
<1>6. WaitingIsArmed /\ StoppedIsQuiet /\ CancelledIsTold
  BY <1>4 DEF WaitingIsArmed, StoppedIsQuiet, CancelledIsTold
<1>7. ArmedIsLive
  BY <1>1 DEF ArmedIsLive
<1> QED BY <1>5, <1>6, <1>7 DEF TasksInv

(* Register, Fire and Settle give one registration a new entry.  What they must *)
(* not do to the maps that name it is all this lemma asks of them.              *)
LEMMA OneEntryInv ==
  ASSUME TasksInv, NEW r \in Registration, NEW e \in Entry,
         entries' = [entries EXCEPT ![r] = e],
         callbacks' \in [Key -> Registration \cup {NoRegistration}],
         \A k \in Key : callbacks'[k] # NoRegistration =>
            \/ callbacks'[k] = callbacks[k] /\ callbacks[k] # r
            \/ callbacks'[k] = r /\ e.key = k /\ e.state = "armed",
         running' \subseteq running \cup {r},
         r \in running' => e.state = "executing" /\ ~e.aborted,
         stopped' = stopped,
         stopped => callbacks' = callbacks /\ running' \subseteq running,
         cancelled' \subseteq cancelled,
         r \in cancelled' => e.state = "free" \/ (e.state = "executing" /\ e.aborted),
         e.state = "armed" => ~e.aborted
  PROVE  TasksInv'
<1>1. TypeOK'
  BY DEF TasksInv, TypeOK
<1>2. /\ entries'[r] = e
      /\ \A s \in Registration : s # r => entries'[s] = entries[s]
  BY DEF TasksInv, TypeOK
<1>3. WaitingIsArmed'
  <2>1. ASSUME NEW k \in Key, callbacks'[k] # NoRegistration
        PROVE  entries'[callbacks'[k]].key = k /\ entries'[callbacks'[k]].state = "armed"
    <3>1. CASE callbacks'[k] = callbacks[k] /\ callbacks[k] # r
      BY <1>2, <2>1, <3>1 DEF TasksInv, TypeOK, WaitingIsArmed
    <3>2. CASE callbacks'[k] = r /\ e.key = k /\ e.state = "armed"
      BY <1>2, <3>2
    <3> QED BY <2>1, <3>1, <3>2
  <2>2. ASSUME NEW s \in running'
        PROVE  entries'[s].state = "executing" /\ ~entries'[s].aborted
    BY <1>2, <2>2 DEF TasksInv, TypeOK, WaitingIsArmed
  <2> QED BY <2>1, <2>2 DEF WaitingIsArmed
<1>4. StoppedIsQuiet'
  BY DEF TasksInv, StoppedIsQuiet
<1>5. CancelledIsTold'
  BY <1>2 DEF TasksInv, TypeOK, CancelledIsTold
<1>6. ArmedIsLive'
  BY <1>2 DEF TasksInv, ArmedIsLive
<1> QED BY <1>1, <1>3, <1>4, <1>5, <1>6 DEF TasksInv

(* An accepted registration takes a free name and a free key. *)
LEMMA RegisterInv ==
  ASSUME TasksInv, NEW r \in Registration, NEW k \in Key, NEW kind \in Kind,
         NEW wait \in 0 .. MaxWait, Register(r, k, kind, wait)
  PROVE  TasksInv'
<1> DEFINE e == Armed(k, kind, wait)
<1>1. e \in Entry /\ e.state = "armed" /\ e.key = k /\ ~e.aborted
  BY ArmedType
<1> HIDE DEF e
<1>2. /\ entries' = [entries EXCEPT ![r] = e]
      /\ callbacks' = [callbacks EXCEPT ![k] = r]
      /\ cancelled' = cancelled \ {r}
      /\ running' = running /\ stopped' = stopped
      /\ ~stopped /\ entries[r].state = "free"
  BY DEF Register, e
<1>3. r \notin running /\ \A j \in Key : callbacks[j] # r
  BY <1>2, SchedulerAssumption DEF TasksInv, WaitingIsArmed
<1>4. callbacks' \in [Key -> Registration \cup {NoRegistration}]
  BY <1>2 DEF TasksInv, TypeOK
<1>5. \A j \in Key : callbacks'[j] = IF j = k THEN r ELSE callbacks[j]
  BY <1>2 DEF TasksInv, TypeOK
<1>6. \A j \in Key : callbacks'[j] # NoRegistration =>
        \/ callbacks'[j] = callbacks[j] /\ callbacks[j] # r
        \/ callbacks'[j] = r /\ e.key = j /\ e.state = "armed"
  BY <1>1, <1>3, <1>5
<1>7. r \notin running' /\ r \notin cancelled' /\ cancelled' \subseteq cancelled
  BY <1>2, <1>3
<1> QED BY <1>1, <1>2, <1>4, <1>6, <1>7, OneEntryInv

(* The clock changes neither the state, the key nor the signal of an entry. *)
LEMMA TickInv == TasksInv /\ Tick => TasksInv'
<1> SUFFICES ASSUME TasksInv, Tick PROVE TasksInv'
  OBVIOUS
<1>1. ASSUME NEW r \in Registration
      PROVE  /\ entries'[r] \in Entry
             /\ entries'[r].state = entries[r].state
             /\ entries'[r].key = entries[r].key
             /\ entries'[r].aborted = entries[r].aborted
  <2> DEFINE a == IF entries[r].left > 0 THEN entries[r].left - 1 ELSE 0
             b == IF entries[r].timer > 0 THEN entries[r].timer - 1 ELSE 0
  <2>1. entries[r] \in Entry
    BY DEF TasksInv, TypeOK
  <2>2. a \in 0 .. MaxWait /\ b \in 0 .. MaxWait
    BY <2>1, SchedulerAssumption DEF Entry
  <2>3. entries'[r] = [entries[r] EXCEPT !.left = a, !.timer = b]
    BY DEF Tick
  <2> HIDE DEF a, b
  <2> QED BY <2>1, <2>2, <2>3 DEF Entry
<1>2. /\ callbacks' = callbacks /\ running' = running
      /\ stopped' = stopped /\ cancelled' = cancelled
  BY DEF Tick
<1>3. TypeOK'
  <2>1. entries' = [r \in Registration |-> entries'[r]]
    BY DEF Tick
  <2> QED BY <1>1, <1>2, <2>1 DEF TasksInv, TypeOK
<1>4. WaitingIsArmed'
  BY <1>1, <1>2 DEF TasksInv, TypeOK, WaitingIsArmed
<1>5. StoppedIsQuiet'
  BY <1>2 DEF TasksInv, StoppedIsQuiet
<1>6. CancelledIsTold'
  BY <1>1, <1>2 DEF TasksInv, TypeOK, CancelledIsTold
<1>7. ArmedIsLive'
  BY <1>1 DEF TasksInv, ArmedIsLive
<1> QED BY <1>3, <1>4, <1>5, <1>6, <1>7 DEF TasksInv

(* A timer frees what is not registered any more, is set again, or starts the   *)
(* one entry that waits under its key.                                          *)
LEMMA FireInv ==
  ASSUME TasksInv, NEW r \in Registration, Fire(r)
  PROVE  TasksInv'
<1> DEFINE k == entries[r].key
<1>1. /\ entries[r] \in Entry /\ k \in Key
      /\ entries[r].state = "armed" /\ ~entries[r].aborted
      /\ stopped' = stopped /\ cancelled' = cancelled
      /\ callbacks \in [Key -> Registration \cup {NoRegistration}]
  BY DEF Fire, TasksInv, TypeOK, Entry, ArmedIsLive
<1>2. r \notin running /\ r \notin cancelled
  BY <1>1 DEF TasksInv, WaitingIsArmed, CancelledIsTold
<1>3. \A j \in Key : callbacks[j] = r => j = k
  BY SchedulerAssumption DEF TasksInv, WaitingIsArmed
<1>4. CASE ~Pending(r)
  <2> DEFINE e == Free(r)
  <2>1. e \in Entry /\ e.state = "free"
    BY FreeType DEF TasksInv
  <2> HIDE DEF e
  <2>2. entries' = [entries EXCEPT ![r] = e] /\ callbacks' = callbacks /\ running' = running
    BY <1>4 DEF Fire, e
  <2>3. \A j \in Key : callbacks[j] # r
    BY <1>3, <1>4 DEF Pending
  <2> QED BY <1>1, <1>2, <2>1, <2>2, <2>3, OneEntryInv
<1>5. CASE Pending(r) /\ entries[r].left > 0
  <2> DEFINE e == Armed(k, entries[r].kind, entries[r].left)
  <2>1. e \in Entry /\ e.state = "armed" /\ e.key = k /\ ~e.aborted
    <3>1. entries[r].kind \in Kind /\ entries[r].left \in 0 .. MaxWait
      BY <1>1 DEF Entry
    <3> QED BY <1>1, <3>1, ArmedType
  <2>2. entries' = [entries EXCEPT ![r] = e] /\ callbacks' = callbacks /\ running' = running
    BY <1>1, <1>5 DEF Fire
  <2> HIDE DEF e, k
  <2> QED BY <1>1, <1>2, <1>3, <2>1, <2>2, OneEntryInv
<1>6. CASE Pending(r) /\ ~(entries[r].left > 0)
  <2> DEFINE e == [entries[r] EXCEPT !.state = "executing"]
  <2>1. e \in Entry /\ e.state = "executing" /\ ~e.aborted
    BY <1>1 DEF Entry
  <2>2. /\ entries' = [entries EXCEPT ![r] = e]
        /\ callbacks' = [callbacks EXCEPT ![k] = NoRegistration]
        /\ running' = running \cup {r}
    BY <1>1, <1>6 DEF Fire
  <2> HIDE DEF e
  <2>3. ~stopped
    BY <1>1, <1>6, SchedulerAssumption DEF Pending, TasksInv, StoppedIsQuiet
  <2>4. /\ callbacks' \in [Key -> Registration \cup {NoRegistration}]
        /\ \A j \in Key : callbacks'[j] = IF j = k THEN NoRegistration ELSE callbacks[j]
    BY <1>1, <2>2
  <2> HIDE DEF k
  <2> QED BY <1>1, <1>2, <1>3, <2>1, <2>2, <2>3, <2>4, OneEntryInv
<1> QED BY <1>4, <1>5, <1>6

(* Only a callback that no cancel found is armed again. *)
LEMMA SettleInv ==
  ASSUME TasksInv, NEW r \in Registration, Settle(r)
  PROVE  TasksInv'
<1> DEFINE k == entries[r].key
<1>1. /\ entries[r] \in Entry /\ k \in Key
      /\ entries[r].state = "executing"
      /\ stopped' = stopped /\ cancelled' = cancelled /\ running' = running \ {r}
      /\ callbacks \in [Key -> Registration \cup {NoRegistration}]
  BY DEF Settle, TasksInv, TypeOK, Entry
<1>2. \A j \in Key : callbacks[j] # r
  BY <1>1, SchedulerAssumption DEF TasksInv, WaitingIsArmed
<1>3. CASE Rearms(r)
  <2>1. PICK wait \in 1 .. MaxWait :
          entries' = [entries EXCEPT ![r] = Armed(k, "cron", wait)]
    BY <1>3 DEF Settle
  <2> DEFINE e == Armed(k, "cron", wait)
  <2>2. e \in Entry /\ e.state = "armed" /\ e.key = k /\ ~e.aborted
    BY <1>1, ArmedType DEF Kind
  <2>3. entries' = [entries EXCEPT ![r] = e] /\ callbacks' = [callbacks EXCEPT ![k] = r]
    BY <1>3, <2>1 DEF Settle
  <2> HIDE DEF e
  <2>4. ~stopped /\ r \notin cancelled
    BY <1>1, <1>3 DEF Rearms, TasksInv, CancelledIsTold
  <2>5. /\ callbacks' \in [Key -> Registration \cup {NoRegistration}]
        /\ \A j \in Key : callbacks'[j] = IF j = k THEN r ELSE callbacks[j]
    BY <1>1, <2>3
  <2> HIDE DEF k
  <2>6. \A j \in Key : callbacks'[j] # NoRegistration =>
          \/ callbacks'[j] = callbacks[j] /\ callbacks[j] # r
          \/ callbacks'[j] = r /\ e.key = j /\ e.state = "armed"
    BY <1>2, <2>2, <2>5
  <2>7. /\ r \notin running' /\ r \notin cancelled'
        /\ running' \subseteq running \cup {r} /\ cancelled' \subseteq cancelled
        /\ stopped' = stopped /\ ~stopped
    BY <1>1, <2>4
  <2>8. entries' = [entries EXCEPT ![r] = e]
    BY <2>3
  <2>9. callbacks' \in [Key -> Registration \cup {NoRegistration}]
    BY <2>5
  <2> QED BY <2>2, <2>6, <2>7, <2>8, <2>9, OneEntryInv
<1>4. CASE ~Rearms(r)
  <2> DEFINE e == Free(r)
  <2>1. e \in Entry /\ e.state = "free"
    BY FreeType DEF TasksInv
  <2> HIDE DEF e
  <2>2. entries' = [entries EXCEPT ![r] = e] /\ callbacks' = callbacks
    BY <1>4 DEF Settle, e
  <2> QED BY <1>1, <1>2, <2>1, <2>2, OneEntryInv
<1> QED BY <1>3, <1>4

(* cancel, cancelOwned and shutdown end what they find under a set of keys.     *)
LEMMA CancelInv ==
  ASSUME TasksInv, NEW ks \in SUBSET Key, CancelKeys(ks),
         stopped' = stopped \/ (stopped' = TRUE /\ ks = Key)
  PROVE  TasksInv'
<1> DEFINE F == Found(ks)
<1>1. /\ callbacks' = [k \in Key |-> IF k \in ks THEN NoRegistration ELSE callbacks[k]]
      /\ running' = running \ F
      /\ cancelled' = cancelled \cup F
      /\ F \subseteq Registration
  BY DEF CancelKeys, Found
<1>2. ASSUME NEW r \in Registration
      PROVE  /\ entries'[r] \in Entry
             /\ entries'[r].key = entries[r].key
             /\ r \notin F => entries'[r] = entries[r]
             /\ r \in F => \/ entries'[r].state = "free"
                           \/ entries'[r].state = "executing" /\ entries'[r].aborted
  <2>1. entries[r] \in Entry
    BY DEF TasksInv, TypeOK
  <2>2. CASE r \notin F
    BY <2>1, <2>2 DEF CancelKeys
  <2>3. CASE r \in F /\ Pending(r)
    <3>1. entries'[r] = Free(r)
      BY <2>3 DEF CancelKeys
    <3> QED BY <2>3, <3>1, FreeType DEF TasksInv
  <2>4. CASE r \in F /\ ~Pending(r)
    <3>1. entries'[r] = [entries[r] EXCEPT !.aborted = TRUE]
      BY <2>4 DEF CancelKeys
    <3>2. entries[r].state = "executing"
      BY <2>4 DEF Found, TasksInv, WaitingIsArmed
    <3> QED BY <2>1, <2>4, <3>1, <3>2 DEF Entry
  <2> QED BY <2>2, <2>3, <2>4
<1>3. entries' = [r \in Registration |-> entries'[r]]
  BY DEF CancelKeys
<1>4. ASSUME NEW k \in Key, k \notin ks, callbacks[k] # NoRegistration
      PROVE  callbacks[k] \in Registration \ F
  <2>1. /\ callbacks[k] \in Registration
        /\ entries[callbacks[k]].key = k /\ entries[callbacks[k]].state = "armed"
    BY <1>4 DEF TasksInv, TypeOK, WaitingIsArmed
  <2> QED BY <1>4, <2>1 DEF Found
<1> HIDE DEF F
<1>5. TypeOK'
  BY <1>1, <1>2, <1>3 DEF TasksInv, TypeOK
<1>6. WaitingIsArmed'
  <2>1. ASSUME NEW k \in Key, callbacks'[k] # NoRegistration
        PROVE  entries'[callbacks'[k]].key = k /\ entries'[callbacks'[k]].state = "armed"
    <3>1. k \notin ks /\ callbacks'[k] = callbacks[k]
      BY <1>1, <2>1
    <3> QED BY <1>2, <1>4, <2>1, <3>1 DEF TasksInv, WaitingIsArmed
  <2>2. ASSUME NEW r \in running'
        PROVE  entries'[r].state = "executing" /\ ~entries'[r].aborted
    BY <1>1, <1>2, <2>2 DEF TasksInv, TypeOK, WaitingIsArmed
  <2> QED BY <2>1, <2>2 DEF WaitingIsArmed
<1>7. StoppedIsQuiet'
  <2>1. CASE stopped' = stopped
    BY <1>1, <2>1 DEF TasksInv, StoppedIsQuiet
  <2>2. CASE ks = Key
    <3>1. \A r \in running : r \in F
      BY <2>2 DEF F, Found, TasksInv, TypeOK, Entry
    <3> QED BY <1>1, <2>2, <3>1 DEF StoppedIsQuiet
  <2> QED BY <2>1, <2>2
<1>8. CancelledIsTold'
  BY <1>1, <1>2 DEF TasksInv, TypeOK, CancelledIsTold
<1>9. ArmedIsLive'
  BY <1>1, <1>2 DEF TasksInv, ArmedIsLive
<1> QED BY <1>5, <1>6, <1>7, <1>8, <1>9 DEF TasksInv

LEMMA TasksInvNext == TasksInv /\ [Next]_vars => TasksInv'
<1> SUFFICES ASSUME TasksInv, [Next]_vars PROVE TasksInv'
  OBVIOUS
<1>1. ASSUME NEW r \in Registration, NEW k \in Key, NEW kind \in Kind,
             NEW wait \in 0 .. MaxWait, Register(r, k, kind, wait)
      PROVE  TasksInv'
  BY <1>1, RegisterInv
<1>2. CASE Tick
  BY <1>2, TickInv
<1>3. ASSUME NEW r \in Registration, Fire(r) PROVE TasksInv'
  BY <1>3, FireInv
<1>4. ASSUME NEW r \in Registration, Settle(r) PROVE TasksInv'
  BY <1>4, SettleInv
<1>5. ASSUME NEW k \in Key, Cancel(k) PROVE TasksInv'
  BY <1>5, CancelInv DEF Cancel
<1>6. ASSUME NEW o \in Owner, CancelOwned(o) PROVE TasksInv'
  <2>1. {o} \X Id \in SUBSET Key
    BY DEF Key
  <2> QED BY <1>6, <2>1, CancelInv DEF CancelOwned
<1>7. CASE Shutdown
  <2>1. Key \in SUBSET Key
    OBVIOUS
  <2> QED BY <1>7, <2>1, CancelInv DEF Shutdown
<1>8. CASE UNCHANGED vars
  BY <1>8 DEF vars, TasksInv, TypeOK, WaitingIsArmed, StoppedIsQuiet, CancelledIsTold,
              ArmedIsLive, Pending
<1> QED BY <1>1, <1>2, <1>3, <1>4, <1>5, <1>6, <1>7, <1>8 DEF Next

LEMMA InvHolds == Spec => []TasksInv
<1> QED BY TasksInvInit, TasksInvNext, PTL DEF Spec

(* Everything keeps its type. *)
THEOREM SchedulerTypeCorrect == Spec => []TypeOK
<1>1. TasksInv => TypeOK
  BY DEF TasksInv
<1> QED BY <1>1, InvHolds, PTL

(* What waits has its timer set, and what runs can be told to stop. *)
THEOREM WaitingArmed == Spec => []WaitingIsArmed
<1>1. TasksInv => WaitingIsArmed
  BY DEF TasksInv
<1> QED BY <1>1, InvHolds, PTL

(* No cron survives a cancel, the end of its plugin or the shutdown. *)
THEOREM CancelledStays == Spec => []CancelledStaysCancelled
<1>1. TasksInv => CancelledStaysCancelled
  <2> SUFFICES ASSUME TasksInv, NEW r \in cancelled
               PROVE  ~Pending(r) /\ r \notin running
    BY DEF CancelledStaysCancelled
  <2>1. r \in Registration /\ entries[r].key \in Key
    BY DEF TasksInv, TypeOK, Entry
  <2>2. Pending(r) => entries[r].state = "armed"
    BY <2>1, SchedulerAssumption DEF Pending, TasksInv, WaitingIsArmed
  <2> QED BY <2>2 DEF TasksInv, CancelledIsTold, WaitingIsArmed
<1> QED BY <1>1, InvHolds, PTL

(* A stopped scheduler has nothing that waits and nothing that runs untold. *)
THEOREM StoppedQuiet == Spec => []StoppedIsQuiet
<1>1. TasksInv => StoppedIsQuiet
  BY DEF TasksInv
<1> QED BY <1>1, InvHolds, PTL

--------------------------------------------------------------------------------
(* GraphInstance: for any steps, graphs, retry policies and numbers of stops.   *)


States == {"pending", "running", "waiting", "completed", "skipped", "failed"}

Pcs == {"idle", "starting", "performing", "asking", "delaying", "arming", "storing", "failing",
        "settling", "continue", "waiting", "terminal", "threw"}

Tasks == {"none", "spawned", "choosing", "batch", "leaving", "failing", "ending"}

Settlings == {"idle", "delays", "begun", "stored", "closed", "cleared"}

InstanceRecord ==
  [status : Active \cup Terminal, state : [Step -> States], attempts : [Step -> Nat],
   edge : [graph.edges -> {"pending", "active", "inactive"}], forced : SUBSET Step,
   preserved : SUBSET Step, closing : Outcome \cup {"none"}]

EngineTypes ==
  /\ up \in BOOLEAN /\ task \in Tasks /\ batch \subseteq Step /\ worker \in [Step -> Pcs]
  /\ signalled \subseteq Step \cup {"task"} /\ delays \subseteq Step /\ delayCall \subseteq Step
  /\ settling \in [Outcome -> Settlings]

GraphTypes ==
  /\ graph \in Graphs /\ inst \in InstanceRecord /\ stored \in InstanceRecord
  /\ execution \in Outcome \cup {"open"} /\ EngineTypes
  /\ performed \in [Step -> Nat] /\ stops \in 0 .. MaxStops

(******************************* Counted attempts ******************************)

Counted == {n \in Step : graph.kind[n] \in {"call_tool", "invoke_prompt"}}

Tools == {n \in Step : graph.kind[n] = "call_tool"}

(* A record in which a step that counts is within its attempts, below them      *)
(* when it is to begin a new one.                                               *)
Tries(r) ==
  /\ \A n \in Counted :
       /\ r.attempts[n] <= graph.attempts[n]
       /\ r.state[n] = "pending" /\ n \notin r.preserved => r.attempts[n] < graph.attempts[n]
  /\ \A n \in Tools : n \notin r.preserved /\ r.state[n] # "waiting"

Performed ==
  /\ \A n \in Tools : /\ performed[n] <= inst.attempts[n]
                      /\ worker[n] = "starting" => performed[n] < inst.attempts[n]
  /\ \A n \in Step : worker[n] = "asking" => graph.kind[n] = "feedback_gate"

StepsInv == Tries(inst) /\ Tries(stored) /\ inst.attempts = stored.attempts /\ Performed

(***************************** Ends of the instance ****************************)

EndsAs(o) == IF o = "interrupted" THEN "failed" ELSE o

SettledAt ==
  /\ stored.status \in Terminal => inst.status = stored.status
  /\ \A o \in Outcome :
       /\ settling[o] # "idle" => inst.status = EndsAs(o)
       /\ settling[o] \in {"stored", "closed", "cleared"} => stored.status = EndsAs(o)
  /\ inst.closing # "none" => inst.status = EndsAs(inst.closing)
  /\ stored.closing # "none" => stored.status = EndsAs(stored.closing)
  /\ execution # "open" => stored.status = EndsAs(execution)

(* Without delays no step waits when the task chooses.                          *)
Attended ==
  /\ delays = {} /\ delayCall = {}
  /\ \A n \in Step : worker[n] \notin {"delaying", "arming", "waiting"}
  /\ ~up => task = "none" /\ \A n \in Step : worker[n] = "idle"
  /\ task \in {"spawned", "choosing"} => \A n \in Step : worker[n] \in {"idle", "continue"}
  /\ task = "batch" => \A n \in Step \ batch : worker[n] \in {"idle", "continue"}
  /\ task \in {"spawned", "choosing", "batch"} =>
       \A n \in Step : inst.state[n] = "waiting" =>
                         worker[n] \in {"asking", "performing", "threw", "terminal"}

EndInv == Delays = {} => SettledAt /\ Attended

GraphInv == GraphTypes /\ StepsInv /\ EndInv

(******************************** Records that follow **************************)

(* A record that keeps what is counted: a step that is pending anew has an      *)
(* attempt left.                                                                *)
Follows(r, q) ==
  /\ q.attempts = r.attempts /\ q.preserved = r.preserved
  /\ \A n \in Step :
       \/ q.state[n] = r.state[n]
       \/ q.state[n] \in {"completed", "skipped", "failed"}
       \/ q.state[n] = "waiting" /\ n \notin Tools
       \/ q.state[n] = "pending" /\ r.attempts[n] < graph.attempts[n]

(* ... and, once it has ended, how. *)
Kept(r, q) ==
  /\ q \in InstanceRecord /\ Follows(r, q) /\ q.closing = r.closing
  /\ r.status \in Terminal => q.status = r.status

LEMMA FollowsTries == ASSUME NEW r, NEW q, Tries(r), Follows(r, q) PROVE Tries(q)
BY DEF Tries, Follows, Counted, Tools

LEMMA KeptTrans ==
  ASSUME NEW r, NEW q, NEW p, Kept(r, q), Kept(q, p) PROVE Kept(r, p)
BY DEF Kept, Follows

LEMMA KeptSame == ASSUME NEW r \in InstanceRecord PROVE Kept(r, r)
BY DEF Kept, Follows

LEMMA SetStateFields ==
  ASSUME NEW r \in InstanceRecord, NEW n \in Step, NEW s \in States
  PROVE  /\ SetState(r, n, s) \in InstanceRecord
         /\ SetState(r, n, s).status = r.status /\ SetState(r, n, s).attempts = r.attempts
         /\ SetState(r, n, s).preserved = r.preserved /\ SetState(r, n, s).forced = r.forced
         /\ SetState(r, n, s).closing = r.closing
         /\ SetState(r, n, s).state[n] = s
         /\ \A m \in Step : m # n => SetState(r, n, s).state[m] = r.state[m]
BY DEF InstanceRecord, SetState

LEMMA SetStateKept ==
  ASSUME NEW r \in InstanceRecord, NEW n \in Step, NEW s \in States,
         \/ s \in {"completed", "skipped", "failed"}
         \/ s = "waiting" /\ n \notin Tools
         \/ s = "pending" /\ r.attempts[n] < graph.attempts[n]
  PROVE  Kept(r, SetState(r, n, s))
BY SetStateFields DEF Kept, Follows

LEMMA StatusFields ==
  ASSUME NEW r \in InstanceRecord, NEW s \in Active \cup Terminal
  PROVE  /\ [r EXCEPT !.status = s] \in InstanceRecord
         /\ [r EXCEPT !.status = s].status = s
         /\ [r EXCEPT !.status = s].state = r.state
         /\ [r EXCEPT !.status = s].attempts = r.attempts
         /\ [r EXCEPT !.status = s].preserved = r.preserved
         /\ [r EXCEPT !.status = s].closing = r.closing
BY DEF InstanceRecord

LEMMA StatusKept ==
  ASSUME NEW r \in InstanceRecord, NEW s \in Active \cup Terminal, r.status \notin Terminal
  PROVE  Kept(r, [r EXCEPT !.status = s])
BY StatusFields DEF Kept, Follows

LEMMA RefreshKept ==
  ASSUME NEW r \in InstanceRecord
  PROVE  Kept(r, Refresh(r)) /\ Refresh(r).state = r.state /\ Refresh(r).forced = r.forced
<1>1. CASE r.status \in Terminal
  BY <1>1, KeptSame DEF Refresh
<1>2. CASE r.status \notin Terminal
  <2>1. PICK s \in Active : Refresh(r) = [r EXCEPT !.status = s]
    BY <1>2 DEF Refresh, Active
  <2> QED BY <1>2, <2>1, StatusKept, StatusFields DEF InstanceRecord
<1> QED BY <1>1, <1>2

LEMMA EdgesKept ==
  ASSUME NEW r \in InstanceRecord, NEW chosen, NEW edges
  PROVE  Kept(r, SetEdges(r, chosen, edges)) /\ SetEdges(r, chosen, edges).state = r.state
<1> DEFINE edge == [e \in graph.edges |-> IF e \notin edges THEN r.edge[e]
                                          ELSE IF e \in chosen THEN "active" ELSE "inactive"]
<1>1. edge \in [graph.edges -> {"pending", "active", "inactive"}]
  BY DEF InstanceRecord
<1>2. SetEdges(r, chosen, edges) = [r EXCEPT !.edge = edge]
  BY DEF SetEdges
<1> HIDE DEF edge
<1>3. /\ [r EXCEPT !.edge = edge] \in InstanceRecord
      /\ [r EXCEPT !.edge = edge].status = r.status /\ [r EXCEPT !.edge = edge].state = r.state
      /\ [r EXCEPT !.edge = edge].attempts = r.attempts
      /\ [r EXCEPT !.edge = edge].preserved = r.preserved
      /\ [r EXCEPT !.edge = edge].closing = r.closing
  BY <1>1 DEF InstanceRecord
<1> QED BY <1>2, <1>3 DEF Kept, Follows

LEMMA ForcedKept ==
  ASSUME NEW r \in InstanceRecord, NEW f \in SUBSET Step
  PROVE  Kept(r, [r EXCEPT !.forced = f]) /\ [r EXCEPT !.forced = f].state = r.state
<1>1. /\ [r EXCEPT !.forced = f] \in InstanceRecord
      /\ [r EXCEPT !.forced = f].status = r.status /\ [r EXCEPT !.forced = f].state = r.state
      /\ [r EXCEPT !.forced = f].attempts = r.attempts
      /\ [r EXCEPT !.forced = f].preserved = r.preserved
      /\ [r EXCEPT !.forced = f].closing = r.closing
  BY DEF InstanceRecord
<1> QED BY <1>1 DEF Kept, Follows

LEMMA PropagatedKept ==
  ASSUME inst \in InstanceRecord
  PROVE  /\ Kept(inst, Propagated)
         /\ \A n \in Step : Propagated.state[n] = "waiting" => inst.state[n] = "waiting"
<1> DEFINE state == [n \in Step |-> IF n \in Unreachable THEN "skipped" ELSE inst.state[n]]
           edge == [e \in graph.edges |-> IF e.from \in Unreachable THEN "inactive"
                                          ELSE inst.edge[e]]
<1>1. /\ state \in [Step -> States] /\ edge \in [graph.edges -> {"pending", "active", "inactive"}]
      /\ \A n \in Step : state[n] = inst.state[n] \/ state[n] = "skipped"
  BY DEF InstanceRecord, States
<1>2. Propagated = [inst EXCEPT !.state = state, !.edge = edge]
  BY DEF Propagated
<1> HIDE DEF state, edge
<1>3. /\ Propagated \in InstanceRecord
      /\ Propagated.status = inst.status /\ Propagated.state = state
      /\ Propagated.attempts = inst.attempts /\ Propagated.preserved = inst.preserved
      /\ Propagated.closing = inst.closing
  BY <1>1, <1>2 DEF InstanceRecord
<1> QED BY <1>1, <1>3 DEF Kept, Follows

(********************************** The steps **********************************)

(* A step that keeps the record in memory, and stores it or not.                *)
KeepsRecord ==
  /\ Kept(inst, inst') /\ stored' \in {stored, inst'}
  /\ UNCHANGED <<graph, execution>>

(* ... or that only keeps what is counted. *)
RecordFollows ==
  /\ inst' \in InstanceRecord /\ Follows(inst, inst') /\ stored' \in {stored, inst'}
  /\ UNCHANGED graph /\ execution' \in Outcome \cup {"open"}

(* It carries out no step.                                                      *)
Quietly ==
  /\ performed' = performed
  /\ \A n \in Step : /\ worker'[n] = "starting" => worker[n] = "starting"
                     /\ worker'[n] = "asking" => worker[n] = "asking" \/ graph.kind[n] = "feedback_gate"

LEMMA SameGraph ==
  ASSUME UNCHANGED graph
  PROVE  /\ Step' = Step /\ InstanceRecord' = InstanceRecord
         /\ Tools' = Tools /\ Counted' = Counted /\ Delays' = Delays
BY DEF Step, InstanceRecord, Tools, Counted, Delays

LEMMA KeepsTypes ==
  ASSUME GraphTypes, RecordFollows, EngineTypes', performed' \in [Step -> Nat],
         stops' = stops
  PROVE  GraphTypes'
<1>1. graph' = graph /\ Step' = Step /\ InstanceRecord' = InstanceRecord
  BY SameGraph DEF RecordFollows
<1> QED BY <1>1 DEF GraphTypes, RecordFollows

LEMMA KeepsSteps ==
  ASSUME GraphTypes, StepsInv, RecordFollows, Quietly PROVE StepsInv'
<1>1. /\ inst'.attempts = inst.attempts /\ graph' = graph
      /\ stored' = stored \/ stored' = inst'
      /\ Tries(inst) /\ Tries(stored) /\ Follows(inst, inst') /\ stored.attempts = inst.attempts
      /\ Step' = Step /\ Tools' = Tools /\ Counted' = Counted
  BY SameGraph DEF RecordFollows, Follows, StepsInv
<1>2. Tries(inst') /\ Tries(stored')
  BY <1>1, FollowsTries
<1>3. Tries(inst)' /\ Tries(stored)'
  BY <1>1, <1>2 DEF Tries
<1>4. Performed'
  <2>1. ASSUME NEW n \in Tools
        PROVE  /\ performed'[n] <= inst'.attempts[n]
               /\ worker'[n] = "starting" => performed'[n] < inst'.attempts[n]
    BY <1>1, <2>1 DEF StepsInv, Performed, Quietly, Tools
  <2>2. ASSUME NEW n \in Step, worker'[n] = "asking" PROVE graph.kind[n] = "feedback_gate"
    BY <2>2 DEF StepsInv, Performed, Quietly
  <2> QED BY <1>1, <2>1, <2>2 DEF Performed
<1> QED BY <1>1, <1>3, <1>4 DEF StepsInv

(* An instance that has ended stays so. *)
EndIsKept ==
  /\ inst'.closing = inst.closing /\ UNCHANGED execution /\ stored' \in {stored, inst'}
  /\ inst.status \in Terminal => inst'.status = inst.status

(* What is being settled is settled in the same way. *)
LEMMA KeepsSettled ==
  ASSUME GraphTypes, SettledAt, EndIsKept,
         \A o \in Outcome : settling'[o] \in {settling[o], "idle", "delays", "begun"},
         \A o \in Outcome : settling[o] = "idle" /\ settling'[o] # "idle" =>
                              inst'.status = EndsAs(o)
  PROVE  SettledAt'
<1>1. /\ inst'.closing = inst.closing /\ execution' = execution
      /\ inst.status \in Terminal => inst'.status = inst.status
      /\ stored' = stored \/ stored' = inst'
  BY DEF EndIsKept
<1>2. /\ inst.closing \in Outcome \cup {"none"} /\ stored.closing \in Outcome \cup {"none"}
      /\ execution \in Outcome \cup {"open"}
  BY DEF GraphTypes, InstanceRecord
<1>3. \A o \in Outcome : EndsAs(o) \in Terminal
  BY DEF Outcome, EndsAs, Terminal
<1>4. stored.status \in Terminal => stored'.status = stored.status /\ inst'.status = stored.status
  BY <1>1 DEF SettledAt
<1>5. stored'.status \in Terminal => inst'.status = stored'.status
  BY <1>1, <1>4
<1>6. ASSUME NEW o \in Outcome
      PROVE  /\ settling'[o] # "idle" => inst'.status = EndsAs(o)
             /\ settling'[o] \in {"stored", "closed", "cleared"} => stored'.status = EndsAs(o)
  BY <1>1, <1>3, <1>4, <1>6 DEF SettledAt
<1>7. /\ inst'.closing # "none" => inst'.status = EndsAs(inst'.closing)
      /\ stored'.closing # "none" => stored'.status = EndsAs(stored'.closing)
      /\ execution' # "open" => stored'.status = EndsAs(execution')
  BY <1>1, <1>2, <1>3, <1>4 DEF SettledAt
<1> QED BY <1>5, <1>6, <1>7 DEF SettledAt, EndsAs

(* One step of the graph goes on. *)
LEMMA WorkerAttended ==
  ASSUME GraphTypes, Attended, NEW n \in Step, NEW pc, WorkerGoes(n, pc),
         worker[n] \notin {"idle", "continue"},
         pc \notin {"delaying", "arming", "waiting", "idle"},
         UNCHANGED <<graph, up, task, batch, delays, delayCall>>,
         \A m \in Step : m # n /\ inst'.state[m] = "waiting" => inst.state[m] = "waiting",
         inst'.state[n] = "waiting" =>
           \/ pc \in {"asking", "performing", "threw", "terminal"}
           \/ inst.state[n] = "waiting"
              /\ worker[n] \notin {"asking", "performing", "threw", "terminal"}
  PROVE  Attended'
<1>1. /\ worker'[n] = pc /\ \A m \in Step : m # n => worker'[m] = worker[m]
      /\ Step' = Step
  BY SameGraph DEF WorkerGoes, GraphTypes, EngineTypes
<1> QED BY <1>1 DEF Attended

(* The engine goes on without them. *)
LEMMA EngineAttended ==
  ASSUME Attended, UNCHANGED <<graph, worker>>,
         delays' \in {delays, {}}, delayCall' \in {delayCall, {}},
         ~up' => ~up,
         task' # task => task' \in {"none", "leaving", "failing", "ending"} /\ up,
         task' = "batch" => batch' = batch,
         \A m \in Step : inst'.state[m] = "waiting" => inst.state[m] = "waiting"
  PROVE  Attended'
<1>1. Step' = Step
  BY SameGraph
<1> QED BY <1>1 DEF Attended

(* What begins to settle is what the instance has ended as. *)
SettlesAs ==
  /\ settling' \in [Outcome -> Settlings]
  /\ \A o \in Outcome : settling'[o] \in {settling[o], "idle", "delays", "begun"}
  /\ \A o \in Outcome : settling[o] = "idle" /\ settling'[o] # "idle" => inst'.status = EndsAs(o)

LEMMA SettlesSame == ASSUME GraphTypes, settling' = settling PROVE SettlesAs
BY DEF SettlesAs, GraphTypes, EngineTypes

(* A step that keeps what is counted keeps all of the invariant but how the     *)
(* instance ends.                                                               *)
LEMMA FollowsInv ==
  ASSUME GraphInv, RecordFollows, Quietly, EngineTypes', stops' = stops,
         Delays = {} => SettledAt' /\ Attended'
  PROVE  GraphInv'
<1>1. GraphTypes /\ StepsInv /\ performed' \in [Step -> Nat]
  BY DEF GraphInv, GraphTypes, Quietly
<1>2. Delays' = Delays
  BY SameGraph DEF RecordFollows
<1> QED BY <1>1, <1>2, KeepsTypes, KeepsSteps DEF GraphInv, EndInv

(* A step that keeps the record keeps all but what its move could disturb. *)
LEMMA Keeps ==
  ASSUME GraphInv, KeepsRecord, Quietly, SettlesAs, EngineTypes', stops' = stops,
         Delays = {} => Attended'
  PROVE  GraphInv'
<1>1. GraphTypes /\ EndInv /\ RecordFollows
  BY DEF GraphInv, GraphTypes, RecordFollows, KeepsRecord, Kept
<1>2. Delays = {} => SettledAt'
  BY <1>1, KeepsSettled DEF EndInv, SettlesAs, EndIsKept, KeepsRecord, Kept
<1> QED BY <1>1, <1>2, FollowsInv

(* One step of the graph goes to a place, whatever it signals or settles. *)
LEMMA WorkerInv ==
  ASSUME GraphInv, NEW n \in Step, NEW pc \in Pcs, WorkerGoes(n, pc), KeepsRecord, SettlesAs,
         UNCHANGED <<up, task, batch, delayCall, performed, stops>>,
         signalled' \subseteq Step \cup {"task"}, delays' \subseteq Step,
         pc # "starting", pc = "asking" => graph.kind[n] = "feedback_gate",
         Delays = {} =>
           /\ delays' = delays /\ worker[n] \notin {"idle", "continue"}
           /\ pc \notin {"delaying", "arming", "waiting", "idle"}
           /\ \A m \in Step : m # n /\ inst'.state[m] = "waiting" => inst.state[m] = "waiting"
           /\ inst'.state[n] = "waiting" =>
                \/ pc \in {"asking", "performing", "threw", "terminal"}
                \/ inst.state[n] = "waiting"
                   /\ worker[n] \notin {"asking", "performing", "threw", "terminal"}
  PROVE  GraphInv'
<1>1. GraphTypes /\ EngineTypes /\ EndInv /\ graph' = graph /\ Step' = Step
  BY SameGraph DEF GraphInv, GraphTypes, KeepsRecord
<1>2. /\ worker' \in [Step -> Pcs] /\ worker'[n] = pc
      /\ \A m \in Step : m # n => worker'[m] = worker[m]
  BY <1>1 DEF EngineTypes, WorkerGoes
<1>3. EngineTypes'
  BY <1>1, <1>2 DEF EngineTypes, SettlesAs
<1>4. Quietly
  BY <1>2 DEF Quietly
<1>5. Delays = {} => Attended'
  BY <1>1, WorkerAttended DEF EndInv
<1> QED BY <1>3, <1>4, <1>5, Keeps

(* A record that is saved, or left alone. *)
LEMMA SavedKeeps ==
  ASSUME NEW q, Kept(inst, q), Save(q), UNCHANGED <<graph, execution>> PROVE KeepsRecord
BY DEF Save, KeepsRecord

LEMMA AloneKeeps ==
  ASSUME GraphTypes, UNCHANGED <<graph, inst, stored, execution>> PROVE KeepsRecord
BY KeptSame DEF GraphTypes, KeepsRecord

(* A delay or a question waits; an instance whose delay begins is waiting, also *)
(* after it has ended.                                                          *)
LEMMA WaitingFields ==
  ASSUME NEW n \in Step, inst \in InstanceRecord, n \notin Tools
  PROVE  LET q == [SetState(inst, n, "waiting") EXCEPT !.status = "waiting"]
         IN  /\ q \in InstanceRecord /\ Follows(inst, q) /\ q.closing = inst.closing
             /\ inst.status \notin Terminal => Kept(inst, q)
             /\ \A m \in Step : m # n => q.state[m] = inst.state[m]
<1> DEFINE p == SetState(inst, n, "waiting")
           q == [p EXCEPT !.status = "waiting"]
<1>1. /\ p \in InstanceRecord /\ Kept(inst, p) /\ p.status = inst.status
      /\ \A m \in Step : m # n => p.state[m] = inst.state[m]
  BY SetStateFields, SetStateKept DEF States
<1> HIDE DEF p
<1>2. /\ q \in InstanceRecord /\ q.state = p.state /\ q.attempts = p.attempts
      /\ q.preserved = p.preserved /\ q.closing = p.closing
  BY <1>1, StatusFields DEF Active
<1> HIDE DEF q
<1>3. Follows(inst, q) /\ q.closing = inst.closing
  BY <1>1, <1>2 DEF Kept, Follows
<1>4. inst.status \notin Terminal => Kept(inst, q)
  BY <1>2, <1>3 DEF Kept
<1> QED BY <1>1, <1>2, <1>3, <1>4 DEF p, q

(* A delay that begins: only in a graph with delays. *)
LEMMA StartDelayInv == ASSUME GraphInv, NEW n \in Step, StartDelay(n) PROVE GraphInv'
<1>1. /\ GraphTypes /\ EngineTypes /\ n \in Delays /\ n \notin Tools /\ inst \in InstanceRecord
      /\ execution \in Outcome \cup {"open"}
  BY DEF GraphInv, GraphTypes, StartDelay, Tools, Delays
<1>2. inst' \in InstanceRecord /\ Follows(inst, inst') /\ stored' = inst'
  BY <1>1, WaitingFields DEF StartDelay, Save
<1>3. /\ UNCHANGED <<graph, execution, up, task, batch, signalled, delays, delayCall, settling,
                     performed, stops>>
      /\ worker' = [worker EXCEPT ![n] = "delaying"]
  BY DEF StartDelay, WorkerGoes
<1>4. Step' = Step
  BY <1>3, SameGraph
<1>5. /\ worker' \in [Step -> Pcs] /\ worker'[n] = "delaying"
      /\ \A m \in Step : m # n => worker'[m] = worker[m]
  BY <1>1, <1>3 DEF EngineTypes, Pcs
<1>6. RecordFollows
  BY <1>1, <1>2, <1>3 DEF RecordFollows
<1>7. EngineTypes' /\ Quietly
  BY <1>1, <1>3, <1>4, <1>5 DEF EngineTypes, Quietly
<1> QED BY <1>1, <1>3, <1>6, <1>7, FollowsInv

(* A step is carried out, once for the attempt that has begun. *)
LEMMA PerformInv == ASSUME GraphInv, NEW n \in Step, Perform(n) PROVE GraphInv'
<1>1. /\ GraphTypes /\ EngineTypes /\ StepsInv /\ EndInv /\ performed \in [Step -> Nat]
      /\ inst.attempts \in [Step -> Nat]
  BY DEF GraphInv, GraphTypes, InstanceRecord
<1>2. /\ UNCHANGED <<graph, inst, stored, execution, up, task, batch, signalled, delays, delayCall,
                     settling, stops>>
      /\ worker' = [worker EXCEPT ![n] = "performing"]
      /\ performed' = [performed EXCEPT ![n] = @ + 1]
      /\ worker[n] = "starting" \/ worker[n] = "asking"
  BY DEF Perform, WorkerGoes
<1>3. /\ Step' = Step /\ InstanceRecord' = InstanceRecord /\ Tools' = Tools /\ Counted' = Counted
      /\ Delays' = Delays
  BY <1>2, SameGraph
<1>4. /\ worker' \in [Step -> Pcs] /\ worker'[n] = "performing"
      /\ \A m \in Step : m # n => worker'[m] = worker[m]
      /\ performed' \in [Step -> Nat] /\ performed'[n] = performed[n] + 1
      /\ \A m \in Step : m # n => performed'[m] = performed[m]
  BY <1>1, <1>2 DEF EngineTypes, Pcs
<1>5. GraphTypes'
  BY <1>1, <1>2, <1>3, <1>4 DEF GraphTypes, EngineTypes
<1>6. Tries(inst)' /\ Tries(stored)' /\ inst'.attempts = stored'.attempts
  BY <1>1, <1>2, <1>3 DEF StepsInv, Tries
<1>7. Performed'
  <2>1. ASSUME NEW m \in Tools
        PROVE  /\ performed'[m] <= inst'.attempts[m]
               /\ worker'[m] = "starting" => performed'[m] < inst'.attempts[m]
    <3>1. m \in Step /\ performed[m] \in Nat /\ inst.attempts[m] \in Nat
      BY <1>1 DEF Tools
    <3>2. CASE m = n
      <4>1. worker[n] = "starting"
        BY <1>1, <1>2, <2>1, <3>2 DEF StepsInv, Performed, Tools
      <4>2. performed[n] < inst.attempts[n]
        BY <1>1, <2>1, <3>2, <4>1 DEF StepsInv, Performed
      <4> QED BY <1>2, <1>4, <3>1, <3>2, <4>2
    <3>3. CASE m # n
      BY <1>1, <1>2, <1>4, <3>1, <3>3 DEF StepsInv, Performed
    <3> QED BY <3>2, <3>3
  <2>2. ASSUME NEW m \in Step, worker'[m] = "asking" PROVE graph.kind[m] = "feedback_gate"
    BY <1>1, <1>4, <2>2 DEF StepsInv, Performed
  <2> QED BY <1>2, <1>3, <2>1, <2>2 DEF Performed
<1>8. ASSUME Delays = {} PROVE SettledAt' /\ Attended'
  <2>1. SettledAt' /\ Attended /\ WorkerGoes(n, "performing")
    BY <1>1, <1>2, <1>8 DEF EndInv, SettledAt, WorkerGoes
  <2> QED BY <1>1, <1>2, <2>1, WorkerAttended
<1> QED BY <1>3, <1>5, <1>6, <1>7, <1>8 DEF GraphInv, StepsInv, EndInv

(* Its answer is saved. *)
LEMMA ReturnedInv == ASSUME GraphInv, NEW n \in Step, Returned(n) PROVE GraphInv'
<1>1. /\ GraphTypes /\ inst \in InstanceRecord /\ EngineTypes
      /\ signalled \subseteq Step \cup {"task"} /\ delays \subseteq Step
  BY DEF GraphInv, GraphTypes, EngineTypes
<1> DEFINE p == SetState(inst, n, "completed")
<1>2. /\ p \in InstanceRecord /\ Kept(inst, p) /\ p.state[n] = "completed"
      /\ \A m \in Step : m # n => p.state[m] = inst.state[m]
  BY <1>1, SetStateFields, SetStateKept DEF States
<1> HIDE DEF p
<1>3. Kept(inst, Refresh(p)) /\ Refresh(p).state = p.state /\ Refresh(p) \in InstanceRecord
  BY <1>2, RefreshKept, KeptTrans DEF Kept
<1>4. PICK chosen \in Decided(n) : Save(SetEdges(Refresh(p), chosen, Out(n)))
  BY DEF Returned, p
<1> DEFINE q == SetEdges(Refresh(p), chosen, Out(n))
<1>5. Kept(inst, q) /\ q.state = p.state
  BY <1>3, EdgesKept, KeptTrans
<1> HIDE DEF q
<1>6. /\ UNCHANGED <<graph, execution, up, task, batch, signalled, delays, delayCall, settling,
                     performed, stops>>
      /\ WorkerGoes(n, "storing") /\ worker[n] = "performing" /\ inst' = q
  BY <1>4 DEF Returned, q, Save
<1>7. KeepsRecord
  BY <1>4, <1>5, <1>6, SavedKeeps DEF q
<1>8. SettlesAs
  BY <1>1, <1>6, SettlesSame
<1> QED BY <1>1, <1>2, <1>5, <1>6, <1>7, <1>8, WorkerInv DEF Pcs
(* It has failed: again while it has attempts, else skipped or failed. *)
LEMMA FailsInv == ASSUME GraphInv, NEW n \in Step, NodeFails(n) PROVE GraphInv'
<1>1. /\ GraphTypes /\ inst \in InstanceRecord /\ EngineTypes
      /\ signalled \subseteq Step \cup {"task"} /\ delays \subseteq Step
  BY DEF GraphInv, GraphTypes, EngineTypes
<1>2. PICK r \in InstanceRecord :
        /\ r = Refresh(inst) /\ Kept(inst, r) /\ r.state = inst.state
        /\ r.attempts = inst.attempts
  BY <1>1, RefreshKept DEF Kept, Follows
<1>3. /\ UNCHANGED <<graph, execution, up, task, batch, signalled, delays, delayCall, settling,
                     performed, stops>>
      /\ worker[n] = "performing"
  BY DEF NodeFails
<1>4. ASSUME NEW q, Kept(inst, q), Save(q), NEW pc \in {"storing", "failing"}, WorkerGoes(n, pc),
             \A m \in Step : m # n => q.state[m] = inst.state[m], q.state[n] # "waiting"
      PROVE  GraphInv'
  <2>1. KeepsRecord /\ inst' = q
    BY <1>3, <1>4, SavedKeeps DEF Save
  <2>2. SettlesAs
    BY <1>1, <1>3, SettlesSame
  <2> QED BY <1>1, <1>3, <1>4, <2>1, <2>2, WorkerInv DEF Pcs
<1>5. CASE inst.attempts[n] < graph.attempts[n]
  <2> DEFINE p == SetState(r, n, "pending")
             q == [p EXCEPT !.forced = inst.forced \cup {n}]
  <2>0. "pending" \in States
    BY DEF States
  <2>1. /\ p \in InstanceRecord /\ p.state[n] = "pending"
        /\ \A m \in Step : m # n => p.state[m] = r.state[m]
    BY <2>0, SetStateFields
  <2>1a. Kept(r, p)
    BY <1>2, <1>5, <2>0, SetStateKept
  <2>2. inst.forced \cup {n} \in SUBSET Step
    BY <1>1 DEF InstanceRecord
  <2>3. Save(q) /\ WorkerGoes(n, "storing")
    BY <1>2, <1>5 DEF NodeFails
  <2> HIDE DEF p
  <2>4. Kept(p, q) /\ q.state = p.state
    BY <2>1, <2>2, ForcedKept
  <2>5. Kept(inst, q)
    BY <1>2, <2>1a, <2>4, KeptTrans
  <2> HIDE DEF q
  <2> QED BY <1>2, <1>4, <2>1, <2>3, <2>4, <2>5
<1>6. CASE ~(inst.attempts[n] < graph.attempts[n]) /\ n \in graph.skips
  <2> DEFINE p == SetState(r, n, "skipped")
             q == SetEdges(p, Out(n), Out(n))
  <2>0. "skipped" \in States
    BY DEF States
  <2>1. /\ p \in InstanceRecord /\ p.state[n] = "skipped"
        /\ \A m \in Step : m # n => p.state[m] = r.state[m]
    BY <2>0, SetStateFields
  <2>1a. Kept(r, p)
    BY <1>2, <2>0, SetStateKept
  <2>2. Save(q) /\ WorkerGoes(n, "storing")
    BY <1>2, <1>6 DEF NodeFails
  <2> HIDE DEF p
  <2>3. Kept(p, q) /\ q.state = p.state
    BY <2>1, EdgesKept
  <2>4. Kept(inst, q)
    BY <1>2, <2>1a, <2>3, KeptTrans
  <2> HIDE DEF q
  <2> QED BY <1>2, <1>4, <2>1, <2>2, <2>3, <2>4
<1>7. CASE ~(inst.attempts[n] < graph.attempts[n]) /\ n \notin graph.skips
  <2> DEFINE p == SetState(r, n, "failed")
  <2>0. "failed" \in States
    BY DEF States
  <2>1. /\ p \in InstanceRecord /\ p.state[n] = "failed"
        /\ \A m \in Step : m # n => p.state[m] = r.state[m]
    BY <2>0, SetStateFields
  <2>1a. Kept(r, p)
    BY <1>2, <2>0, SetStateKept
  <2>2. Save(p) /\ WorkerGoes(n, "failing")
    BY <1>2, <1>7 DEF NodeFails
  <2> HIDE DEF p
  <2>3. Kept(inst, p)
    BY <1>2, <2>1a, KeptTrans
  <2> QED BY <1>2, <1>4, <2>1, <2>2, <2>3
<1> QED BY <1>5, <1>6, <1>7

(* An end in memory, saved later: the record is settled as it says. *)
LEMMA StatusKeeps ==
  ASSUME GraphTypes, NEW o \in {"completed", "failed", "cancelled"}, ~IsTerminal,
         inst' = [inst EXCEPT !.status = o], UNCHANGED <<graph, stored, execution>>,
         NEW s \in {"begun", "delays"}, settling' = [settling EXCEPT ![o] = s]
  PROVE  KeepsRecord /\ SettlesAs /\ inst'.state = inst.state
<1>1. o \in Active \cup Terminal /\ o \in Outcome /\ EndsAs(o) = o /\ inst \in InstanceRecord
  BY DEF Active, Terminal, Outcome, EndsAs, GraphTypes
<1>2. KeepsRecord /\ inst'.state = inst.state /\ inst'.status = o
  BY <1>1, StatusKept, StatusFields DEF KeepsRecord, IsTerminal
<1>3. settling \in [Outcome -> Settlings]
  BY DEF GraphTypes, EngineTypes
<1>4. SettlesAs
  BY <1>1, <1>2, <1>3 DEF SettlesAs, Settlings
<1> QED BY <1>2, <1>4

LEMMA AbortTypes == ASSUME GraphTypes, AbortTask PROVE signalled' \subseteq Step \cup {"task"}
BY DEF AbortTask, Busy, GraphTypes, EngineTypes

(* The write is over, or the step ends the instance. *)
LEMMA StoredInv ==
  ASSUME GraphInv, NEW n \in Step, Stored(n) \/ StepFails(n) PROVE GraphInv'
<1>1. /\ GraphTypes /\ inst \in InstanceRecord /\ EngineTypes
      /\ signalled \subseteq Step \cup {"task"} /\ delays \subseteq Step
  BY DEF GraphInv, GraphTypes, EngineTypes
<1>2. /\ UNCHANGED <<graph, stored, execution, up, task, batch, delays, delayCall, performed, stops>>
      /\ worker[n] \in {"storing", "failing"}
      /\ signalled' \subseteq Step \cup {"task"}
  BY <1>1, AbortTypes DEF Stored, StepFails
<1>3. CASE UNCHANGED <<inst, settling>>
  <2>1. PICK pc \in {"continue", "terminal"} : WorkerGoes(n, pc)
    <3>1. inst.status \in Active \cup Terminal
      BY <1>1 DEF InstanceRecord
    <3>2. CASE Stored(n)
      <4>1. CASE graph.kind[n] # "end" \/ inst.state[n] # "completed" \/ IsTerminal
        BY <3>2, <4>1 DEF Stored
      <4>2. CASE ~(graph.kind[n] # "end" \/ inst.state[n] # "completed") /\ ~IsTerminal
        <5>1. inst' = [inst EXCEPT !.status = "completed"] /\ "completed" \in Terminal
          BY <3>2, <4>2 DEF Stored, Terminal
        <5>2. inst'.status = "completed"
          BY <1>1, <5>1, StatusFields
        <5> QED BY <1>3, <4>2, <5>1, <5>2 DEF IsTerminal
      <4> QED BY <4>1, <4>2
    <3>3. CASE StepFails(n)
      <4>1. CASE IsTerminal
        BY <3>3, <4>1 DEF StepFails
      <4>2. CASE ~IsTerminal
        <5>1. inst' = [inst EXCEPT !.status = "failed"] /\ "failed" \in Terminal
          BY <3>3, <4>2 DEF StepFails, Terminal
        <5>2. inst'.status = "failed"
          BY <1>1, <5>1, StatusFields
        <5> QED BY <1>3, <4>2, <5>1, <5>2 DEF IsTerminal
      <4> QED BY <4>1, <4>2
    <3> QED BY <3>2, <3>3
  <2>2. KeepsRecord /\ SettlesAs
    BY <1>1, <1>2, <1>3, AloneKeeps, SettlesSame
  <2> QED BY <1>1, <1>2, <1>3, <2>1, <2>2, WorkerInv DEF Pcs
<1>4. ASSUME NEW o \in {"completed", "failed"}, ~IsTerminal,
             inst' = [inst EXCEPT !.status = o], settling' = [settling EXCEPT ![o] = "begun"],
             WorkerGoes(n, "settling")
      PROVE  GraphInv'
  <2>1. KeepsRecord /\ SettlesAs /\ inst'.state = inst.state
    BY <1>1, <1>2, <1>4, StatusKeeps
  <2> QED BY <1>1, <1>2, <1>4, <2>1, WorkerInv DEF Pcs
<1> QED BY <1>3, <1>4 DEF Stored, StepFails

(* A prompt whose outcome the gateway does not know ends the instance at once. *)
LEMMA UncertainInv == ASSUME GraphInv, NEW n \in Step, PromptUncertain(n) PROVE GraphInv'
<1>1. /\ GraphTypes /\ inst \in InstanceRecord /\ EngineTypes
      /\ signalled \subseteq Step \cup {"task"} /\ delays \subseteq Step
  BY DEF GraphInv, GraphTypes, EngineTypes
<1>2. /\ UNCHANGED <<graph, stored, execution, up, task, batch, delays, delayCall, performed, stops>>
      /\ worker[n] = "performing" /\ WorkerGoes(n, "settling") /\ ~IsTerminal
      /\ settling' = [settling EXCEPT !["failed"] = "begun"]
      /\ signalled' \subseteq Step \cup {"task"}
  BY <1>1, AbortTypes DEF PromptUncertain
<1> DEFINE p == SetState(inst, n, "failed")
<1>3. /\ p \in InstanceRecord /\ p.status = inst.status /\ p.state[n] = "failed"
      /\ \A m \in Step : m # n => p.state[m] = inst.state[m]
  BY <1>1, SetStateFields DEF States
<1>4. Kept(inst, p)
  BY <1>1, SetStateKept DEF States
<1>5. inst' = [p EXCEPT !.status = "failed"]
  BY DEF PromptUncertain
<1> HIDE DEF p
<1>6. Kept(p, inst') /\ inst'.state = p.state /\ inst'.status = "failed"
  BY <1>2, <1>3, <1>5, StatusKept, StatusFields DEF Terminal, IsTerminal
<1>7. KeepsRecord
  BY <1>2, <1>4, <1>6, KeptTrans DEF KeepsRecord
<1>8. SettlesAs
  <2>1. settling \in [Outcome -> Settlings] /\ "failed" \in Outcome /\ EndsAs("failed") = "failed"
    BY <1>1 DEF EngineTypes, Outcome, EndsAs
  <2> QED BY <1>2, <1>6, <2>1 DEF SettlesAs, Settlings
<1> QED BY <1>1, <1>2, <1>3, <1>6, <1>7, <1>8, WorkerInv DEF Pcs

(* A question, its answer abandoned, and the timer of a delay. *)
LEMMA WorkerStepInv ==
  ASSUME GraphInv, NEW n \in Step, WorkerStep(n) PROVE GraphInv'
<1>1. /\ GraphTypes /\ inst \in InstanceRecord /\ EngineTypes
      /\ signalled \subseteq Step \cup {"task"} /\ delays \subseteq Step
      /\ EndInv
  BY DEF GraphInv, GraphTypes, EngineTypes
<1>2. CASE Ask(n)
  <2>1. n \notin Tools /\ inst.status \notin Terminal
    BY <1>2 DEF Ask, Tools, IsTerminal
  <2> DEFINE q == [SetState(inst, n, "waiting") EXCEPT !.status = "waiting"]
  <2>2. Kept(inst, q) /\ \A m \in Step : m # n => q.state[m] = inst.state[m]
    BY <1>1, <2>1, WaitingFields
  <2>3. Save(q) /\ inst' = q
    BY <1>2 DEF Ask, Save
  <2> HIDE DEF q
  <2>4. /\ UNCHANGED <<graph, execution, up, task, batch, signalled, delays, delayCall, settling,
                       performed, stops>>
        /\ WorkerGoes(n, "asking") /\ worker[n] = "starting" /\ graph.kind[n] = "feedback_gate"
    BY <1>2 DEF Ask
  <2>5. KeepsRecord /\ SettlesAs
    BY <1>1, <2>2, <2>3, <2>4, SavedKeeps, SettlesSame
  <2> QED BY <1>1, <2>2, <2>3, <2>4, <2>5, WorkerInv DEF Pcs
<1>3. CASE Abandon(n)
  <2>1. PICK pc \in {"threw", "terminal"} : WorkerGoes(n, pc)
    BY <1>3 DEF Abandon
  <2>2. /\ UNCHANGED <<graph, inst, stored, execution, up, task, batch, signalled, delays,
                       delayCall, settling, performed, stops>>
        /\ worker[n] \in {"starting", "asking", "performing"}
    BY <1>3 DEF Abandon
  <2>3. KeepsRecord /\ SettlesAs
    BY <1>1, <2>2, AloneKeeps, SettlesSame
  <2> QED BY <1>1, <2>1, <2>2, <2>3, WorkerInv DEF Pcs
<1>4. CASE Delayed(n) \/ ArmDelay(n)
  <2>1. PICK pc \in {"arming", "waiting"} : WorkerGoes(n, pc)
    BY <1>4 DEF Delayed, ArmDelay
  <2>2. /\ UNCHANGED <<graph, inst, stored, execution, up, task, batch, signalled,
                       delayCall, settling, performed, stops>>
        /\ worker[n] \in {"delaying", "arming"} /\ delays' \subseteq Step
    BY <1>1, <1>4 DEF Delayed, ArmDelay
  <2>3. KeepsRecord /\ SettlesAs
    BY <1>1, <2>2, AloneKeeps, SettlesSame
  <2>4. Delays # {}
    BY <1>1, <2>2 DEF EndInv, Attended
  <2> QED BY <1>1, <2>1, <2>2, <2>3, <2>4, WorkerInv DEF Pcs
<1> QED BY <1>2, <1>3, <1>4, StartDelayInv, PerformInv, ReturnedInv, FailsInv, UncertainInv,
        StoredInv DEF WorkerStep

(********************************** The task ***********************************)

(* A step of the task that starts nothing. *)
LEMMA TaskInv ==
  ASSUME GraphInv, KeepsRecord, SettlesAs,
         UNCHANGED <<up, worker, delayCall, performed, stops>>,
         task' \in Tasks, batch' \subseteq Step, signalled' \subseteq Step \cup {"task"},
         delays' \in {delays, {}},
         Delays = {} => Attended'
  PROVE  GraphInv'
<1>1. GraphTypes /\ EngineTypes /\ graph' = graph /\ Step' = Step
  BY SameGraph DEF GraphInv, GraphTypes, KeepsRecord
<1>2. EngineTypes'
  BY <1>1 DEF EngineTypes, SettlesAs
<1>3. Quietly
  BY DEF Quietly
<1> QED BY <1>1, <1>2, <1>3, Keeps DEF KeepsRecord

(* Once around: the batch is over when all of its steps go on. *)
LEMMA AroundInv == ASSUME GraphInv, Around PROVE GraphInv'
<1>1. /\ GraphTypes /\ inst \in InstanceRecord /\ EngineTypes /\ EndInv
      /\ batch \subseteq Step /\ signalled \subseteq Step \cup {"task"}
  BY DEF GraphInv, GraphTypes, EngineTypes
<1>2. /\ task \in {"spawned", "batch"}
      /\ task = "batch" => \A n \in batch : worker[n] \in {"continue", "waiting"}
      /\ task' \in {"ending", "choosing"}
      /\ UNCHANGED <<graph, execution, up, batch, worker, signalled, delays, delayCall, settling,
                     performed, stops>>
  BY DEF Around
<1>3. /\ KeepsRecord
      /\ \A n \in Step : inst'.state[n] = "waiting" => inst.state[n] = "waiting"
  <2>1. UNCHANGED <<inst, stored>> \/ Save(Propagated)
    BY DEF Around
  <2>2. CASE UNCHANGED <<inst, stored>>
    BY <1>1, <1>2, <2>2, AloneKeeps
  <2>3. CASE Save(Propagated)
    BY <1>1, <1>2, <2>3, PropagatedKept, SavedKeeps DEF Save
  <2> QED BY <2>1, <2>2, <2>3
<1>4. ASSUME Delays = {} PROVE Attended'
  <2>1. Attended /\ Step' = Step
    BY <1>1, <1>2, <1>4, SameGraph DEF EndInv
  <2>2. \A n \in Step : worker[n] \in {"idle", "continue"}
    BY <1>2, <2>1 DEF Attended
  <2> QED BY <1>2, <1>3, <2>1, <2>2 DEF Attended
<1>5. SettlesAs /\ task' \in Tasks
  BY <1>1, <1>2, SettlesSame DEF Tasks
<1> QED BY <1>1, <1>2, <1>3, <1>4, <1>5, TaskInv

(* The attempts that begin together. *)
LEMMA BegunFields ==
  ASSUME inst \in InstanceRecord
  PROVE  /\ Begun \in InstanceRecord /\ Begun.closing = inst.closing
         /\ inst.status \in Terminal => Begun.status = inst.status
         /\ Begun.preserved = inst.preserved \ Ready
         /\ \A n \in Step :
              /\ Begun.state[n] = IF n \in Ready THEN "running" ELSE inst.state[n]
              /\ Begun.attempts[n] = IF n \in Ready \ inst.preserved THEN inst.attempts[n] + 1
                                     ELSE inst.attempts[n]
<1> DEFINE state == [n \in Step |-> IF n \in Ready THEN "running" ELSE inst.state[n]]
           attempts == [n \in Step |-> IF n \in Ready \ inst.preserved THEN inst.attempts[n] + 1
                                       ELSE inst.attempts[n]]
           kept == inst.preserved \ Ready
           q == [inst EXCEPT !.forced = {}, !.state = state, !.attempts = attempts,
                             !.preserved = kept]
<1>1. /\ state \in [Step -> States] /\ attempts \in [Step -> Nat] /\ kept \in SUBSET Step
      /\ \A n \in Step : /\ state[n] = IF n \in Ready THEN "running" ELSE inst.state[n]
                         /\ attempts[n] = IF n \in Ready \ inst.preserved THEN inst.attempts[n] + 1
                                          ELSE inst.attempts[n]
  BY DEF InstanceRecord, States
<1> HIDE DEF state, attempts, kept
<1>2. /\ q \in InstanceRecord /\ q.status = inst.status /\ q.state = state
      /\ q.attempts = attempts /\ q.preserved = kept /\ q.closing = inst.closing
  BY <1>1 DEF InstanceRecord
<1>3. Begun = Refresh(q)
  BY DEF Begun, state, attempts, kept
<1> HIDE DEF q
<1>4. /\ Kept(q, Begun) /\ Begun.state = q.state
  BY <1>2, <1>3, RefreshKept
<1>5. Begun.preserved = inst.preserved \ Ready
  BY <1>2, <1>4 DEF Kept, Follows, kept
<1> QED BY <1>1, <1>2, <1>4, <1>5 DEF Kept, Follows

(* The ready steps begin an attempt each. *)
LEMMA ChooseInv == ASSUME GraphInv, Choose PROVE GraphInv'
<1>1. /\ GraphTypes /\ inst \in InstanceRecord /\ EngineTypes /\ EndInv /\ StepsInv
      /\ batch \subseteq Step /\ signalled \subseteq Step \cup {"task"} /\ graph \in Graphs
      /\ performed \in [Step -> Nat] /\ Ready \subseteq Step
  BY DEF GraphInv, GraphTypes, EngineTypes, Ready
<1>2. /\ UNCHANGED <<graph, execution, up, delays, delayCall, settling, performed, stops>>
      /\ task = "choosing"
  BY DEF Choose
<1>3. SettlesAs /\ Step' = Step /\ Delays' = Delays /\ InstanceRecord' = InstanceRecord
      /\ Tools' = Tools /\ Counted' = Counted
  BY <1>1, <1>2, SettlesSame, SameGraph
<1>4. CASE IsTerminal
  <2>1. /\ inst' = [inst EXCEPT !.forced = {}] /\ task' = "ending"
        /\ UNCHANGED <<stored, batch, worker, signalled>>
    BY <1>4 DEF Choose
  <2>2. Kept(inst, inst') /\ inst'.state = inst.state
    BY <1>1, <2>1, ForcedKept
  <2>3. KeepsRecord
    BY <1>2, <2>1, <2>2 DEF KeepsRecord
  <2>4. Delays = {} => Attended'
    BY <1>1, <1>2, <1>3, <2>1, <2>2 DEF EndInv, Attended
  <2>5. task' \in Tasks
    BY <2>1 DEF Tasks
  <2> QED BY <1>1, <1>2, <1>3, <2>1, <2>3, <2>4, <2>5, TaskInv
<1>5. CASE ~IsTerminal
  <2>1. /\ inst' = Begun /\ stored' = Begun /\ task' = "batch" /\ batch' = Ready
        /\ worker' = [n \in Step |-> IF n \in Ready THEN "starting" ELSE worker[n]]
        /\ signalled' \subseteq signalled \cup Ready
    BY <1>5 DEF Choose, Save
  <2>2. \A n \in Step : worker'[n] = IF n \in Ready THEN "starting" ELSE worker[n]
    BY <2>1
  <2>3. worker' \in [Step -> Pcs]
    BY <1>1, <2>1 DEF EngineTypes, Pcs
  <2>4. Begun \in InstanceRecord
    BY <1>1, BegunFields
  <2>5. GraphTypes'
    <3>1. EngineTypes'
      BY <1>1, <1>2, <1>3, <2>1, <2>3 DEF EngineTypes, Tasks
    <3> QED BY <1>1, <1>2, <1>3, <2>1, <2>4, <3>1 DEF GraphTypes
  <2>6. \A n \in Step : inst.attempts[n] \in Nat /\ graph.attempts[n] \in Nat
    BY <1>1, GraphAssumption DEF InstanceRecord, Step
  <2>7. Tries(Begun)
    <3>1. ASSUME NEW n \in Counted
          PROVE  /\ Begun.attempts[n] <= graph.attempts[n]
                 /\ Begun.state[n] = "pending" /\ n \notin Begun.preserved =>
                      Begun.attempts[n] < graph.attempts[n]
      <4>1. n \in Step /\ inst.attempts[n] \in Nat /\ graph.attempts[n] \in Nat
        BY <2>6, <3>1 DEF Counted
      <4>2. /\ inst.attempts[n] <= graph.attempts[n]
            /\ inst.state[n] = "pending" /\ n \notin inst.preserved =>
                 inst.attempts[n] < graph.attempts[n]
        BY <1>1, <3>1 DEF StepsInv, Tries
      <4>3. CASE n \in Ready
        <5>1. inst.state[n] = "pending" /\ Begun.state[n] = "running"
          BY <1>1, <4>1, <4>3, BegunFields DEF Ready
        <5>2. Begun.attempts[n] = IF n \in inst.preserved THEN inst.attempts[n]
                                  ELSE inst.attempts[n] + 1
          BY <1>1, <4>1, <4>3, BegunFields
        <5> QED BY <4>1, <4>2, <5>1, <5>2
      <4>4. CASE n \notin Ready
        <5>1. /\ Begun.state[n] = inst.state[n] /\ Begun.attempts[n] = inst.attempts[n]
              /\ Begun.preserved = inst.preserved \ Ready
          BY <1>1, <4>1, <4>4, BegunFields
        <5> QED BY <4>2, <4>4, <5>1
      <4> QED BY <4>3, <4>4
    <3>2. ASSUME NEW n \in Tools PROVE n \notin Begun.preserved /\ Begun.state[n] # "waiting"
      <4>1. n \in Step /\ n \notin inst.preserved /\ inst.state[n] # "waiting"
        BY <1>1, <3>2 DEF StepsInv, Tries, Tools
      <4> QED BY <1>1, <4>1, BegunFields
    <3> QED BY <3>1, <3>2 DEF Tries
  <2>8. Tries(inst)' /\ Tries(stored)'
    BY <1>2, <1>3, <2>1, <2>7 DEF Tries
  <2>9. Performed'
    <3>1. ASSUME NEW n \in Tools
          PROVE  /\ performed'[n] <= inst'.attempts[n]
                 /\ worker'[n] = "starting" => performed'[n] < inst'.attempts[n]
      <4>1. /\ n \in Step /\ n \notin inst.preserved /\ performed[n] \in Nat
            /\ inst.attempts[n] \in Nat
            /\ performed[n] <= inst.attempts[n]
            /\ worker[n] = "starting" => performed[n] < inst.attempts[n]
        BY <1>1, <2>6, <3>1 DEF StepsInv, Tries, Tools, Performed
      <4>2. Begun.attempts[n] = IF n \in Ready THEN inst.attempts[n] + 1 ELSE inst.attempts[n]
        BY <1>1, <4>1, BegunFields
      <4> QED BY <1>2, <2>1, <2>2, <4>1, <4>2
    <3>2. ASSUME NEW n \in Step, worker'[n] = "asking" PROVE graph.kind[n] = "feedback_gate"
      BY <1>1, <2>2, <3>2 DEF StepsInv, Performed
    <3> QED BY <1>2, <1>3, <3>1, <3>2 DEF Performed
  <2>10. ASSUME Delays = {} PROVE SettledAt' /\ Attended'
    <3>1. EndIsKept
      BY <1>1, <1>2, <2>1, BegunFields DEF EndIsKept
    <3>2. SettledAt'
      BY <1>1, <1>3, <2>10, <3>1, KeepsSettled DEF EndInv, SettlesAs
    <3>3. Attended
      BY <1>1, <2>10 DEF EndInv
    <3>4. \A n \in Step : worker[n] \in {"idle", "continue"} /\ inst.state[n] # "waiting"
      BY <1>2, <3>3 DEF Attended
    <3>5. \A n \in Step : inst'.state[n] # "waiting"
      BY <1>1, <2>1, <3>4, BegunFields
    <3>6. up
      BY <1>2, <3>3 DEF Attended
    <3>7. \A n \in Step : worker'[n] \in {"idle", "continue", "starting"}
                          /\ (n \notin Ready => worker'[n] \in {"idle", "continue"})
      BY <2>2, <3>4
    <3> QED BY <1>2, <1>3, <2>1, <3>2, <3>3, <3>5, <3>6, <3>7 DEF Attended
  <2> QED BY <1>3, <2>1, <2>5, <2>8, <2>9, <2>10 DEF GraphInv, StepsInv, EndInv
<1> QED BY <1>4, <1>5

(* The task finds nothing to begin.  Without delays nothing waits then. *)
LEMMA ChooseNothingInv == ASSUME GraphInv, ChooseNothing PROVE GraphInv'
<1>1. /\ GraphTypes /\ inst \in InstanceRecord /\ EngineTypes /\ EndInv
      /\ batch \subseteq Step /\ signalled \subseteq Step \cup {"task"}
      /\ execution \in Outcome \cup {"open"}
  BY DEF GraphInv, GraphTypes, EngineTypes
<1>2. /\ UNCHANGED <<graph, execution, up, batch, worker, signalled, delays, delayCall, settling,
                     performed, stops>>
      /\ task = "choosing" /\ task' \in {"leaving", "ending", "failing"}
  BY DEF ChooseNothing
<1>3. SettlesAs /\ Step' = Step /\ Quietly /\ task' \in Tasks
  BY <1>1, <1>2, SettlesSame, SameGraph DEF Quietly, Tasks
<1> DEFINE p == [inst EXCEPT !.forced = {}]
<1>4. Kept(inst, p) /\ p.state = inst.state /\ p \in InstanceRecord
  BY <1>1, ForcedKept DEF Kept
<1>5. CASE \E n \in Step : inst.state[n] = "waiting"
  <2> HIDE DEF p
  <2> DEFINE q == [p EXCEPT !.status = "waiting"]
  <2>1. inst' = q /\ stored' = q
    BY <1>5 DEF ChooseNothing, Save, p
  <2>2. q \in InstanceRecord /\ Follows(inst, q)
    <3>1. /\ q \in InstanceRecord /\ q.state = p.state /\ q.attempts = p.attempts
          /\ q.preserved = p.preserved
      BY <1>4, StatusFields DEF Active
    <3> QED BY <1>4, <3>1 DEF Kept, Follows
  <2> HIDE DEF q
  <2>3. RecordFollows
    BY <1>1, <1>2, <2>1, <2>2 DEF RecordFollows
  <2>4. EngineTypes'
    BY <1>1, <1>2, <1>3 DEF EngineTypes
  <2>5. Delays # {}
    BY <1>1, <1>2, <1>5 DEF EndInv, Attended
  <2> QED BY <1>2, <1>3, <2>3, <2>4, <2>5, FollowsInv
<1>6. CASE ~\E n \in Step : inst.state[n] = "waiting"
  <2>1. inst' = p /\ stored' = stored
    BY <1>6 DEF ChooseNothing
  <2> HIDE DEF p
  <2>2. KeepsRecord
    BY <1>2, <1>4, <2>1 DEF KeepsRecord
  <2>3. Delays = {} => Attended'
    BY <1>1, <1>2, <1>3, <1>4, <2>1 DEF EndInv, Attended
  <2> QED BY <1>1, <1>2, <1>3, <2>2, <2>3, TaskInv
<1> QED BY <1>5, <1>6

(* The task ends, or fails the instance. *)
LEMMA TaskStepInv == ASSUME GraphInv, TaskStep PROVE GraphInv'
<1>1. /\ GraphTypes /\ inst \in InstanceRecord /\ EngineTypes /\ EndInv
      /\ batch \subseteq Step /\ signalled \subseteq Step \cup {"task"}
  BY DEF GraphInv, GraphTypes, EngineTypes
<1>2. CASE Leave \/ TaskEnds
  <2>1. /\ UNCHANGED <<graph, inst, stored, execution, up, worker, signalled, delays, delayCall,
                       settling, performed, stops>>
        /\ task' \in {"ending", "none"} /\ batch' \in {batch, {}}
        /\ task \in {"batch", "leaving", "ending"}
    BY <1>2 DEF Leave, TaskEnds
  <2>2. KeepsRecord /\ SettlesAs /\ Step' = Step /\ task' \in Tasks
    BY <1>1, <2>1, AloneKeeps, SettlesSame, SameGraph DEF Tasks
  <2>3. Delays = {} => Attended'
    BY <1>1, <2>1, <2>2 DEF EndInv, Attended
  <2> QED BY <1>1, <2>1, <2>2, <2>3, TaskInv
<1>3. CASE TaskFails
  <2>1. /\ UNCHANGED <<graph, stored, execution, up, batch, worker, delays, delayCall, performed,
                       stops>>
        /\ task = "failing" /\ task' \in {"failing", "ending"}
        /\ signalled' \subseteq Step \cup {"task"} /\ Step' = Step
    BY <1>1, <1>3, AbortTypes, SameGraph DEF TaskFails
  <2>2. KeepsRecord /\ SettlesAs /\ inst'.state = inst.state
    <3>1. CASE IsTerminal
      BY <1>1, <1>3, <2>1, <3>1, AloneKeeps, SettlesSame DEF TaskFails
    <3>2. CASE ~IsTerminal
      BY <1>1, <1>3, <2>1, <3>2, StatusKeeps DEF TaskFails
    <3> QED BY <3>1, <3>2
  <2>3. Delays = {} => Attended'
    BY <1>1, <2>1, <2>2 DEF EndInv, Attended
  <2>4. task' \in Tasks
    BY <2>1 DEF Tasks
  <2> QED BY <1>1, <2>1, <2>2, <2>3, <2>4, TaskInv
<1> QED BY <1>2, <1>3, AroundInv, ChooseInv, ChooseNothingInv DEF TaskStep

(* A cancel, and the delays it ends. *)
LEMMA CancelInstanceInv == ASSUME GraphInv, CancelInstance \/ CancelDelays PROVE GraphInv'
<1>1. /\ GraphTypes /\ inst \in InstanceRecord /\ EngineTypes /\ EndInv
      /\ batch \subseteq Step /\ signalled \subseteq Step \cup {"task"} /\ task \in Tasks
  BY DEF GraphInv, GraphTypes, EngineTypes
<1>2. CASE CancelInstance
  <2>1. /\ UNCHANGED <<graph, stored, execution, up, task, batch, worker, delays, delayCall,
                       performed, stops>>
        /\ signalled' \subseteq Step \cup {"task"} /\ Step' = Step
    BY <1>1, <1>2, AbortTypes, SameGraph DEF CancelInstance
  <2>2. ~IsTerminal
    BY <1>2 DEF CancelInstance, IsTerminal, Active, Terminal
  <2>3. KeepsRecord /\ SettlesAs /\ inst'.state = inst.state
    BY <1>1, <1>2, <2>1, <2>2, StatusKeeps DEF CancelInstance
  <2>4. Delays = {} => Attended'
    BY <1>1, <2>1, <2>3 DEF EndInv, Attended
  <2> QED BY <1>1, <2>1, <2>3, <2>4, TaskInv
<1>3. CASE CancelDelays
  <2>1. /\ UNCHANGED <<graph, inst, stored, execution, up, task, batch, worker, signalled,
                       delayCall, performed, stops>>
        /\ delays' = {} /\ settling["cancelled"] = "delays"
        /\ settling' = [settling EXCEPT !["cancelled"] = "begun"]
    BY <1>3 DEF CancelDelays
  <2>2. KeepsRecord /\ Step' = Step
    BY <1>1, <2>1, AloneKeeps, SameGraph
  <2>3. SettlesAs
    BY <1>1, <2>1 DEF SettlesAs, EngineTypes, Settlings, Outcome
  <2>4. Delays = {} => Attended'
    BY <1>1, <2>1, <2>2 DEF EndInv, Attended
  <2> QED BY <1>1, <2>1, <2>2, <2>3, <2>4, TaskInv
<1> QED BY <1>2, <1>3

LEMMA SpawnTypes ==
  ASSUME EngineTypes, Spawn PROVE task' \in Tasks /\ signalled' \subseteq Step \cup {"task"}
BY DEF EngineTypes, Spawn, Tasks

(* A delay is over. *)
LEMMA DelayInv ==
  ASSUME GraphInv, NEW n \in Step, DelayFires(n) \/ DelayEnds(n) PROVE GraphInv'
<1>1. /\ GraphTypes /\ inst \in InstanceRecord /\ EngineTypes /\ EndInv
      /\ signalled \subseteq Step \cup {"task"} /\ task \in Tasks
      /\ delays \subseteq Step /\ delayCall \subseteq Step
  BY DEF GraphInv, GraphTypes, EngineTypes
<1>2. Delays # {}
  BY <1>1 DEF EndInv, Attended, DelayFires, DelayEnds
<1>3. /\ UNCHANGED <<graph, execution, up, batch, worker, settling, performed, stops>>
      /\ delays' \subseteq Step /\ delayCall' \subseteq Step
      /\ task' \in Tasks /\ signalled' \subseteq Step \cup {"task"}
  BY <1>1, SpawnTypes DEF DelayFires, DelayEnds
<1>4. SettlesAs /\ Quietly /\ Step' = Step
  BY <1>1, <1>3, SettlesSame, SameGraph DEF Quietly
<1>5. EngineTypes'
  BY <1>1, <1>3, <1>4 DEF EngineTypes
<1>6. KeepsRecord
  <2> DEFINE p == SetState(inst, n, "completed")
             q == SetEdges(Refresh(p), Out(n), Out(n))
  <2>1. UNCHANGED <<inst, stored>> \/ Save(q)
    BY DEF DelayFires, DelayEnds
  <2>2. p \in InstanceRecord /\ Kept(inst, p)
    BY <1>1, SetStateFields, SetStateKept DEF States
  <2> HIDE DEF p
  <2>3. Kept(p, Refresh(p)) /\ Refresh(p) \in InstanceRecord
    BY <2>2, RefreshKept DEF Kept
  <2>4. Kept(Refresh(p), q)
    BY <2>3, EdgesKept
  <2>5. Kept(inst, q)
    BY <2>2, <2>3, <2>4, KeptTrans
  <2> HIDE DEF q
  <2> QED BY <1>1, <1>3, <2>1, <2>5, AloneKeeps, SavedKeeps
<1> QED BY <1>2, <1>3, <1>4, <1>5, <1>6, Keeps

(********************************** Its close **********************************)

(* What is being closed is written into the record, and taken out of it. *)
LEMMA ClosingFields ==
  ASSUME inst \in InstanceRecord, NEW c \in Outcome \cup {"none"}
  PROVE  LET q == [inst EXCEPT !.closing = c]
         IN  /\ q \in InstanceRecord /\ Follows(inst, q) /\ q.closing = c
             /\ q.status = inst.status /\ q.state = inst.state
<1> DEFINE q == [inst EXCEPT !.closing = c]
<1>1. /\ q \in InstanceRecord /\ q.closing = c /\ q.status = inst.status /\ q.state = inst.state
      /\ q.attempts = inst.attempts /\ q.preserved = inst.preserved
  BY DEF InstanceRecord
<1> HIDE DEF q
<1>2. Follows(inst, q)
  BY <1>1 DEF Follows
<1> QED BY <1>1, <1>2 DEF q

(* A write of the close: it moves nothing else. *)
LEMMA CloseInv ==
  ASSUME GraphInv, RecordFollows, inst'.state = inst.state,
         settling' \in [Outcome -> Settlings],
         UNCHANGED <<up, task, batch, worker, signalled, delays, delayCall, performed, stops>>,
         Delays = {} => SettledAt'
  PROVE  GraphInv'
<1>1. GraphTypes /\ EngineTypes /\ EndInv /\ Step' = Step
  BY SameGraph DEF GraphInv, GraphTypes, RecordFollows
<1>2. EngineTypes' /\ Quietly
  BY <1>1 DEF EngineTypes, Quietly
<1>3. Delays = {} => Attended'
  BY <1>1 DEF EndInv, Attended
<1> QED BY <1>2, <1>3, FollowsInv

LEMMA EndsTerminal == ASSUME NEW o \in Outcome PROVE EndsAs(o) \in Terminal
BY DEF Outcome, EndsAs, Terminal

LEMMA SettlingInv ==
  ASSUME GraphInv, NEW o \in Outcome, SettlingStep(o) PROVE GraphInv'
<1>1. /\ GraphTypes /\ inst \in InstanceRecord /\ EngineTypes /\ EndInv
      /\ settling \in [Outcome -> Settlings] /\ execution \in Outcome \cup {"open"}
      /\ stored \in InstanceRecord /\ o \in Outcome \cup {"none"} /\ "none" \in Outcome \cup {"none"}
      /\ "none" \notin Outcome /\ "open" \notin Outcome
      /\ inst.closing \in Outcome \cup {"none"}
  BY DEF GraphInv, GraphTypes, EngineTypes, Outcome, InstanceRecord
<1>2. CASE PersistClosing(o) \/ PersistClosed(o)
  <2>1. PICK c \in {o, "none"}, s \in {"stored", "cleared"} :
          /\ inst' = [inst EXCEPT !.closing = c] /\ stored' = inst'
          /\ settling' = [settling EXCEPT ![o] = s] /\ settling[o] # "idle"
    BY <1>2 DEF PersistClosing, PersistClosed, Save
  <2>2. /\ UNCHANGED <<graph, execution, up, task, batch, worker, signalled, delays, delayCall,
                       performed, stops>>
    BY <1>2 DEF PersistClosing, PersistClosed
  <2>3. /\ inst' \in InstanceRecord /\ Follows(inst, inst') /\ inst'.closing = c
        /\ inst'.status = inst.status /\ inst'.state = inst.state
    <3>1. c \in Outcome \cup {"none"}
      BY <1>1
    <3> QED BY <1>1, <2>1, <3>1, ClosingFields
  <2>4. RecordFollows
    BY <1>1, <2>1, <2>2, <2>3 DEF RecordFollows
  <2>5. settling' \in [Outcome -> Settlings] /\ \A x \in Outcome : x # o => settling'[x] = settling[x]
    BY <1>1, <2>1 DEF Settlings
  <2>6. ASSUME Delays = {} PROVE SettledAt'
    <3>1. SettledAt /\ inst.status = EndsAs(o)
      BY <1>1, <2>1, <2>6 DEF EndInv, SettledAt
    <3>2. execution # "open" => inst.status = EndsAs(execution)
      BY <1>1, <3>1, EndsTerminal DEF SettledAt
    <3>3. \A x \in Outcome : settling'[x] # "idle" => inst.status = EndsAs(x)
      BY <2>5, <3>1 DEF SettledAt
    <3>4. inst'.closing # "none" => inst'.status = EndsAs(inst'.closing)
      BY <2>3, <3>1
    <3> QED BY <2>1, <2>2, <2>3, <3>2, <3>3, <3>4 DEF SettledAt, EndsAs
  <2> QED BY <2>2, <2>3, <2>4, <2>5, <2>6, CloseInv
<1>3. CASE CloseExecution(o)
  <2>1. /\ UNCHANGED <<graph, inst, stored, up, task, batch, worker, signalled, delays, delayCall,
                       performed, stops>>
        /\ execution' = o /\ settling[o] = "stored"
        /\ settling' = [settling EXCEPT ![o] = "closed"]
    BY <1>3 DEF CloseExecution
  <2>2. RecordFollows
    BY <1>1, <2>1, KeptSame DEF RecordFollows, Kept
  <2>3. /\ settling' \in [Outcome -> Settlings]
        /\ \A x \in Outcome : x # o => settling'[x] = settling[x]
    BY <1>1, <2>1 DEF Settlings
  <2>4. ASSUME Delays = {} PROVE SettledAt'
    <3>1. SettledAt /\ inst.status = EndsAs(o) /\ stored.status = EndsAs(o)
      BY <1>1, <2>1, <2>4 DEF EndInv, SettledAt
    <3>2. \A x \in Outcome :
            /\ settling'[x] # "idle" => inst.status = EndsAs(x)
            /\ settling'[x] \in {"stored", "closed", "cleared"} => stored.status = EndsAs(x)
      BY <2>3, <3>1 DEF SettledAt
    <3>3. execution' # "open" => stored.status = EndsAs(execution')
      BY <2>1, <3>1
    <3>4. /\ stored.status \in Terminal => inst.status = stored.status
          /\ inst.closing # "none" => inst.status = EndsAs(inst.closing)
          /\ stored.closing # "none" => stored.status = EndsAs(stored.closing)
      BY <3>1 DEF SettledAt
    <3> QED BY <2>1, <3>2, <3>3, <3>4 DEF SettledAt, EndsAs
  <2> QED BY <2>1, <2>2, <2>3, <2>4, CloseInv
<1>4. CASE SettlingEnds(o)
  <2>1. /\ UNCHANGED <<graph, inst, stored, execution, batch, signalled, delays, delayCall,
                       performed, stops>>
        /\ settling' = [settling EXCEPT ![o] = "idle"]
        /\ task' \in {task, "ending"} /\ (task' # task => task = "failing")
        /\ up' \in BOOLEAN /\ (up => up')
    BY <1>1, <1>4 DEF SettlingEnds, EngineTypes
  <2>2. KeepsRecord /\ Step' = Step
    BY <1>1, <2>1, AloneKeeps, SameGraph
  <2>3. SettlesAs
    BY <1>1, <2>1 DEF SettlesAs, Settlings
  <2>4. /\ worker' \in [Step -> Pcs]
        /\ \A n \in Step : \/ worker'[n] = worker[n]
                           \/ worker[n] = "settling" /\ worker'[n] \in {"terminal", "threw"}
    BY <1>1, <1>4 DEF SettlingEnds, EngineTypes, Pcs
  <2>5. EngineTypes' /\ Quietly
    BY <1>1, <2>1, <2>2, <2>3, <2>4 DEF EngineTypes, Quietly, SettlesAs, Tasks
  <2>6. Delays = {} => Attended'
    BY <1>1, <2>1, <2>2, <2>4 DEF EndInv, Attended
  <2> QED BY <2>1, <2>2, <2>3, <2>5, <2>6, Keeps
<1> QED BY <1>2, <1>3, <1>4 DEF SettlingStep

(***************************** Crash and recovery ******************************)

(* What is stored is the record, also of what was performed. *)
LEMMA StopInv == ASSUME GraphInv, Stop PROVE GraphInv'
<1>1. /\ GraphTypes /\ StepsInv /\ EndInv /\ EngineTypes /\ stops \in Nat /\ MaxStops \in Nat
      /\ batch' = {} /\ worker' = [n \in Step |-> "idle"] /\ signalled' = {} /\ delayCall' = {}
      /\ settling' = [o \in Outcome |-> "idle"] /\ up' = FALSE /\ inst' = stored /\ task' = "none"
      /\ delays' = {} /\ UNCHANGED <<graph, stored, execution, performed>>
      /\ stops < MaxStops /\ stops' = stops + 1
  BY GraphAssumption DEF GraphInv, GraphTypes, Stop, Quiet
<1>2. /\ Step' = Step /\ InstanceRecord' = InstanceRecord /\ Tools' = Tools /\ Counted' = Counted
      /\ Delays' = Delays
  BY <1>1, SameGraph
<1>3. GraphTypes'
  <2>1. EngineTypes'
    BY <1>1, <1>2 DEF EngineTypes, Tasks, Pcs, Settlings
  <2>2. stops' \in 0 .. MaxStops
    BY <1>1
  <2> QED BY <1>1, <1>2, <2>1, <2>2 DEF GraphTypes
<1>4. Tries(inst)' /\ Tries(stored)' /\ inst'.attempts = stored'.attempts
  BY <1>1, <1>2 DEF StepsInv, Tries
<1>5. Performed'
  BY <1>1, <1>2 DEF StepsInv, Performed, Tools
<1>6. ASSUME Delays = {} PROVE SettledAt' /\ Attended'
  <2>1. SettledAt'
    BY <1>1, <1>6 DEF EndInv, SettledAt, EndsAs
  <2>2. Attended'
    BY <1>1, <1>2 DEF Attended
  <2> QED BY <2>1, <2>2
<1> QED BY <1>2, <1>3, <1>4, <1>5, <1>6 DEF GraphInv, StepsInv, EndInv

(* What was lost begins again; a tool call under way is never among it. *)
LEMMA RecoverInv == ASSUME GraphInv, Recover PROVE GraphInv'
<1> DEFINE waiting == {n \in Step : inst.state[n] = "waiting" /\ graph.kind[n] = "delay"}
           prompts == {n \in Lost : graph.kind[n] = "invoke_prompt"}
           state == [n \in Step |-> IF n \in Lost THEN "pending" ELSE inst.state[n]]
           forced == inst.forced \cup Lost
           preserved == inst.preserved \cup prompts
           status == IF waiting = {} THEN "running" ELSE "waiting"
<1>1. /\ GraphTypes /\ StepsInv /\ EndInv /\ EngineTypes /\ inst \in InstanceRecord
      /\ Lost \subseteq Step /\ waiting \subseteq Step /\ signalled \subseteq Step \cup {"task"}
      /\ task \in Tasks /\ graph \in Graphs
      /\ ~up /\ inst.status \in Active /\ inst.status \notin Terminal /\ Indeterminate = {}
      /\ UNCHANGED <<graph, execution, batch, worker, delayCall, settling, performed, stops>>
      /\ up' = TRUE /\ delays' = waiting
  BY DEF GraphInv, GraphTypes, EngineTypes, Lost, Recover, Recovering, Active, Terminal
<1>2. /\ inst' = [inst EXCEPT !.state = state, !.forced = forced, !.preserved = preserved,
                              !.status = status]
      /\ stored' = inst'
  BY DEF Recover, Save
<1>3. /\ state \in [Step -> States] /\ forced \in SUBSET Step /\ preserved \in SUBSET Step
      /\ status \in Active \cup Terminal
      /\ \A n \in Step : state[n] = IF n \in Lost THEN "pending" ELSE inst.state[n]
      /\ \A n \in Step : n \in preserved <=> n \in inst.preserved
                                             \/ (n \in Lost /\ graph.kind[n] = "invoke_prompt")
  <2>1. state \in [Step -> States] /\ status \in Active \cup Terminal
    BY <1>1 DEF InstanceRecord, States, Active
  <2>2. forced \in SUBSET Step /\ preserved \in SUBSET Step
    BY <1>1 DEF InstanceRecord
  <2>3. \A n \in Step : state[n] = IF n \in Lost THEN "pending" ELSE inst.state[n]
    OBVIOUS
  <2>4. \A n \in Step : n \in preserved <=> n \in inst.preserved
                                              \/ (n \in Lost /\ graph.kind[n] = "invoke_prompt")
    <3> HIDE DEF state, forced, status, waiting
    <3>1. prompts = {n \in Lost : graph.kind[n] = "invoke_prompt"} /\ preserved = inst.preserved \cup prompts
      OBVIOUS
    <3> HIDE DEF prompts, preserved
    <3> QED BY <3>1
  <2> HIDE DEF state, forced, preserved, status
  <2> QED BY <2>1, <2>2, <2>3, <2>4
<1>4. Spawn \/ UNCHANGED <<task, signalled>>
  BY DEF Recover
<1> HIDE DEF waiting, prompts, state, forced, preserved, status
<1>5. /\ inst' \in InstanceRecord /\ inst'.state = state /\ inst'.preserved = preserved
      /\ inst'.attempts = inst.attempts /\ inst'.closing = inst.closing
  BY <1>1, <1>2, <1>3 DEF InstanceRecord
<1>6. /\ Step' = Step /\ InstanceRecord' = InstanceRecord /\ Tools' = Tools /\ Counted' = Counted
      /\ Delays' = Delays
  BY <1>1, SameGraph
<1>7. task' \in Tasks /\ signalled' \subseteq Step \cup {"task"}
      /\ (task' = task \/ task' = "spawned")
  BY <1>1, <1>4, SpawnTypes DEF Spawn
<1>8. GraphTypes'
  <2>1. EngineTypes'
    BY <1>1, <1>6, <1>7 DEF EngineTypes
  <2> QED BY <1>1, <1>2, <1>5, <1>6, <2>1 DEF GraphTypes
<1>9. Tries(inst')
  <2>1. ASSUME NEW n \in Counted
        PROVE  /\ inst'.attempts[n] <= graph.attempts[n]
               /\ inst'.state[n] = "pending" /\ n \notin inst'.preserved =>
                    inst'.attempts[n] < graph.attempts[n]
    <3>1. /\ n \in Step /\ graph.kind[n] \in {"call_tool", "invoke_prompt"}
          /\ inst.attempts[n] <= graph.attempts[n]
          /\ inst.state[n] = "pending" /\ n \notin inst.preserved =>
               inst.attempts[n] < graph.attempts[n]
      BY <1>1, <2>1 DEF StepsInv, Tries, Counted
    <3>2. n \in Lost => graph.kind[n] = "invoke_prompt"
      <4>1. ASSUME graph.kind[n] = "call_tool" PROVE n \notin Lost
        <5>1. inst.state[n] # "waiting"
          BY <1>1, <3>1, <4>1 DEF StepsInv, Tries, Tools
        <5>2. inst.state[n] # "running"
          BY <1>1, <3>1, <4>1 DEF Indeterminate
        <5> QED BY <5>1, <5>2 DEF Lost
      <4> QED BY <3>1, <4>1
    <3>3. CASE n \in Lost
      <4>1. n \in inst'.preserved
        BY <1>3, <1>5, <3>1, <3>2, <3>3
      <4> QED BY <1>5, <3>1, <4>1
    <3>4. CASE n \notin Lost
      <4>1. inst'.state[n] = inst.state[n] /\ (n \in inst'.preserved <=> n \in inst.preserved)
        <5>1. inst'.state[n] = inst.state[n]
          BY <1>3, <1>5, <3>1, <3>4
        <5>2. n \in preserved <=> n \in inst.preserved
          BY <1>3, <3>1, <3>4
        <5> QED BY <1>5, <5>1, <5>2
      <4> QED BY <1>5, <3>1, <4>1
    <3> QED BY <3>3, <3>4
  <2>2. ASSUME NEW n \in Tools PROVE n \notin inst'.preserved /\ inst'.state[n] # "waiting"
    BY <1>1, <1>3, <1>5, <2>2 DEF StepsInv, Tries, Tools
  <2> QED BY <2>1, <2>2 DEF Tries
<1>10. StepsInv'
  <2>1. Tries(inst)' /\ Tries(stored)'
    BY <1>1, <1>2, <1>6, <1>9 DEF Tries
  <2>2. Performed'
    BY <1>1, <1>5, <1>6 DEF StepsInv, Performed, Tools
  <2> QED BY <1>2, <2>1, <2>2 DEF StepsInv
<1>11. ASSUME Delays = {} PROVE SettledAt' /\ Attended'
  <2>1. EndIsKept
    BY <1>1, <1>2, <1>5 DEF EndIsKept
  <2>2. SettlesAs
    BY <1>1, SettlesSame
  <2>3. SettledAt'
    BY <1>1, <1>11, <2>1, <2>2, KeepsSettled DEF EndInv, SettlesAs
  <2>4. waiting = {}
    BY <1>11 DEF waiting, Delays
  <2>5. \A n \in Step : inst'.state[n] # "waiting"
    BY <1>3, <1>5, <1>11 DEF Lost, Delays
  <2>6. Attended'
    BY <1>1, <1>6, <1>7, <1>11, <2>4, <2>5 DEF EndInv, Attended
  <2> QED BY <2>3, <2>6
<1> QED BY <1>6, <1>8, <1>10, <1>11 DEF GraphInv, EndInv

(* The start of the engine. *)
LEMMA RecoveryInv == ASSUME GraphInv, RecoveryStep PROVE GraphInv'
<1>1. /\ GraphTypes /\ inst \in InstanceRecord /\ EngineTypes /\ EndInv
      /\ settling \in [Outcome -> Settlings] /\ execution \in Outcome \cup {"open"}
      /\ inst.closing \in Outcome \cup {"none"} /\ "none" \notin Outcome /\ "open" \notin Outcome
      /\ batch \subseteq Step /\ signalled \subseteq Step \cup {"task"} /\ task \in Tasks
  BY DEF GraphInv, GraphTypes, EngineTypes, Outcome, InstanceRecord
<1>2. CASE FinishClose
  <2>1. /\ inst' = [inst EXCEPT !.closing = "none"] /\ stored' = inst'
        /\ execution' = inst.closing /\ inst.closing \in Outcome
        /\ UNCHANGED <<graph, up, task, batch, worker, signalled, delays, delayCall, settling,
                       performed, stops>>
    BY <1>1, <1>2 DEF FinishClose, Save, engineVars
  <2>2. /\ inst' \in InstanceRecord /\ Follows(inst, inst') /\ inst'.closing = "none"
        /\ inst'.status = inst.status /\ inst'.state = inst.state
    BY <1>1, <2>1, ClosingFields
  <2>3. RecordFollows
    BY <1>1, <2>1, <2>2 DEF RecordFollows
  <2>4. ASSUME Delays = {} PROVE SettledAt'
    <3>1. SettledAt /\ inst.status = EndsAs(inst.closing)
      BY <1>1, <2>1, <2>4 DEF EndInv, SettledAt
    <3>2. \A o \in Outcome : settling'[o] # "idle" => inst'.status = EndsAs(o)
      BY <2>1, <2>2, <3>1 DEF SettledAt
    <3> QED BY <2>1, <2>2, <3>1, <3>2 DEF SettledAt, EndsAs
  <2> QED BY <1>1, <2>1, <2>2, <2>3, <2>4, CloseInv
<1>3. CASE Interrupt
  <2>1. PICK n \in Indeterminate :
          inst' = [SetState(inst, n, "failed") EXCEPT !.status = "failed"]
    BY <1>3 DEF Interrupt
  <2>2. /\ UNCHANGED <<graph, stored, execution, up, task, batch, worker, signalled, delays,
                       delayCall, performed, stops>>
        /\ settling' = [settling EXCEPT !["interrupted"] = "begun"]
        /\ n \in Step /\ inst.status \notin Terminal /\ Step' = Step /\ ~up
    BY <1>3, SameGraph DEF Interrupt, Indeterminate, Recovering, Active, Terminal
  <2> DEFINE p == SetState(inst, n, "failed")
  <2>3. /\ p \in InstanceRecord /\ p.status = inst.status /\ p.state[n] = "failed"
        /\ \A m \in Step : m # n => p.state[m] = inst.state[m]
    BY <1>1, <2>2, SetStateFields DEF States
  <2>4. Kept(inst, p)
    BY <1>1, <2>2, SetStateKept DEF States
  <2>5. inst' = [p EXCEPT !.status = "failed"]
    BY <2>1
  <2> HIDE DEF p
  <2>6. Kept(p, inst') /\ inst'.state = p.state /\ inst'.status = "failed"
    BY <2>2, <2>3, <2>5, StatusKept, StatusFields DEF Terminal
  <2>7. KeepsRecord
    BY <2>2, <2>4, <2>6, KeptTrans DEF KeepsRecord
  <2>8. SettlesAs
    BY <1>1, <2>2, <2>6 DEF SettlesAs, Settlings, EndsAs, Outcome
  <2>9. Delays = {} => Attended'
    BY <1>1, <2>2, <2>3, <2>6 DEF EndInv, Attended
  <2> QED BY <1>1, <2>2, <2>7, <2>8, <2>9, TaskInv
<1>4. CASE Initialized
  <2>1. /\ UNCHANGED <<graph, inst, stored, execution, task, batch, worker, signalled, delays,
                       delayCall, settling, performed, stops>>
        /\ up' = TRUE
    BY <1>4 DEF Initialized
  <2>2. KeepsRecord /\ SettlesAs /\ Step' = Step /\ Quietly
    BY <1>1, <2>1, AloneKeeps, SettlesSame, SameGraph DEF Quietly
  <2>3. EngineTypes'
    BY <1>1, <2>1, <2>2 DEF EngineTypes
  <2>4. Delays = {} => Attended'
    BY <1>1, <2>1, <2>2 DEF EndInv, Attended
  <2> QED BY <2>1, <2>2, <2>3, <2>4, Keeps
<1> QED BY <1>2, <1>3, <1>4, RecoverInv DEF RecoveryStep

(********************************** Theorems ***********************************)

LEMMA GraphInitInv == GraphInit => GraphInv
<1> SUFFICES ASSUME GraphInit PROVE GraphInv
  OBVIOUS
<1>1. /\ graph \in Graphs /\ inst = NewInstance(graph) /\ stored = inst /\ execution = "open"
      /\ up = TRUE /\ task = "spawned" /\ batch = {}
      /\ worker = [n \in Step |-> "idle"] /\ signalled = {}
      /\ delays = {} /\ delayCall = {} /\ settling = [o \in Outcome |-> "idle"]
      /\ performed = [n \in Step |-> 0] /\ stops = 0
  BY DEF GraphInit
<1>2. /\ inst \in InstanceRecord /\ inst.status = "running" /\ inst.closing = "none"
      /\ inst.preserved = {}
      /\ \A n \in Step : inst.state[n] = "pending" /\ inst.attempts[n] = 0
  <2>1. {n \in Step : graph.kind[n] = "trigger"} \in SUBSET Step
    OBVIOUS
  <2>2. /\ [n \in Step |-> "pending"] \in [Step -> States]
        /\ [n \in Step |-> 0] \in [Step -> Nat]
        /\ [e \in graph.edges |-> "pending"] \in [graph.edges -> {"pending", "active", "inactive"}]
    BY DEF States
  <2> QED BY <1>1, <2>1, <2>2 DEF NewInstance, InstanceRecord, Step, Active
<1>3. \A n \in Step : graph.attempts[n] \in Nat \ {0}
  BY <1>1, GraphAssumption DEF Step
<1>4. GraphTypes
  <2>1. EngineTypes
    BY <1>1 DEF EngineTypes, Tasks, Pcs, Settlings
  <2> QED BY <1>1, <1>2, <2>1, GraphAssumption DEF GraphTypes
<1>5. StepsInv
  BY <1>1, <1>2, <1>3 DEF StepsInv, Tries, Performed, Counted, Tools
<1>6. SettledAt /\ Attended
  BY <1>1, <1>2 DEF SettledAt, Attended, Terminal
<1> QED BY <1>4, <1>5, <1>6 DEF GraphInv, EndInv

LEMMA GraphNextInv == GraphInv /\ [GraphNext]_graphVars => GraphInv'
<1> SUFFICES ASSUME GraphInv, [GraphNext]_graphVars PROVE GraphInv'
  OBVIOUS
<1>1. CASE UNCHANGED graphVars
  <2>1. /\ GraphTypes /\ EngineTypes /\ EndInv
        /\ UNCHANGED <<graph, inst, stored, execution, up, task, batch, worker, signalled, delays,
                       delayCall, settling, performed, stops>>
    BY <1>1 DEF GraphInv, GraphTypes, graphVars, engineVars
  <2>2. KeepsRecord /\ SettlesAs /\ Step' = Step /\ Quietly
    BY <2>1, AloneKeeps, SettlesSame, SameGraph DEF Quietly
  <2>3. EngineTypes'
    BY <2>1, <2>2 DEF EngineTypes
  <2>4. Delays = {} => Attended'
    BY <2>1, <2>2 DEF EndInv, Attended
  <2> QED BY <2>1, <2>2, <2>3, <2>4, Keeps
<1>2. CASE TaskStep \/ CancelInstance \/ CancelDelays \/ Stop \/ RecoveryStep
  BY <1>2, TaskStepInv, CancelInstanceInv, StopInv, RecoveryInv
<1>3. CASE \E n \in Step : WorkerStep(n) \/ DelayFires(n) \/ DelayEnds(n)
  BY <1>3, WorkerStepInv, DelayInv
<1>4. CASE \E o \in Outcome : SettlingStep(o)
  BY <1>4, SettlingInv
<1> QED BY <1>1, <1>2, <1>3, <1>4 DEF GraphNext

(* The record of an instance, in memory and in the store, is one of its graph   *)
(* (InstanceRecord, GraphEngine).                                               *)
THEOREM GraphTypeCorrect == GraphSpec => []GraphTypeOK
<1>1. GraphInv => GraphTypeOK
  <2> SUFFICES ASSUME GraphInv PROVE GraphTypeOK
    OBVIOUS
  <2>1. GraphTypes /\ EngineTypes /\ inst \in InstanceRecord /\ stored \in InstanceRecord
    BY DEF GraphInv, GraphTypes
  <2>2. ASSUME NEW r \in InstanceRecord
        PROVE  /\ r.status \in Active \cup Terminal
               /\ r.state \in [Step -> {"pending", "running", "waiting", "completed", "skipped",
                                        "failed"}]
               /\ r.attempts \in [Step -> Nat]
               /\ r.edge \in [graph.edges -> {"pending", "active", "inactive"}]
               /\ r.forced \subseteq Step /\ r.preserved \subseteq Step
               /\ r.closing \in Outcome \cup {"none"}
    BY DEF InstanceRecord, States
  <2> QED BY <2>1, <2>2 DEF GraphTypes, EngineTypes, GraphTypeOK, Tasks, Pcs, Settlings
<1> QED BY <1>1, GraphInitInv, GraphNextInv, PTL DEF GraphSpec

(* Over failures, timeouts and restarts at any moment no tool is called and no  *)
(* prompt numbered more often than its step allows (#executeNode, #recover).    *)
THEOREM NoStepIsReplayed == GraphSpec => []StepsAreNotReplayed
<1>1. GraphInv => StepsAreNotReplayed
  <2> SUFFICES ASSUME GraphInv, NEW n \in Step
               PROVE  /\ graph.kind[n] = "call_tool" => performed[n] <= graph.attempts[n]
                      /\ graph.kind[n] = "invoke_prompt" => inst.attempts[n] <= graph.attempts[n]
    BY DEF StepsAreNotReplayed
  <2>1. /\ StepsInv /\ performed[n] \in Nat /\ inst.attempts[n] \in Nat /\ graph.attempts[n] \in Nat
    BY GraphAssumption DEF GraphInv, GraphTypes, InstanceRecord, Step
  <2>2. CASE graph.kind[n] = "call_tool"
    <3>1. performed[n] <= inst.attempts[n] /\ inst.attempts[n] <= graph.attempts[n]
      BY <2>1, <2>2 DEF StepsInv, Tries, Performed, Counted, Tools
    <3> QED BY <2>1, <2>2, <3>1
  <2>3. CASE graph.kind[n] = "invoke_prompt"
    BY <2>1, <2>3 DEF StepsInv, Tries, Counted
  <2> QED BY <2>2, <2>3
<1> QED BY <1>1, GraphInitInv, GraphNextInv, PTL DEF GraphSpec

(* Whenever the process stops between the writes of a close, a closed execution *)
(* is that of an instance stored as ended so (#persistAndCloseExecution).       *)
THEOREM ClosedInstancesAreStored == GraphSpec => []ClosedIsStored
<1>1. GraphInv => ClosedIsStored
  BY DEF GraphInv, EndInv, SettledAt, EndsAs, ClosedIsStored
<1> QED BY <1>1, GraphInitInv, GraphNextInv, PTL DEF GraphSpec
================================================================================
