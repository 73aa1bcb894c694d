----------------------------- MODULE OAuthGrants -----------------------------
(* OAuthService, packages/kernel/src/oauth-service.ts, for one grant key:       *)
(* connect, accessToken with its shared refresh, disconnect, the abort of the   *)
(* key's calls when the plugin is deactivated, shutdown, and a restart.         *)
(*                                                                              *)
(* The vault is a SecretStore.  Its writes wait for one another: each is        *)
(* persisted and only then read, or fails, with or without effect; this is the  *)
(* store of plugins/secrets-os.  A read gives what is there when it is called.  *)
(*                                                                              *)
(* A grant is a Boolean, "there is one", and whether its access token is still  *)
(* fresh is open.                                                               *)
(*                                                                              *)
(* Operators named Broken... are plausible defects of the definition below      *)
(* them; no action uses one.                                                    *)
EXTENDS Naturals, Sequences

CONSTANTS Call,            \* bound: numbered calls, used in order
          MaxGeneration,   \* bound
          MaxBoots         \* bound

VARIABLES vault,       \* stored: there is a grant
          writes,      \* the write queue of the store
          generation,  \* #generation of the key
          serving,     \* ~#shutdown.signal.aborted
          refreshing,  \* #refresh of the key: the calls whose refresh is under way
          calls,
          clean,       \* history: disconnects since which no generation was taken
          boots

grantVars == <<vault, writes, generation, serving, refreshing, calls, clean, boots>>

ASSUME OAuthAssumption == Call \subseteq Nat /\ MaxGeneration \in Nat /\ MaxBoots \in Nat

Pc == {"new", "loading", "waiting", "exchanging", "joined", "revoking", "writing",
       "done", "gone"}

Fresh == [kind |-> "connect", pc |-> "new", gen |-> 0, found |-> FALSE,
          cancelled |-> FALSE, aborted |-> FALSE]

OAuthTypeOK ==
  /\ vault \in BOOLEAN
  /\ writes \in Seq([call : Call, grant : BOOLEAN])
  /\ generation \in 0 .. MaxGeneration
  /\ serving \in BOOLEAN
  /\ refreshing \subseteq Call
  /\ calls \in [Call -> [kind : {"connect", "token", "disconnect"}, pc : Pc,
                         gen : 0 .. MaxGeneration, found : BOOLEAN,
                         cancelled : BOOLEAN, aborted : BOOLEAN]]
  /\ clean \subseteq Call
  /\ boots \in 0 .. MaxBoots

OAuthInit ==
  /\ vault = FALSE /\ writes = <<>> /\ generation = 0 /\ serving = TRUE
  /\ refreshing = {} /\ calls = [c \in Call |-> Fresh] /\ clean = {} /\ boots = 0

At(c, pc) == calls[c].pc = pc

Uncalled(c) == At(c, "new") /\ \A d \in Call : d < c => ~At(d, "new")

BrokenAborted(c) == calls[c].cancelled \/ calls[c].aborted

(* The combined signal of a connect or a refresh: the caller's, the one of its  *)
(* entry in #owned, and the one of the shutdown.                                *)
Aborted(c) == calls[c].cancelled \/ calls[c].aborted \/ ~serving

BrokenCurrent(c) == TRUE

(* No disconnect, deactivation or shutdown since the call took its generation. *)
Current(c) == calls[c].gen = generation

(* The calls in #owned, from which #abortOwnedKey takes what it aborts. *)
Owned == {c \in Call : /\ calls[c].kind # "disconnect" /\ ~calls[c].aborted
                       /\ calls[c].pc \in {"waiting", "exchanging", "writing"}}

(* #bump and #abortOwnedKey. *)
AbortOwnedKey ==
  /\ generation' = generation + 1
  /\ calls' = [c \in Call |-> IF c \in Owned THEN [calls[c] EXCEPT !.aborted = TRUE]
                              ELSE calls[c]]

(* The call settles; whoever joined its refresh gets the same result. *)
Settled(c, pc) ==
  /\ calls' = [d \in Call |->
       IF d = c THEN [calls[c] EXCEPT !.pc = pc]
       ELSE IF c \in refreshing /\ At(d, "joined") THEN [calls[d] EXCEPT !.pc = "done"]
       ELSE calls[d]]
  /\ refreshing' = refreshing \ {c}

EnqueueWrite(c, grant) == writes' = Append(writes, [call |-> c, grant |-> grant])

(********************************** connect ***********************************)

(* Until the tokens arrive: the loopback listener, the browser, the callback    *)
(* and the exchange of the code.                                                *)
Connect(c) ==
  /\ serving /\ Uncalled(c)
  /\ calls' = [calls EXCEPT ![c] = [Fresh EXCEPT !.pc = "waiting", !.gen = generation]]
  /\ clean' = {}
  /\ UNCHANGED <<vault, writes, generation, serving, refreshing, boots>>

(******************************** accessToken *********************************)

AccessToken(c) ==
  /\ serving /\ Uncalled(c)
  /\ calls' = [calls EXCEPT ![c] = [Fresh EXCEPT !.kind = "token", !.pc = "loading",
                                                 !.found = vault]]
  /\ UNCHANGED <<vault, writes, generation, serving, refreshing, clean, boots>>

(* No grant, a fresh one, or a store that cannot be read: the call is over.     *)
(* Otherwise it joins the refresh of the key, or starts one.                    *)
TokenLoaded(c) ==
  /\ At(c, "loading") /\ calls[c].kind = "token"
  /\ \/ Settled(c, "done") /\ UNCHANGED clean
     \/ /\ calls[c].found /\ refreshing # {}
        /\ calls' = [calls EXCEPT ![c] = [calls[c] EXCEPT !.pc = "joined"]]
        /\ UNCHANGED <<refreshing, clean>>
     \/ /\ calls[c].found /\ refreshing = {}
        /\ calls' = [calls EXCEPT ![c] = [calls[c] EXCEPT !.pc = "exchanging",
                                                          !.gen = generation]]
        /\ refreshing' = {c}
        /\ clean' = {}
  /\ UNCHANGED <<vault, writes, generation, serving, boots>>

(* The tokens are there, also when the signal came after the answer: a grant of *)
(* the generation is stored.                                                    *)
Exchanged(c) ==
  /\ At(c, "waiting") \/ At(c, "exchanging")
  /\ Current(c)
  /\ calls' = [calls EXCEPT ![c] = [calls[c] EXCEPT !.pc = "writing"]]
  /\ EnqueueWrite(c, TRUE)
  /\ UNCHANGED <<vault, generation, serving, refreshing, clean, boots>>

(* Refused, failed, aborted, or of another generation. *)
Fails(c) ==
  /\ At(c, "waiting") \/ At(c, "exchanging")
  /\ Settled(c, "done")
  /\ UNCHANGED <<vault, writes, generation, serving, clean, boots>>

(********************************* disconnect *********************************)

Disconnect(c) ==
  /\ Uncalled(c) /\ generation < MaxGeneration
  /\ generation' = generation + 1
  /\ calls' = [d \in Call |->
       IF d = c THEN [Fresh EXCEPT !.kind = "disconnect", !.pc = "loading", !.found = vault]
       ELSE IF d \in Owned THEN [calls[d] EXCEPT !.aborted = TRUE]
       ELSE calls[d]]
  /\ clean' = clean \cup {c}
  /\ UNCHANGED <<vault, writes, serving, refreshing, boots>>

(* With a grant that names an endpoint, the grant is revoked first. *)
DisconnectLoaded(c) ==
  /\ At(c, "loading") /\ calls[c].kind = "disconnect"
  /\ \/ /\ calls[c].found
        /\ calls' = [calls EXCEPT ![c] = [calls[c] EXCEPT !.pc = "revoking"]]
        /\ UNCHANGED <<writes, refreshing>>
     \/ /\ calls' = [calls EXCEPT ![c] = [calls[c] EXCEPT !.pc = "writing"]]
        /\ EnqueueWrite(c, FALSE)
        /\ UNCHANGED refreshing
     \/ Settled(c, "done") /\ UNCHANGED writes
  /\ UNCHANGED <<vault, generation, serving, clean, boots>>

(* Whatever became of the revocation. *)
Revoked(c) ==
  /\ At(c, "revoking")
  /\ calls' = [calls EXCEPT ![c] = [calls[c] EXCEPT !.pc = "writing"]]
  /\ EnqueueWrite(c, FALSE)
  /\ UNCHANGED <<vault, generation, serving, refreshing, clean, boots>>

(* One write of the store: done, failed, or failed with its effect. *)
Write ==
  /\ writes # <<>>
  /\ LET w == Head(writes)
     IN  \/ /\ vault' = w.grant
            /\ \/ Settled(w.call, IF w.grant THEN "done" ELSE "gone")
               \/ Settled(w.call, "done")
         \/ UNCHANGED vault /\ Settled(w.call, "done")
  /\ writes' = Tail(writes)
  /\ UNCHANGED <<generation, serving, clean, boots>>

(********************************* Lifecycle **********************************)

(* The signal that the caller of connect or accessToken may have passed; a call *)
(* that joined a refresh, or whose grant is being stored, does not hear it.     *)
CallerAborts(c) ==
  /\ calls[c].kind # "disconnect" /\ calls[c].pc \in {"loading", "waiting", "exchanging"}
  /\ ~calls[c].cancelled
  /\ calls' = [calls EXCEPT ![c] = [calls[c] EXCEPT !.cancelled = TRUE]]
  /\ UNCHANGED <<vault, writes, generation, serving, refreshing, clean, boots>>

(* abortOwned, when the plugin is deactivated. *)
AbortOwned ==
  /\ generation < MaxGeneration
  /\ AbortOwnedKey
  /\ UNCHANGED <<vault, writes, serving, refreshing, clean, boots>>

(* A key without calls keeps its generation. *)
ShutDown ==
  /\ serving /\ serving' = FALSE
  /\ IF Owned = {} THEN UNCHANGED <<generation, calls>>
     ELSE generation < MaxGeneration /\ AbortOwnedKey
  /\ UNCHANGED <<vault, writes, refreshing, clean, boots>>

Boot ==
  /\ boots < MaxBoots
  /\ boots' = boots + 1
  /\ writes' = <<>> /\ generation' = 0 /\ serving' = TRUE /\ refreshing' = {}
  /\ calls' = [c \in Call |-> IF calls[c].pc \in {"new", "gone"} THEN calls[c]
                              ELSE [Fresh EXCEPT !.pc = "done"]]
  /\ clean' = {c \in clean : At(c, "gone")}
  /\ UNCHANGED vault

OAuthNext ==
  \/ AbortOwned \/ ShutDown \/ Boot \/ Write
  \/ \E c \in Call :
       \/ Connect(c) \/ AccessToken(c) \/ TokenLoaded(c) \/ Exchanged(c) \/ Fails(c)
       \/ Disconnect(c) \/ DisconnectLoaded(c) \/ Revoked(c) \/ CallerAborts(c)

(* Reads and writes of the store end, a fetch whose signal is aborted rejects,  *)
(* and so does the wait for the browser or the callback.  The revocation hears  *)
(* only the signal of the shutdown.                                             *)
OAuthFairness ==
  /\ WF_grantVars(Write)
  /\ \A c \in Call :
       /\ WF_grantVars(TokenLoaded(c)) /\ WF_grantVars(DisconnectLoaded(c))
       /\ WF_grantVars(Aborted(c) /\ Fails(c))
       /\ WF_grantVars(~serving /\ Revoked(c))

OAuthSpec == OAuthInit /\ [][OAuthNext]_grantVars /\ OAuthFairness

(********************************* Properties *********************************)

(* A disconnect that succeeded stays in force against everything that was under *)
(* way when it was called: unless a connect or a refresh took its generation    *)
(* later, there is no grant and no write of one is queued (oauth-service.ts     *)
(* 684-705, and the comparisons of generations at 953 and 1055).                *)
DisconnectedIsGone ==
  \A c \in clean : At(c, "gone") =>
    /\ ~vault
    /\ \A i \in 1 .. Len(writes) : ~writes[i].grant

(* After a shutdown every call settles: the ones that wait for a person or a    *)
(* server, the ones still reading the vault, which start their refresh          *)
(* afterwards, and those that joined it (714-722, 1026-1030).                   *)
ShutdownSettles ==
  \A c \in Call : ~serving ~> calls[c].pc \in {"new", "done", "gone"}
=============================================================================
