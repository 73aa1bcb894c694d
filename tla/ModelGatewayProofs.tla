-------------------------- MODULE ModelGatewayProofs --------------------------
(* The safety of ModelGateway for any calls, requests, registrations and       *)
(* revisions: first what holds however the calls overlap, then what holds when *)
(* a caller retries one attempt at a time.                                     *)
EXTENDS ModelGateway, FiniteSetTheorems, TLAPS

(* A call knows its request once it has started, and the registration it is for *)
(* once it has entered.                                                         *)
Named ==
  \A c \in Call :
    /\ Active(c) => calls[c].request \in Request
    /\ calls[c].pc \notin {"new", "load", "decide", "done"} =>
         calls[c].registration \in Registration

(* What stands between an authorization and what it authorizes: the summary a   *)
(* call holds is the one that was approved, and inside commitIfCurrent it is    *)
(* still the execution's.                                                       *)
Authorized ==
  \A c \in Call :
    /\ calls[c].pc \in {"commit", "release"} => calls[c].authorized = calls[c].seen
    /\ At(c, "dispatch") => execution.open /\ calls[c].authorized = execution.revision

IInv == TypeOK /\ Named /\ Authorized

(* A call that is over holds nothing. *)
LEMMA IdleType ==
  ASSUME NEW pc \in PC
  PROVE  Idle(pc) \in Local /\ Idle(pc).pc = pc
BY GatewayAssumption DEF Idle, Local

LEMMA RecordType ==
  ASSUME TypeOK, Named, NEW c \in Call,
         calls[c].pc \notin {"new", "load", "decide", "done"},
         NEW phase \in Phase, NEW revision \in 0 .. MaxRevision
  PROVE  RecordOf(c, phase, revision) \in Record
BY DEF RecordOf, Record, Named, Active

LEMMA InitInv == Init => IInv
<1> SUFFICES ASSUME Init PROVE IInv
  OBVIOUS
<1>1. Idle("new") \in Local /\ Idle("new").pc = "new"
  BY IdleType DEF PC
<1>2. calls \in [Call -> Local] /\ \A c \in Call : calls[c].pc = "new"
  BY <1>1 DEF Init
<1>3. execution \in [open : BOOLEAN, revision : 1 .. MaxRevision]
  BY GatewayAssumption DEF Init
<1>4. \A c \in Call : lock # c
  BY GatewayAssumption DEF Init
<1>5. TypeOK
  BY <1>2, <1>3, <1>4 DEF Init, TypeOK, At
<1>6. Named /\ Authorized
  BY <1>2 DEF Named, Authorized, Active, At
<1> QED BY <1>5, <1>6 DEF IInv

(* One call advances.  Its new locals, the record and the lock are all that the *)
(* invariant asks about.                                                        *)
LEMMA OneCallInv ==
  ASSUME IInv, NEW c \in Call,
         calls' \in [Call -> Local],
         \A d \in Call \ {c} : calls'[d] = calls[d],
         calls'[c].pc \notin {"new", "done"} => calls'[c].request \in Request,
         calls'[c].pc \notin {"new", "load", "decide", "done"} =>
           calls'[c].registration \in Registration,
         calls'[c].pc \in {"commit", "release"} => calls'[c].authorized = calls'[c].seen,
         calls'[c].pc = "dispatch" =>
           execution.open /\ calls'[c].authorized = execution.revision,
         calls'[c].pc \in {"dispatch", "releasing"} <=> lock' = c,
         \A d \in Call \ {c} : lock' = d <=> lock = d,
         record' \in Record \cup {NoRecord},
         sent' \subseteq Call, delivered' \subseteq Request,
         UNCHANGED <<execution, current, revoked, issued>>
  PROVE  IInv'
<1>1. \A d \in Call : (d = c) \/ (d \in Call \ {c})
  OBVIOUS
<1>2. \A d \in Call : (At(d, "dispatch") \/ At(d, "releasing") <=> lock = d)'
  BY <1>1 DEF IInv, TypeOK, At
<1>3. TypeOK'
  BY <1>2 DEF IInv, TypeOK
<1>4. Named'
  BY <1>1 DEF IInv, Named, Active
<1>5. Authorized'
  BY <1>1 DEF IInv, Authorized, At
<1> QED BY <1>3, <1>4, <1>5 DEF IInv

(* A call ends, and leaves a record of its own or none. *)
LEMMA EndInv ==
  ASSUME IInv, NEW c \in Call, End(c),
         lock' # c, \A d \in Call \ {c} : lock' = d <=> lock = d,
         record' \in Record \cup {NoRecord},
         delivered' \subseteq Request,
         UNCHANGED <<execution, current, revoked, issued, sent>>
  PROVE  IInv'
<1>1. Idle("done") \in Local /\ Idle("done").pc = "done"
  BY IdleType DEF PC
<1>2. /\ calls' \in [Call -> Local]
      /\ \A d \in Call \ {c} : calls'[d] = calls[d]
      /\ calls'[c].pc = "done"
  BY <1>1 DEF End, IInv, TypeOK
<1>3. sent' \subseteq Call
  BY DEF IInv, TypeOK
<1> QED BY <1>2, <1>3, OneCallInv

(* A step outside commitIfCurrent: the lock stays where it is. *)
LEMMA FreeCallInv ==
  ASSUME IInv, NEW c \in Call,
         calls[c].pc \notin {"dispatch", "releasing"},
         calls'[c].pc \notin {"dispatch", "releasing"},
         calls' \in [Call -> Local],
         \A d \in Call \ {c} : calls'[d] = calls[d],
         calls'[c].pc \notin {"new", "done"} => calls'[c].request \in Request,
         calls'[c].pc \notin {"new", "load", "decide", "done"} =>
           calls'[c].registration \in Registration,
         calls'[c].pc \in {"commit", "release"} => calls'[c].authorized = calls'[c].seen,
         record' \in Record \cup {NoRecord},
         sent' \subseteq Call, delivered' \subseteq Request,
         UNCHANGED <<execution, current, revoked, issued, lock>>
  PROVE  IInv'
<1>1. lock # c
  BY DEF IInv, TypeOK, At
<1>2. calls'[c].pc \in {"dispatch", "releasing"} <=> lock' = c
  BY <1>1
<1>3. \A d \in Call \ {c} : lock' = d <=> lock = d
  OBVIOUS
<1> HIDE DEF IInv
<1> QED BY <1>2, <1>3, OneCallInv

(* The same, for a call that ends. *)
LEMMA FreeEndInv ==
  ASSUME IInv, NEW c \in Call, End(c),
         calls[c].pc \notin {"dispatch", "releasing"},
         record' \in Record \cup {NoRecord},
         delivered' \subseteq Request,
         UNCHANGED <<execution, current, revoked, issued, lock, sent>>
  PROVE  IInv'
<1>1. lock' # c
  BY DEF IInv, TypeOK, At
<1>2. \A d \in Call \ {c} : lock' = d <=> lock = d
  OBVIOUS
<1> QED BY <1>1, <1>2, EndInv

LEMMA AdmissionInv ==
  ASSUME IInv, NEW c \in Call, NEW q \in Request,
         Start(c, q) \/ Load(c) \/ Refuse(c) \/ Replay(c) \/ Enter(c)
  PROVE  IInv'
<1>1. /\ calls[c] \in Local
      /\ execution.revision \in 0 .. MaxRevision
      /\ record \in Record \cup {NoRecord}
      /\ sent \subseteq Call /\ delivered \subseteq Request
      /\ calls \in [Call -> Local]
  BY GatewayAssumption DEF IInv, TypeOK
<1>2. CASE Start(c, q)
  <2>1. /\ calls' \in [Call -> Local]
        /\ \A d \in Call \ {c} : calls'[d] = calls[d]
        /\ calls'[c].pc = "load" /\ calls'[c].request \in Request
    BY <1>1, <1>2 DEF Start, Local, PC
  <2>2. calls[c].pc = "new"
    BY <1>2 DEF Start, At
  <2>3. /\ record' \in Record \cup {NoRecord}
        /\ sent' \subseteq Call /\ delivered' \subseteq Request
        /\ UNCHANGED <<execution, current, revoked, issued, lock>>
    BY <1>1, <1>2 DEF Start
  <2> QED BY <2>1, <2>2, <2>3, FreeCallInv
<1>3. CASE Load(c)
  <2>1. /\ calls' \in [Call -> Local]
        /\ \A d \in Call \ {c} : calls'[d] = calls[d]
        /\ calls'[c].pc = "decide" /\ calls'[c].request = calls[c].request
    BY <1>1, <1>3 DEF Load, Local, PC
  <2>2. calls[c].pc = "load"
    BY <1>3 DEF Load, At
  <2>3. calls'[c].request \in Request
    BY <2>1, <2>2 DEF IInv, Named, Active
  <2>4. /\ record' \in Record \cup {NoRecord}
        /\ sent' \subseteq Call /\ delivered' \subseteq Request
        /\ UNCHANGED <<execution, current, revoked, issued, lock>>
    BY <1>1, <1>3 DEF Load
  <2> QED BY <2>1, <2>2, <2>3, <2>4, FreeCallInv
<1>4. CASE Refuse(c)
  <2>1. calls[c].pc = "decide" /\ End(c)
    BY <1>4 DEF Refuse, At
  <2>2. /\ record' \in Record \cup {NoRecord} /\ delivered' \subseteq Request
        /\ UNCHANGED <<execution, current, revoked, issued, lock, sent>>
    BY <1>1, <1>4 DEF Refuse
  <2> QED BY <2>1, <2>2, FreeEndInv
<1>5. CASE Replay(c)
  <2>1. calls[c].pc = "decide" /\ End(c)
    BY <1>5 DEF Replay, At
  <2>2. calls[c].request \in Request
    BY <2>1 DEF IInv, Named, Active, At
  <2>3. /\ record' \in Record \cup {NoRecord} /\ delivered' \subseteq Request
        /\ UNCHANGED <<execution, current, revoked, issued, lock, sent>>
    BY <1>1, <1>5, <2>2 DEF Replay
  <2> QED BY <2>1, <2>3, FreeEndInv
<1>6. CASE Enter(c)
  <2>1. calls[c].pc = "decide"
    BY <1>6 DEF Enter, At
  <2>2. current \in Registration
    BY <1>6 DEF Enter, IInv, TypeOK
  <2>3. /\ calls' \in [Call -> Local]
        /\ \A d \in Call \ {c} : calls'[d] = calls[d]
        /\ calls'[c].pc = "prepare" /\ calls'[c].request = calls[c].request
        /\ calls'[c].registration \in Registration
    BY <1>1, <1>6, <2>2 DEF Enter, Local, PC
  <2>4. calls'[c].request \in Request
    BY <2>1, <2>3 DEF IInv, Named, Active, At
  <2>5. record' \in Record \cup {NoRecord}
    BY <1>1, <1>6, <2>2 DEF Enter, PreparedElsewhere, Record, Local
  <2>6. /\ sent' \subseteq Call /\ delivered' \subseteq Request
        /\ UNCHANGED <<execution, current, revoked, issued, lock>>
    BY <1>1, <1>6 DEF Enter
  <2> QED BY <2>1, <2>3, <2>4, <2>5, <2>6, FreeCallInv
<1> QED BY <1>2, <1>3, <1>4, <1>5, <1>6

(* What every action below may assume of the call that takes it. *)
LEMMA CallFacts ==
  ASSUME IInv, NEW c \in Call
  PROVE  /\ calls \in [Call -> Local] /\ calls[c] \in Local
         /\ execution \in [open : BOOLEAN, revision : 1 .. MaxRevision]
         /\ execution.revision \in 0 .. MaxRevision
         /\ record \in Record \cup {NoRecord}
         /\ sent \subseteq Call /\ delivered \subseteq Request
         /\ calls[c].pc \notin {"new", "done"} => calls[c].request \in Request
         /\ calls[c].pc \notin {"new", "load", "decide", "done"} =>
              /\ calls[c].registration \in Registration
              /\ \A phase \in Phase, revision \in 0 .. MaxRevision :
                   RecordOf(c, phase, revision) \in Record
BY GatewayAssumption, RecordType DEF IInv, TypeOK, Named, Active


(* The journal's first entry, the review of the input and the summary that is  *)
(* read again for the permit.                                                  *)
LEMMA InputInv ==
  ASSUME IInv, NEW c \in Call,
         PrepareLoad(c) \/ PrepareSave(c) \/ AllowInput(c) \/ DenyInput(c) \/ Recheck(c) \/ AllowInputAgain(c)
  PROVE  IInv'
<1>1. /\ calls \in [Call -> Local] /\ calls[c] \in Local
      /\ execution.revision \in 0 .. MaxRevision
      /\ 0 \in 0 .. MaxRevision
      /\ record \in Record \cup {NoRecord}
      /\ sent \subseteq Call /\ delivered \subseteq Request
      /\ calls[c].pc \notin {"new", "done"} => calls[c].request \in Request
      /\ calls[c].pc \notin {"new", "load", "decide", "done"} =>
           /\ calls[c].registration \in Registration
           /\ \A phase \in Phase, revision \in 0 .. MaxRevision :
                RecordOf(c, phase, revision) \in Record
  BY CallFacts, GatewayAssumption
<1>2. CASE PrepareLoad(c)
  <2>1. calls[c].pc = "prepare"
    BY <1>2 DEF PrepareLoad, At
  <2>2. /\ record' \in Record \cup {NoRecord}
        /\ sent' \subseteq Call /\ delivered' \subseteq Request
        /\ UNCHANGED <<execution, current, revoked, issued, lock>>
    BY <1>1, <1>2, <2>1 DEF PrepareLoad, Phase
  <2>3. /\ calls' \in [Call -> Local]
        /\ \A d \in Call \ {c} : calls'[d] = calls[d]
        /\ calls'[c].pc = "save"
        /\ calls'[c].request = calls[c].request
        /\ calls'[c].registration = calls[c].registration
        /\ calls'[c].pc \in {"commit", "release"} => calls'[c].authorized = calls'[c].seen
    BY <1>1, <1>2, <2>1 DEF PrepareLoad, Local, PC
  <2> QED BY <1>1, <2>1, <2>2, <2>3, FreeCallInv
<1>3. CASE PrepareSave(c)
  <2>1. calls[c].pc = "save"
    BY <1>3 DEF PrepareSave, At
  <2>2. /\ record' \in Record \cup {NoRecord}
        /\ sent' \subseteq Call /\ delivered' \subseteq Request
        /\ UNCHANGED <<execution, current, revoked, issued, lock>>
    BY <1>1, <1>3, <2>1 DEF PrepareSave, Phase
  <2>3. CASE End(c)
    <3>1. UNCHANGED sent
      BY <1>3 DEF PrepareSave
    <3> QED BY <2>1, <2>2, <2>3, <3>1, FreeEndInv
  <2>4. CASE ~End(c)
    <3>1. /\ calls' \in [Call -> Local]
          /\ \A d \in Call \ {c} : calls'[d] = calls[d]
          /\ calls'[c].pc = "input"
          /\ calls'[c].request = calls[c].request
          /\ calls'[c].registration = calls[c].registration
          /\ calls'[c].pc \in {"commit", "release"} => calls'[c].authorized = calls'[c].seen
      BY <1>1, <1>3, <2>1, <2>4 DEF PrepareSave, Local, PC
    <3> QED BY <1>1, <2>1, <2>2, <3>1, FreeCallInv
  <2> QED BY <2>3, <2>4
<1>4. CASE AllowInput(c)
  <2>1. calls[c].pc = "input"
    BY <1>4 DEF AllowInput, At
  <2>2. /\ record' \in Record \cup {NoRecord}
        /\ sent' \subseteq Call /\ delivered' \subseteq Request
        /\ UNCHANGED <<execution, current, revoked, issued, lock>>
    BY <1>1, <1>4, <2>1 DEF AllowInput, Phase
  <2>3. /\ calls' \in [Call -> Local]
        /\ \A d \in Call \ {c} : calls'[d] = calls[d]
        /\ calls'[c].pc = "provider"
        /\ calls'[c].request = calls[c].request
        /\ calls'[c].registration = calls[c].registration
        /\ calls'[c].pc \in {"commit", "release"} => calls'[c].authorized = calls'[c].seen
    BY <1>1, <1>4, <2>1 DEF AllowInput, Local, PC
  <2> QED BY <1>1, <2>1, <2>2, <2>3, FreeCallInv
<1>5. CASE DenyInput(c)
  <2>1. calls[c].pc \in {"input", "reauthorize"}
    BY <1>5 DEF DenyInput, At
  <2>2. /\ record' \in Record \cup {NoRecord}
        /\ sent' \subseteq Call /\ delivered' \subseteq Request
        /\ UNCHANGED <<execution, current, revoked, issued, lock>>
    BY <1>1, <1>5, <2>1 DEF DenyInput, Phase
  <2>3. End(c) /\ UNCHANGED sent
    BY <1>5 DEF DenyInput
  <2> QED BY <2>1, <2>2, <2>3, FreeEndInv
<1>6. CASE Recheck(c)
  <2>1. calls[c].pc = "provider"
    BY <1>6 DEF Recheck, At
  <2>2. /\ record' \in Record \cup {NoRecord}
        /\ sent' \subseteq Call /\ delivered' \subseteq Request
        /\ UNCHANGED <<execution, current, revoked, issued, lock>>
    BY <1>1, <1>6, <2>1 DEF Recheck, Phase
  <2>3. CASE End(c)
    <3>1. UNCHANGED sent
      BY <1>6 DEF Recheck
    <3> QED BY <2>1, <2>2, <2>3, <3>1, FreeEndInv
  <2>4. CASE ~End(c)
    <3>1. /\ calls' \in [Call -> Local]
          /\ \A d \in Call \ {c} : calls'[d] = calls[d]
          /\ calls'[c].pc \in {"commit", "reauthorize"}
          /\ calls'[c].request = calls[c].request
          /\ calls'[c].registration = calls[c].registration
          /\ calls'[c].pc \in {"commit", "release"} => calls'[c].authorized = calls'[c].seen
      BY <1>1, <1>6, <2>1, <2>4 DEF Recheck, Local, PC
    <3> QED BY <1>1, <2>1, <2>2, <3>1, FreeCallInv
  <2> QED BY <2>3, <2>4
<1>7. CASE AllowInputAgain(c)
  <2>1. calls[c].pc = "reauthorize"
    BY <1>7 DEF AllowInputAgain, At
  <2>2. /\ record' \in Record \cup {NoRecord}
        /\ sent' \subseteq Call /\ delivered' \subseteq Request
        /\ UNCHANGED <<execution, current, revoked, issued, lock>>
    BY <1>1, <1>7, <2>1 DEF AllowInputAgain, Phase
  <2>3. /\ calls' \in [Call -> Local]
        /\ \A d \in Call \ {c} : calls'[d] = calls[d]
        /\ calls'[c].pc = "commit"
        /\ calls'[c].request = calls[c].request
        /\ calls'[c].registration = calls[c].registration
        /\ calls'[c].pc \in {"commit", "release"} => calls'[c].authorized = calls'[c].seen
    BY <1>1, <1>7, <2>1 DEF AllowInputAgain, Local, PC
  <2> QED BY <1>1, <2>1, <2>2, <2>3, FreeCallInv
<1> QED BY <1>2, <1>3, <1>4, <1>5, <1>6, <1>7

(* The provider is asked, and fails or answers. *)
LEMMA ProviderInv ==
  ASSUME IInv, NEW c \in Call,
         Send(c) \/ FailProvider(c) \/ Answer(c)
  PROVE  IInv'
<1>1. /\ calls \in [Call -> Local] /\ calls[c] \in Local
      /\ execution.revision \in 0 .. MaxRevision
      /\ 0 \in 0 .. MaxRevision
      /\ record \in Record \cup {NoRecord}
      /\ sent \subseteq Call /\ delivered \subseteq Request
      /\ calls[c].pc \notin {"new", "done"} => calls[c].request \in Request
      /\ calls[c].pc \notin {"new", "load", "decide", "done"} =>
           /\ calls[c].registration \in Registration
           /\ \A phase \in Phase, revision \in 0 .. MaxRevision :
                RecordOf(c, phase, revision) \in Record
  BY CallFacts, GatewayAssumption
<1>2. CASE Send(c)
  <2>1. calls[c].pc = "sending"
    BY <1>2 DEF Send, At
  <2>2. /\ record' \in Record \cup {NoRecord}
        /\ sent' \subseteq Call /\ delivered' \subseteq Request
        /\ UNCHANGED <<execution, current, revoked, issued, lock>>
    BY <1>1, <1>2, <2>1 DEF Send, Phase
  <2>3. /\ calls' \in [Call -> Local]
        /\ \A d \in Call \ {c} : calls'[d] = calls[d]
        /\ calls'[c].pc = "answering"
        /\ calls'[c].request = calls[c].request
        /\ calls'[c].registration = calls[c].registration
        /\ calls'[c].pc \in {"commit", "release"} => calls'[c].authorized = calls'[c].seen
    BY <1>1, <1>2, <2>1 DEF Send, Local, PC
  <2> QED BY <1>1, <2>1, <2>2, <2>3, FreeCallInv
<1>3. CASE FailProvider(c)
  <2>1. calls[c].pc \in {"sending", "answering"}
    BY <1>3 DEF FailProvider, At
  <2>2. /\ record' \in Record \cup {NoRecord}
        /\ sent' \subseteq Call /\ delivered' \subseteq Request
        /\ UNCHANGED <<execution, current, revoked, issued, lock>>
    BY <1>1, <1>3, <2>1 DEF FailProvider, Phase
  <2>3. End(c) /\ UNCHANGED sent
    BY <1>3 DEF FailProvider
  <2> QED BY <2>1, <2>2, <2>3, FreeEndInv
<1>4. CASE Answer(c)
  <2>1. calls[c].pc = "answering"
    BY <1>4 DEF Answer, At
  <2>2. /\ record' \in Record \cup {NoRecord}
        /\ sent' \subseteq Call /\ delivered' \subseteq Request
        /\ UNCHANGED <<execution, current, revoked, issued, lock>>
    <3>1. calls[c].authorized \in 0 .. MaxRevision
      BY <1>1 DEF Local
    <3>2. /\ RecordOf(c, "failed", 0) \in Record
          /\ RecordOf(c, "output-pending", calls[c].authorized) \in Record
      BY <1>1, <2>1, <3>1 DEF Phase
    <3> QED BY <1>1, <1>4, <3>2 DEF Answer
  <2>3. CASE End(c)
    <3>1. UNCHANGED sent
      BY <1>4 DEF Answer
    <3> QED BY <2>1, <2>2, <2>3, <3>1, FreeEndInv
  <2>4. CASE ~End(c)
    <3>1. /\ calls' \in [Call -> Local]
          /\ \A d \in Call \ {c} : calls'[d] = calls[d]
          /\ calls'[c].pc = "output"
          /\ calls'[c].request = calls[c].request
          /\ calls'[c].registration = calls[c].registration
          /\ calls'[c].pc \in {"commit", "release"} => calls'[c].authorized = calls'[c].seen
      BY <1>1, <1>4, <2>1, <2>4 DEF Answer, Local, PC
    <3> QED BY <1>1, <2>1, <2>2, <3>1, FreeCallInv
  <2> QED BY <2>3, <2>4
<1> QED BY <1>2, <1>3, <1>4

(* The review of the output, up to its release, and the withdrawal or delivery  *)
(* of what was released.                                                        *)
LEMMA OutputInv ==
  ASSUME IInv, NEW c \in Call,
         ReviewOutput(c) \/ AllowOutput(c) \/ DenyOutput(c) \/ Observe(c) \/ Withdraw(c) \/ Deliver(c)
  PROVE  IInv'
<1>1. /\ calls \in [Call -> Local] /\ calls[c] \in Local
      /\ execution.revision \in 0 .. MaxRevision
      /\ 0 \in 0 .. MaxRevision
      /\ record \in Record \cup {NoRecord}
      /\ sent \subseteq Call /\ delivered \subseteq Request
      /\ calls[c].pc \notin {"new", "done"} => calls[c].request \in Request
      /\ calls[c].pc \notin {"new", "load", "decide", "done"} =>
           /\ calls[c].registration \in Registration
           /\ \A phase \in Phase, revision \in 0 .. MaxRevision :
                RecordOf(c, phase, revision) \in Record
  BY CallFacts, GatewayAssumption
<1>2. CASE ReviewOutput(c)
  <2>1. calls[c].pc = "output"
    BY <1>2 DEF ReviewOutput, At
  <2>2. /\ record' \in Record \cup {NoRecord}
        /\ sent' \subseteq Call /\ delivered' \subseteq Request
        /\ UNCHANGED <<execution, current, revoked, issued, lock>>
    BY <1>1, <1>2, <2>1 DEF ReviewOutput, Phase
  <2>3. CASE End(c)
    <3>1. UNCHANGED sent
      BY <1>2 DEF ReviewOutput
    <3> QED BY <2>1, <2>2, <2>3, <3>1, FreeEndInv
  <2>4. CASE ~End(c)
    <3>1. /\ calls' \in [Call -> Local]
          /\ \A d \in Call \ {c} : calls'[d] = calls[d]
          /\ calls'[c].pc = "authorize"
          /\ calls'[c].request = calls[c].request
          /\ calls'[c].registration = calls[c].registration
          /\ calls'[c].pc \in {"commit", "release"} => calls'[c].authorized = calls'[c].seen
      BY <1>1, <1>2, <2>1, <2>4 DEF ReviewOutput, Local, PC
    <3> QED BY <1>1, <2>1, <2>2, <3>1, FreeCallInv
  <2> QED BY <2>3, <2>4
<1>3. CASE AllowOutput(c)
  <2>1. calls[c].pc = "authorize"
    BY <1>3 DEF AllowOutput, At
  <2>2. /\ record' \in Record \cup {NoRecord}
        /\ sent' \subseteq Call /\ delivered' \subseteq Request
        /\ UNCHANGED <<execution, current, revoked, issued, lock>>
    BY <1>1, <1>3, <2>1 DEF AllowOutput, Phase
  <2>3. /\ calls' \in [Call -> Local]
        /\ \A d \in Call \ {c} : calls'[d] = calls[d]
        /\ calls'[c].pc = "observe"
        /\ calls'[c].request = calls[c].request
        /\ calls'[c].registration = calls[c].registration
        /\ calls'[c].pc \in {"commit", "release"} => calls'[c].authorized = calls'[c].seen
    BY <1>1, <1>3, <2>1 DEF AllowOutput, Local, PC
  <2> QED BY <1>1, <2>1, <2>2, <2>3, FreeCallInv
<1>4. CASE DenyOutput(c)
  <2>1. calls[c].pc = "authorize"
    BY <1>4 DEF DenyOutput, At
  <2>2. /\ record' \in Record \cup {NoRecord}
        /\ sent' \subseteq Call /\ delivered' \subseteq Request
        /\ UNCHANGED <<execution, current, revoked, issued, lock>>
    BY <1>1, <1>4, <2>1 DEF DenyOutput, Phase
  <2>3. End(c) /\ UNCHANGED sent
    BY <1>4 DEF DenyOutput
  <2> QED BY <2>1, <2>2, <2>3, FreeEndInv
<1>5. CASE Observe(c)
  <2>1. calls[c].pc = "observe"
    BY <1>5 DEF Observe, At
  <2>2. /\ record' \in Record \cup {NoRecord}
        /\ sent' \subseteq Call /\ delivered' \subseteq Request
        /\ UNCHANGED <<execution, current, revoked, issued, lock>>
    BY <1>1, <1>5, <2>1 DEF Observe, Phase
  <2>3. CASE End(c)
    <3>1. UNCHANGED sent
      BY <1>5 DEF Observe
    <3> QED BY <2>1, <2>2, <2>3, <3>1, FreeEndInv
  <2>4. CASE ~End(c)
    <3>1. /\ calls' \in [Call -> Local]
          /\ \A d \in Call \ {c} : calls'[d] = calls[d]
          /\ calls'[c].pc \in {"release", "authorize"}
          /\ calls'[c].request = calls[c].request
          /\ calls'[c].registration = calls[c].registration
          /\ calls'[c].pc \in {"commit", "release"} => calls'[c].authorized = calls'[c].seen
      BY <1>1, <1>5, <2>1, <2>4 DEF Observe, Local, PC
    <3> QED BY <1>1, <2>1, <2>2, <3>1, FreeCallInv
  <2> QED BY <2>3, <2>4
<1>6. CASE Withdraw(c)
  <2>1. calls[c].pc \in {"withdraw", "deliver"}
    BY <1>6 DEF Withdraw, At
  <2>2. /\ record' \in Record \cup {NoRecord}
        /\ sent' \subseteq Call /\ delivered' \subseteq Request
        /\ UNCHANGED <<execution, current, revoked, issued, lock>>
    BY <1>1, <1>6, <2>1 DEF Withdraw, Phase
  <2>3. End(c) /\ UNCHANGED sent
    BY <1>6 DEF Withdraw
  <2> QED BY <2>1, <2>2, <2>3, FreeEndInv
<1>7. CASE Deliver(c)
  <2>1. calls[c].pc = "deliver"
    BY <1>7 DEF Deliver, At
  <2>2. /\ record' \in Record \cup {NoRecord}
        /\ sent' \subseteq Call /\ delivered' \subseteq Request
        /\ UNCHANGED <<execution, current, revoked, issued, lock>>
    BY <1>1, <1>7, <2>1 DEF Deliver, Phase
  <2>3. End(c) /\ UNCHANGED sent
    BY <1>7 DEF Deliver
  <2> QED BY <2>1, <2>2, <2>3, FreeEndInv
<1> QED BY <1>2, <1>3, <1>4, <1>5, <1>6, <1>7

(* commitIfCurrent: a call takes the lock only with an authorization for the    *)
(* revision it finds, and gives it back in the next step.                       *)
LEMMA CommitmentInv ==
  ASSUME IInv, NEW c \in Call,
         Commit(c) \/ Dispatch(c) \/ Release(c) \/ Released(c)
  PROVE  IInv'
<1>1. /\ calls \in [Call -> Local] /\ calls[c] \in Local
      /\ execution.revision \in 0 .. MaxRevision
      /\ record \in Record \cup {NoRecord}
      /\ sent \subseteq Call /\ delivered \subseteq Request
      /\ calls[c].pc \notin {"new", "done"} => calls[c].request \in Request
      /\ calls[c].pc \notin {"new", "load", "decide", "done"} =>
           /\ calls[c].registration \in Registration
           /\ \A phase \in Phase, revision \in 0 .. MaxRevision :
                RecordOf(c, phase, revision) \in Record
  BY CallFacts
<1>2. CASE Commit(c)
  <2>1. calls[c].pc = "commit" /\ lock = NoCall
    BY <1>2 DEF Commit, At
  <2>2. calls[c].authorized = calls[c].seen
    BY <2>1 DEF IInv, Authorized
  <2>3. UNCHANGED <<record, execution, current, revoked, issued, sent, delivered>>
    BY <1>2 DEF Commit
  <2>4. CASE End(c) /\ lock' = lock
    BY <1>1, <2>1, <2>3, <2>4, FreeEndInv
  <2>5. CASE calls' = [calls EXCEPT ![c].pc = "provider"] /\ lock' = lock
    <3>1. /\ calls' \in [Call -> Local]
          /\ \A d \in Call \ {c} : calls'[d] = calls[d]
          /\ calls'[c].pc = "provider"
          /\ calls'[c].request = calls[c].request
          /\ calls'[c].registration = calls[c].registration
      BY <1>1, <2>5 DEF Local, PC
    <3> QED BY <1>1, <2>1, <2>3, <2>5, <3>1, FreeCallInv
  <2>6. CASE /\ execution.open /\ execution.revision = calls[c].seen
             /\ lock' = c
             /\ calls' = [calls EXCEPT ![c].pc = "dispatch", ![c].loaded = record]
    <3>1. /\ calls' \in [Call -> Local]
          /\ \A d \in Call \ {c} : calls'[d] = calls[d]
          /\ calls'[c].pc = "dispatch"
          /\ calls'[c].request = calls[c].request
          /\ calls'[c].registration = calls[c].registration
          /\ calls'[c].authorized = calls[c].authorized
      BY <1>1, <2>6 DEF Local, PC
    <3>2. \A d \in Call \ {c} : lock' = d <=> lock = d
      BY <2>1, <2>6, GatewayAssumption
    <3>3. execution.open /\ calls'[c].authorized = execution.revision
      BY <2>2, <2>6, <3>1
    <3> QED BY <1>1, <2>1, <2>3, <2>6, <3>1, <3>2, <3>3, OneCallInv
  <2> QED BY <1>2, <2>4, <2>5, <2>6 DEF Commit
<1>3. CASE Dispatch(c)
  <2>1. calls[c].pc = "dispatch" /\ lock' = NoCall
    BY <1>3 DEF Dispatch, At
  <2>2. UNCHANGED <<execution, current, revoked, issued, sent, delivered>>
    BY <1>3 DEF Dispatch
  <2>3. lock = c
    BY <2>1 DEF IInv, TypeOK, At
  <2>4. lock' # c /\ \A d \in Call \ {c} : lock' = d <=> lock = d
    BY <2>1, <2>3, GatewayAssumption
  <2>5. RecordOf(c, "dispatched", execution.revision) \in Record
    BY <1>1, <2>1 DEF Phase
  <2>6. record' \in Record \cup {NoRecord}
    BY <1>1, <1>3, <2>5 DEF Dispatch
  <2>7. CASE End(c)
    BY <1>1, <2>2, <2>4, <2>6, <2>7, EndInv
  <2>8. CASE ~End(c)
    <3>1. /\ calls' \in [Call -> Local]
          /\ \A d \in Call \ {c} : calls'[d] = calls[d]
          /\ calls'[c].pc = "sending"
          /\ calls'[c].request = calls[c].request
          /\ calls'[c].registration = calls[c].registration
      BY <1>1, <1>3, <2>8 DEF Dispatch, Local, PC
    <3> QED BY <1>1, <2>1, <2>2, <2>4, <2>6, <3>1, OneCallInv
  <2> QED BY <2>7, <2>8
<1>4. CASE Release(c)
  <2>1. calls[c].pc = "release" /\ lock = NoCall
    BY <1>4 DEF Release, At
  <2>2. UNCHANGED <<execution, current, revoked, issued, sent, delivered>>
    BY <1>4 DEF Release
  <2>3. RecordOf(c, "released", execution.revision) \in Record
    BY <1>1, <2>1 DEF Phase
  <2>4. record' \in Record \cup {NoRecord}
    BY <1>1, <1>4, <2>3 DEF Release
  <2>5. CASE End(c) /\ lock' = lock
    BY <1>1, <2>1, <2>2, <2>4, <2>5, FreeEndInv
  <2>6. CASE /\ lock' = lock
             /\ \E pc \in {"output", "withdraw"} : calls' = [calls EXCEPT ![c].pc = pc]
    <3>1. /\ calls' \in [Call -> Local]
          /\ \A d \in Call \ {c} : calls'[d] = calls[d]
          /\ calls'[c].pc \in {"output", "withdraw"}
          /\ calls'[c].request = calls[c].request
          /\ calls'[c].registration = calls[c].registration
      BY <1>1, <2>6 DEF Local, PC
    <3> QED BY <1>1, <2>1, <2>2, <2>4, <2>6, <3>1, FreeCallInv
  <2>7. CASE lock' = c /\ calls' = [calls EXCEPT ![c].pc = "releasing"]
    <3>1. /\ calls' \in [Call -> Local]
          /\ \A d \in Call \ {c} : calls'[d] = calls[d]
          /\ calls'[c].pc = "releasing"
          /\ calls'[c].request = calls[c].request
          /\ calls'[c].registration = calls[c].registration
      BY <1>1, <2>7 DEF Local, PC
    <3>2. \A d \in Call \ {c} : lock' = d <=> lock = d
      BY <2>1, <2>7, GatewayAssumption
    <3> QED BY <1>1, <2>1, <2>2, <2>4, <2>7, <3>1, <3>2, OneCallInv
  <2> QED BY <1>4, <2>5, <2>6, <2>7 DEF Release
<1>5. CASE Released(c)
  <2>1. calls[c].pc = "releasing" /\ lock' = NoCall
    BY <1>5 DEF Released, At
  <2>2. UNCHANGED <<record, execution, current, revoked, issued, sent, delivered>>
    BY <1>5 DEF Released
  <2>3. lock = c
    BY <2>1 DEF IInv, TypeOK, At
  <2>4. lock' # c /\ \A d \in Call \ {c} : lock' = d <=> lock = d
    BY <2>1, <2>3, GatewayAssumption
  <2>5. /\ calls' \in [Call -> Local]
        /\ \A d \in Call \ {c} : calls'[d] = calls[d]
        /\ calls'[c].pc \in {"withdraw", "deliver"}
        /\ calls'[c].request = calls[c].request
        /\ calls'[c].registration = calls[c].registration
    BY <1>1, <1>5 DEF Released, Local, PC
  <2> QED BY <1>1, <2>1, <2>2, <2>4, <2>5, OneCallInv
<1> QED BY <1>2, <1>3, <1>4, <1>5

(* An abort leaves the call where it is; a rejected await ends it and, inside   *)
(* commitIfCurrent, lets the next operation in.                                 *)
LEMMA InterruptInv ==
  ASSUME IInv, NEW c \in Call, Abort(c) \/ Abandon(c)
  PROVE  IInv'
<1>1. /\ calls \in [Call -> Local] /\ calls[c] \in Local
      /\ record \in Record \cup {NoRecord}
      /\ sent \subseteq Call /\ delivered \subseteq Request
      /\ calls[c].pc \notin {"new", "done"} => calls[c].request \in Request
      /\ calls[c].pc \notin {"new", "load", "decide", "done"} =>
           calls[c].registration \in Registration
  BY CallFacts
<1>2. CASE Abort(c)
  <2>1. /\ calls' \in [Call -> Local]
        /\ \A d \in Call \ {c} : calls'[d] = calls[d]
        /\ calls'[c].pc = calls[c].pc
        /\ calls'[c].request = calls[c].request
        /\ calls'[c].registration = calls[c].registration
        /\ calls'[c].seen = calls[c].seen
        /\ calls'[c].authorized = calls[c].authorized
    BY <1>1, <1>2 DEF Abort, Local
  <2>2. /\ calls'[c].pc \in {"commit", "release"} => calls'[c].authorized = calls'[c].seen
        /\ calls'[c].pc = "dispatch" =>
             execution.open /\ calls'[c].authorized = execution.revision
    BY <2>1 DEF IInv, Authorized, At
  <2>3. UNCHANGED <<record, execution, current, revoked, issued, lock, sent, delivered>>
    BY <1>2 DEF Abort
  <2>4. calls'[c].pc \in {"dispatch", "releasing"} <=> lock' = c
    BY <2>1, <2>3 DEF IInv, TypeOK, At
  <2> QED BY <1>1, <2>1, <2>2, <2>3, <2>4, OneCallInv
<1>3. CASE Abandon(c)
  <2>1. lock' # c /\ \A d \in Call \ {c} : lock' = d <=> lock = d
    BY <1>3, GatewayAssumption DEF Abandon
  <2>2. /\ End(c)
        /\ UNCHANGED <<record, execution, current, revoked, issued, sent, delivered>>
    BY <1>3 DEF Abandon
  <2> QED BY <1>1, <2>1, <2>2, EndInv
<1> QED BY <1>2, <1>3

(* Nobody is inside commitIfCurrent when the execution changes. *)
LEMMA ExecutionInv ==
  ASSUME IInv, Raise \/ CloseExecution
  PROVE  IInv'
<1>1. /\ lock = NoCall
      /\ UNCHANGED <<record, current, revoked, issued, lock, calls, sent, delivered>>
  BY DEF Raise, CloseExecution
<1>2. execution' \in [open : BOOLEAN, revision : 1 .. MaxRevision]
  <2>1. execution \in [open : BOOLEAN, revision : 1 .. MaxRevision]
    BY DEF IInv, TypeOK
  <2>2. CASE Raise
    <3>1. execution.revision + 1 \in 1 .. MaxRevision
      BY <2>1, <2>2, GatewayAssumption DEF Raise
    <3> QED BY <2>1, <2>2, <3>1 DEF Raise
  <2>3. CASE CloseExecution
    BY <2>1, <2>3 DEF CloseExecution
  <2> QED BY <2>2, <2>3
<1>3. \A c \in Call : ~At(c, "dispatch")
  BY <1>1, GatewayAssumption DEF IInv, TypeOK
<1>4. TypeOK'
  BY <1>1, <1>2 DEF IInv, TypeOK, At
<1>5. Named' /\ Authorized'
  BY <1>1, <1>3 DEF IInv, Named, Authorized, Active, At
<1> QED BY <1>4, <1>5 DEF IInv

LEMMA ProviderChangeInv ==
  ASSUME IInv, (\E r \in Registration : registerProvider(r)) \/ removeProvider
  PROVE  IInv'
<1>1. UNCHANGED <<record, execution, lock, calls, sent, delivered>>
  BY DEF registerProvider, removeProvider
<1>2. /\ issued' \subseteq Registration
      /\ current' \in issued' \cup {NoRegistration}
      /\ revoked' \subseteq issued'
  BY DEF IInv, TypeOK, registerProvider, removeProvider
<1>3. TypeOK'
  BY <1>1, <1>2 DEF IInv, TypeOK, At
<1>4. Named' /\ Authorized'
  BY <1>1 DEF IInv, Named, Authorized, Active, At
<1> QED BY <1>3, <1>4 DEF IInv

(* A restart leaves no call running and nobody holding the lock. *)
LEMMA RestartFacts ==
  ASSUME IInv, Restart
  PROVE  /\ calls' \in [Call -> Local]
         /\ \A c \in Call : calls'[c].pc \in {"new", "done"}
<1>1. Idle("done") \in Local /\ Idle("done").pc = "done"
  BY IdleType DEF PC
<1>2. \A c \in Call : calls'[c] = IF Active(c) THEN Idle("done") ELSE calls[c]
  BY DEF Restart
<1>3. calls' \in [Call -> Local]
  BY <1>1 DEF IInv, TypeOK, Restart
<1> QED BY <1>1, <1>2, <1>3 DEF Active

LEMMA RestartInv == IInv /\ Restart => IInv'
<1> SUFFICES ASSUME IInv, Restart PROVE IInv'
  OBVIOUS
<1>1. /\ calls' \in [Call -> Local]
      /\ \A c \in Call : calls'[c].pc \in {"new", "done"}
  BY RestartFacts
<1>2. \A c \in Call : lock' # c
  BY GatewayAssumption DEF Restart
<1>3. TypeOK'
  BY <1>1, <1>2 DEF IInv, TypeOK, Restart, At
<1>4. Named' /\ Authorized'
  BY <1>1 DEF Named, Authorized, Active, At
<1> QED BY <1>3, <1>4 DEF IInv

LEMMA NextInv == IInv /\ [Next]_vars => IInv'
<1> SUFFICES ASSUME IInv, [Next]_vars PROVE IInv'
  OBVIOUS
<1>1. ASSUME NEW c \in Call, NEW q \in Request, Start(c, q) PROVE IInv'
  BY <1>1, AdmissionInv
<1>2. ASSUME NEW c \in Call, Step(c) PROVE IInv'
  <2>1. CASE Load(c) \/ Refuse(c) \/ Replay(c) \/ Enter(c)
    <3>1. calls[c].pc \in {"load", "decide"}
      BY <2>1 DEF Load, Refuse, Replay, Enter, At
    <3>2. calls[c].request \in Request
      BY <3>1 DEF IInv, Named, Active
    <3> QED BY <2>1, <3>2, AdmissionInv
  <2>2. CASE PrepareLoad(c) \/ PrepareSave(c) \/ AllowInput(c) \/ DenyInput(c)
             \/ Recheck(c) \/ AllowInputAgain(c)
    BY <2>2, InputInv
  <2>3. CASE Commit(c) \/ Dispatch(c) \/ Release(c) \/ Released(c)
    BY <2>3, CommitmentInv
  <2>4. CASE Send(c) \/ FailProvider(c) \/ Answer(c)
    BY <2>4, ProviderInv
  <2>5. CASE ReviewOutput(c) \/ AllowOutput(c) \/ DenyOutput(c) \/ Observe(c)
             \/ Withdraw(c) \/ Deliver(c)
    BY <2>5, OutputInv
  <2> QED BY <1>2, <2>1, <2>2, <2>3, <2>4, <2>5 DEF Step
<1>3. ASSUME NEW c \in Call, Abort(c) \/ Abandon(c) PROVE IInv'
  BY <1>3, InterruptInv
<1>4. CASE Raise \/ CloseExecution
  BY <1>4, ExecutionInv
<1>5. CASE (\E r \in Registration : registerProvider(r)) \/ removeProvider
  BY <1>5, ProviderChangeInv
<1>6. CASE Restart
  BY <1>6, RestartInv
<1>7. CASE UNCHANGED vars
  BY <1>7 DEF vars, IInv, TypeOK, Named, Authorized, Active, At
<1> QED BY <1>1, <1>2, <1>3, <1>4, <1>5, <1>6, <1>7 DEF Next, Surroundings

(* However the calls overlap, the locals of each agree with the lock and with   *)
(* the execution.                                                               *)
THEOREM Invariance == Spec => []IInv
<1>1. Init => IInv
  BY InitInv
<1>2. IInv /\ [Next]_vars => IInv'
  BY NextInv
<1> QED BY <1>1, <1>2, PTL DEF Spec

(* Types: the journal, the execution, the registrations and the locals of every *)
(* call of complete() stay what they are declared to be, and the lock of        *)
(* #mutate belongs to a call inside its commitIfCurrent operation.              *)
THEOREM TypeCorrect == Spec => []TypeOK
<1>1. IInv => TypeOK
  BY DEF IInv
<1> QED BY <1>1, Invariance, PTL

(* A step of one call leaves the locals of the others alone. *)
LEMMA OthersKeep ==
  ASSUME calls \in [Call -> Local], NEW c \in Call, NEW d \in Call, c # d,
         \/ \E q \in Request : Start(d, q)
         \/ Step(d) \/ Abort(d) \/ Abandon(d)
  PROVE  calls'[c] = calls[c]
<1>1. ASSUME NEW q \in Request, Start(d, q) PROVE calls'[c] = calls[c]
  BY <1>1 DEF Start
<1>2. CASE Load(d) \/ Refuse(d) \/ Replay(d) \/ Enter(d) \/ PrepareLoad(d) \/ PrepareSave(d)
  BY <1>2 DEF Load, Refuse, Replay, Enter, PrepareLoad, PrepareSave, End
<1>3. CASE AllowInput(d) \/ DenyInput(d) \/ Recheck(d) \/ AllowInputAgain(d)
           \/ Commit(d) \/ Dispatch(d)
  BY <1>3 DEF AllowInput, DenyInput, Recheck, AllowInputAgain, Commit, Dispatch, End
<1>4. CASE Send(d) \/ FailProvider(d) \/ Answer(d) \/ ReviewOutput(d) \/ AllowOutput(d)
           \/ DenyOutput(d)
  BY <1>4 DEF Send, FailProvider, Answer, ReviewOutput, AllowOutput, DenyOutput, End
<1>5. CASE Observe(d) \/ Release(d) \/ Released(d) \/ Withdraw(d) \/ Deliver(d)
  BY <1>5 DEF Observe, Release, Released, Withdraw, Deliver, End
<1>6. CASE Abort(d) \/ Abandon(d)
  BY <1>6 DEF Abort, Abandon, End
<1> QED BY <1>1, <1>2, <1>3, <1>4, <1>5, <1>6 DEF Step

(* Whose step it was that moved a call on, neither ending it nor a restart. *)
LEMMA OwnStep ==
  ASSUME IInv, [Next]_vars, NEW c \in Call, Active(c),
         calls'[c].pc # calls[c].pc, calls'[c].pc # "done"
  PROVE  Step(c)
<1>1. calls \in [Call -> Local]
  BY DEF IInv, TypeOK
<1>2. calls'[c] # calls[c]
  OBVIOUS
<1>3. ASSUME NEW d \in Call, NEW q \in Request, Start(d, q) PROVE FALSE
  BY <1>1, <1>2, <1>3, OthersKeep DEF Start, At, Active
<1>4. ASSUME NEW d \in Call, Step(d) PROVE Step(c)
  BY <1>1, <1>2, <1>4, OthersKeep
<1>5. ASSUME NEW d \in Call, Abort(d) PROVE FALSE
  <2>1. d = c
    BY <1>1, <1>2, <1>5, OthersKeep
  <2> QED BY <1>1, <1>5, <2>1 DEF Abort, Local
<1>6. ASSUME NEW d \in Call, Abandon(d) PROVE FALSE
  <2>1. d = c
    BY <1>1, <1>2, <1>6, OthersKeep
  <2> QED BY <1>1, <1>6, <2>1, IdleType DEF Abandon, End, PC
<1>7. CASE Raise \/ CloseExecution
  BY <1>2, <1>7 DEF Raise, CloseExecution
<1>8. CASE (\E r \in Registration : registerProvider(r)) \/ removeProvider
  BY <1>2, <1>8 DEF registerProvider, removeProvider
<1>9. CASE Restart
  BY <1>9, RestartFacts DEF Active, Restart, Idle
<1>10. CASE UNCHANGED vars
  BY <1>2, <1>10 DEF vars
<1> QED BY <1>3, <1>4, <1>5, <1>6, <1>7, <1>8, <1>9, <1>10 DEF Next, Surroundings

(* However many calls overlap: a request is committed only while the execution  *)
(* is open and at the revision its last authorization covered.                  *)
THEOREM DispatchAuthorized == Spec => DispatchIsAuthorized
<1>1. ASSUME IInv, [Next]_vars, NEW c \in Call,
             At(c, "dispatch"), calls'[c].pc = "sending"
      PROVE  /\ execution.open
             /\ calls[c].authorized = execution.revision
             /\ record'.revision = execution.revision
  <2>1. execution.open /\ calls[c].authorized = execution.revision
    BY <1>1 DEF IInv, Authorized
  <2>2. Step(c)
    BY <1>1, OwnStep DEF Active, At
  <2>3. Dispatch(c)
    BY <1>1, <2>2 DEF Step, At, Load, Refuse, Replay, Enter, PrepareLoad, PrepareSave,
       AllowInput, DenyInput, Recheck, AllowInputAgain, Commit, Send, FailProvider,
       Answer, ReviewOutput, AllowOutput, DenyOutput, Observe, Release, Released,
       Withdraw, Deliver
  <2>4. ~End(c)
    BY <1>1, IdleType DEF End, PC, IInv, TypeOK
  <2>5. record' = RecordOf(c, "dispatched", execution.revision)
    BY <2>3, <2>4 DEF Dispatch
  <2> QED BY <2>1, <2>5 DEF RecordOf
<1>2. IInv /\ [Next]_vars =>
        [\A c \in Call : At(c, "dispatch") /\ calls'[c].pc = "sending" =>
           /\ execution.open
           /\ calls[c].authorized = execution.revision
           /\ record'.revision = execution.revision]_vars
  BY <1>1
<1> QED BY <1>2, Invariance, PTL DEF Spec, DispatchIsAuthorized

(* However many calls overlap: an answer is released only at the revision its   *)
(* review covered, in an open execution, by a call that nothing blocks.         *)
THEOREM ReleaseAuthorized == Spec => ReleaseIsAuthorized
<1>1. ASSUME IInv, [Next]_vars, NEW c \in Call,
             At(c, "release"), calls'[c].pc = "releasing"
      PROVE  /\ execution.open
             /\ calls[c].authorized = execution.revision
             /\ ~Blocked(c)
  <2>1. calls[c].authorized = calls[c].seen
    BY <1>1 DEF IInv, Authorized, At
  <2>2. Step(c)
    BY <1>1, OwnStep DEF Active, At
  <2>3. Release(c)
    BY <1>1, <2>2 DEF Step, At, Load, Refuse, Replay, Enter, PrepareLoad, PrepareSave,
       AllowInput, DenyInput, Recheck, AllowInputAgain, Commit, Dispatch, Send,
       FailProvider, Answer, ReviewOutput, AllowOutput, DenyOutput, Observe, Released,
       Withdraw, Deliver
  <2>4. calls' # [calls EXCEPT ![c].pc = "output"] /\ calls' # [calls EXCEPT ![c].pc = "withdraw"]
    BY <1>1 DEF IInv, TypeOK, Local
  <2>5. ~End(c)
    BY <1>1, IdleType DEF End, PC, IInv, TypeOK
  <2> QED BY <2>1, <2>3, <2>4, <2>5 DEF Release
<1>2. IInv /\ [Next]_vars =>
        [\A c \in Call : At(c, "release") /\ calls'[c].pc = "releasing" =>
           /\ execution.open
           /\ calls[c].authorized = execution.revision
           /\ ~Blocked(c)]_vars
  BY <1>1
<1> QED BY <1>2, Invariance, PTL DEF Spec, ReleaseIsAuthorized

(* Nothing passes the gateway, in either direction, on an authorization that    *)
(* the classification of the execution has outgrown.                            *)
THEOREM AuthorizedPassage == Spec => PassesAsAuthorized
  BY DispatchAuthorized, ReleaseAuthorized, PTL DEF PassesAsAuthorized

(************************* One attempt after another *************************)

(* Attempts do not overlap. *)
Alone == \A c, d \in Call : Active(c) /\ Active(d) => c = d

(* The journal is in one of these phases, for the request of this call. *)
Holds(c, phases) ==
  /\ record # NoRecord
  /\ record.phase \in phases
  /\ record.request = calls[c].request

(* What a lone call knows of the journal at each of its steps. *)
Journalled(c) ==
  /\ calls[c].pc \in {"decide", "save"} => calls[c].loaded = record
  /\ calls[c].pc \in {"prepare", "save"} => record = NoRecord \/ Holds(c, {"prepared"})
  /\ calls[c].pc \in {"input", "provider", "reauthorize", "commit", "dispatch"} =>
       Holds(c, {"prepared"})
  /\ At(c, "sending") => Holds(c, {"dispatched"}) /\ sent = {}
  /\ At(c, "answering") => Holds(c, {"dispatched"}) /\ sent # {}
  /\ calls[c].pc \in {"output", "authorize", "observe", "release"} =>
       Holds(c, {"output-pending"})
  /\ calls[c].pc \in {"releasing", "deliver"} => Holds(c, {"released"})
  /\ At(c, "withdraw") => Holds(c, {"output-pending", "released"})
  /\ calls[c].pc \notin {"new", "load", "decide", "done"} => delivered = {}

(* What the journal says of the past: nothing has been sent while it is empty   *)
(* or prepared, and what was delivered is what it holds.                        *)
History ==
  /\ sent # {} => record # NoRecord /\ record.phase # "prepared"
  /\ \A c, d \in sent : c = d
  /\ DeliveredIsReleased

SequentialInv == Alone /\ (\A c \in Call : Journalled(c)) /\ History

(* Only the call that moves has anything to show, for the others do not run. *)
LEMMA AloneInv ==
  ASSUME SequentialInv, NEW c \in Call,
         Active(c) \/ \A d \in Call : ~Active(d),
         \A d \in Call \ {c} : calls'[d] = calls[d],
         Journalled(c)', History'
  PROVE  SequentialInv'
<1>1. \A d \in Call \ {c} : calls[d].pc \in {"new", "done"}
  BY DEF SequentialInv, Alone, Active
<1>2. \A d \in Call \ {c} : calls'[d].pc \in {"new", "done"}
  BY <1>1
<1>3. Alone'
  BY <1>2 DEF Alone, Active
<1>4. ASSUME NEW d \in Call PROVE Journalled(d)'
  <2>1. CASE d = c
    BY <2>1
  <2>2. CASE d # c
    <3>1. calls'[d].pc \in {"new", "done"}
      BY <1>2, <2>2
    <3> QED BY <3>1 DEF Journalled, At
  <2> QED BY <2>1, <2>2
<1> QED BY <1>3, <1>4 DEF SequentialInv

(* The abstract operation sees the phase, how many requests left and whether an *)
(* answer arrived.                                                              *)
LEMMA SendsAre ==
  /\ Cardinality({}) = 0
  /\ \A c \in Call : Cardinality({c}) = 1
BY FS_EmptySet, FS_Singleton

Simulated == [Operation!Next]_(Operation!operationVars)

LEMMA StutterSim ==
  ASSUME UNCHANGED <<record, sent, delivered>>
  PROVE  Simulated
BY DEF Simulated, Operation!operationVars

LEMMA AdvanceSim ==
  ASSUME NEW c \in Call, NEW phase \in Phase, NEW revision \in 0 .. MaxRevision,
         RecordOf(c, phase, revision) \in Record,
         record' = RecordOf(c, phase, revision),
         UNCHANGED <<sent, delivered>>,
         \/ record = NoRecord /\ phase = "prepared"
         \/ record # NoRecord /\ record.phase = "prepared" /\ phase = "dispatched"
         \/ record # NoRecord /\ record.phase = "dispatched" /\ phase = "output-pending"
              /\ Cardinality(sent) = 1
         \/ record # NoRecord /\ record.phase = "output-pending" /\ phase = "released"
         \/ record # NoRecord /\ record.phase \in {"prepared", "output-pending"}
              /\ phase = "denied"
         \/ record # NoRecord /\ record.phase \in {"dispatched", "output-pending", "released"}
              /\ phase = "failed" /\ delivered = {}
  PROVE  Simulated
<1>1. record' # NoRecord /\ record'.phase = phase
  BY GatewayAssumption DEF RecordOf
<1> QED BY <1>1 DEF Simulated, Operation!Next, Operation!Advance, Operation!Prepare,
       Operation!Dispatch, Operation!Hold, Operation!Release, Operation!Deny,
       Operation!Fail

(* A step that touches neither the journal nor what left or arrived. *)
LEMMA QuietInv ==
  ASSUME SequentialInv, NEW c \in Call,
         Active(c) \/ \A d \in Call : ~Active(d),
         \A d \in Call \ {c} : calls'[d] = calls[d],
         UNCHANGED <<record, sent, delivered>>,
         Journalled(c)'
  PROVE  SequentialInv' /\ Simulated
<1>1. History'
  BY DEF SequentialInv, History, DeliveredIsReleased
<1> QED BY <1>1, AloneInv, StutterSim

(* A call that is over asks nothing of the journal. *)
LEMMA OverInv ==
  ASSUME IInv, SequentialInv, NEW c \in Call, Active(c), End(c), History'
  PROVE  SequentialInv'
<1>1. calls'[c].pc = "done" /\ \A d \in Call \ {c} : calls'[d] = calls[d]
  BY IdleType DEF End, PC, IInv, TypeOK
<1>2. Journalled(c)'
  BY <1>1 DEF Journalled, At
<1> QED BY <1>1, <1>2, AloneInv

LEMMA OverQuietInv ==
  ASSUME IInv, SequentialInv, NEW c \in Call, Active(c), End(c),
         UNCHANGED <<record, sent, delivered>>
  PROVE  SequentialInv' /\ Simulated
<1>1. History'
  BY DEF SequentialInv, History, DeliveredIsReleased
<1> QED BY <1>1, OverInv, StutterSim

LEMMA AdmissionSeq ==
  ASSUME ~Overlapping, IInv, SequentialInv, NEW c \in Call, NEW q \in Request,
         Start(c, q) \/ Load(c) \/ Refuse(c) \/ Replay(c) \/ Enter(c)
  PROVE  SequentialInv' /\ Simulated
<1>1. calls \in [Call -> Local] /\ calls[c] \in Local
  BY CallFacts
<1>2. CASE Start(c, q)
  <2>1. /\ \A d \in Call : ~Active(d)
        /\ \A d \in Call \ {c} : calls'[d] = calls[d]
        /\ calls'[c].pc = "load"
        /\ UNCHANGED <<record, sent, delivered>>
    BY <1>1, <1>2 DEF Start, Local
  <2>2. Journalled(c)'
    BY <2>1 DEF Journalled, At
  <2> QED BY <2>1, <2>2, QuietInv
<1>3. CASE Load(c)
  <2>1. /\ Active(c)
        /\ \A d \in Call \ {c} : calls'[d] = calls[d]
        /\ calls'[c].pc = "decide" /\ calls'[c].loaded = record
        /\ UNCHANGED <<record, sent, delivered>>
    BY <1>1, <1>3 DEF Load, Local, Active, At
  <2>2. Journalled(c)'
    BY <2>1 DEF Journalled, At
  <2> QED BY <2>1, <2>2, QuietInv
<1>4. CASE Refuse(c)
  <2>1. Active(c) /\ End(c) /\ UNCHANGED <<record, sent, delivered>>
    BY <1>4 DEF Refuse, Active, At
  <2> QED BY <2>1, OverQuietInv
<1>5. CASE Replay(c)
  <2>1. calls[c].pc = "decide" /\ Active(c) /\ End(c)
    BY <1>5 DEF Replay, At, Active
  <2>2. Holds(c, {"released"})
    BY <1>5, <2>1 DEF Replay, Conflicts, SequentialInv, Journalled, Holds
  <2>3. delivered' = delivered \cup {calls[c].request} /\ UNCHANGED <<record, sent>>
    BY <1>5 DEF Replay
  <2>4. History'
    BY <2>2, <2>3 DEF SequentialInv, History, DeliveredIsReleased, Holds
  <2>5. Simulated
    BY <2>2, <2>3 DEF Holds, Simulated, Operation!Next, Operation!Deliver
  <2> QED BY <2>1, <2>4, <2>5, OverInv
<1>6. CASE Enter(c)
  <2>1. /\ Active(c)
        /\ calls[c].pc = "decide"
        /\ calls[c].loaded = record
    BY <1>6 DEF Enter, Active, At, SequentialInv, Journalled
  <2>2. /\ \A d \in Call \ {c} : calls'[d] = calls[d]
        /\ calls'[c].pc = "prepare" /\ calls'[c].request = calls[c].request
        /\ UNCHANGED <<sent, delivered>>
    BY <1>1, <1>6 DEF Enter, Local
  <2>3. record = NoRecord \/ Holds(c, {"prepared"})
    BY <1>6, <2>1 DEF Enter, Conflicts, Holds
  <2>4. delivered = {}
    BY <2>3 DEF Holds, SequentialInv, History, DeliveredIsReleased
  <2>5. CASE record = NoRecord
    <3>1. record' = NoRecord
      BY <1>6, <2>1, <2>5 DEF Enter, PreparedElsewhere
    <3>2. Journalled(c)'
      BY <2>2, <2>4, <3>1 DEF Journalled, At
    <3> QED BY <2>1, <2>2, <2>5, <3>1, <3>2, QuietInv
  <2>6. CASE Holds(c, {"prepared"})
    <3>1. record \in Record /\ current \in Registration
      BY <1>6, <2>6 DEF Holds, IInv, TypeOK, Enter
    <3>2. /\ record' \in Record
          /\ record'.phase = record.phase /\ record'.request = record.request
      BY <1>6, <2>1, <3>1 DEF Enter, Record
    <3>3. record' # NoRecord
      BY <3>2, GatewayAssumption
    <3>4. Journalled(c)'
      BY <2>2, <2>4, <2>6, <3>2, <3>3 DEF Journalled, At, Holds
    <3>5. History'
      BY <2>2, <2>6, <3>2, <3>3 DEF SequentialInv, History, DeliveredIsReleased, Holds
    <3>6. Simulated
      BY <2>2, <2>6, <3>2, <3>3 DEF Holds, Simulated, Operation!operationVars
    <3> QED BY <2>1, <2>2, <3>4, <3>5, <3>6, AloneInv
  <2> QED BY <2>3, <2>5, <2>6
<1> QED BY <1>2, <1>3, <1>4, <1>5, <1>6

(* A record of this call says what it was made with. *)
LEMMA RecordIs ==
  ASSUME IInv, NEW c \in Call, calls[c].pc \notin {"new", "load", "decide", "done"},
         NEW phase \in Phase, NEW revision \in 0 .. MaxRevision
  PROVE  /\ RecordOf(c, phase, revision) \in Record
         /\ RecordOf(c, phase, revision) # NoRecord
         /\ RecordOf(c, phase, revision).phase = phase
         /\ RecordOf(c, phase, revision).request = calls[c].request
<1>1. RecordOf(c, phase, revision) \in Record
  BY CallFacts DEF Active
<1> QED BY <1>1, GatewayAssumption DEF RecordOf

(* A call that ends with a record in a terminal phase. *)
LEMMA OverRecordInv ==
  ASSUME IInv, SequentialInv, NEW c \in Call, End(c),
         calls[c].pc \notin {"new", "load", "decide", "done"},
         NEW phase \in {"denied", "failed"},
         record' = RecordOf(c, phase, 0),
         UNCHANGED <<sent, delivered>>,
         \/ Holds(c, {"prepared", "output-pending"}) /\ phase = "denied"
         \/ Holds(c, {"dispatched", "output-pending", "released"}) /\ phase = "failed"
  PROVE  SequentialInv' /\ Simulated
<1>1. 0 \in 0 .. MaxRevision /\ phase \in Phase
  BY GatewayAssumption DEF Phase
<1>2. record' # NoRecord /\ record'.phase = phase /\ record' \in Record
  BY <1>1, RecordIs
<1>3. delivered = {}
  BY DEF SequentialInv, Journalled
<1>4. History'
  BY <1>2, <1>3 DEF SequentialInv, History, DeliveredIsReleased
<1>5. Active(c)
  BY DEF Active
<1>6. SequentialInv'
  BY <1>4, <1>5, OverInv
<1>7. RecordOf(c, phase, 0) \in Record
  BY <1>2
<1>8. Simulated
  BY <1>1, <1>3, <1>7, AdvanceSim DEF Holds
<1> QED BY <1>6, <1>8

(* The steps that read, scan and authorize, and those that take or give back the *)
(* lock, leave the journal as it is.                                            *)
LEMMA ReviewSeq ==
  ASSUME IInv, SequentialInv, NEW c \in Call,
         PrepareLoad(c) \/ AllowInput(c) \/ Recheck(c) \/ AllowInputAgain(c) \/ Commit(c) \/ ReviewOutput(c) \/ AllowOutput(c) \/ Observe(c)
  PROVE  SequentialInv' /\ Simulated
<1>1. calls \in [Call -> Local] /\ calls[c] \in Local
  BY CallFacts
<1>2. CASE PrepareLoad(c)
  <2>1. calls[c].pc = "prepare" /\ Active(c)
    BY <1>2 DEF PrepareLoad, At, Active
  <2>2. UNCHANGED <<record, sent, delivered>>
    BY <1>2 DEF PrepareLoad
  <2>3. /\ \A d \in Call \ {c} : calls'[d] = calls[d]
        /\ calls'[c].pc = "save" /\ calls'[c].request = calls[c].request
        /\ calls'[c].loaded = record
    BY <1>1, <1>2, <2>1 DEF PrepareLoad, Local
  <2>4. Journalled(c)'
    BY <2>1, <2>2, <2>3 DEF SequentialInv, Journalled, At, Holds
  <2> QED BY <2>1, <2>2, <2>3, <2>4, QuietInv
<1>3. CASE AllowInput(c)
  <2>1. calls[c].pc = "input" /\ Active(c)
    BY <1>3 DEF AllowInput, At, Active
  <2>2. UNCHANGED <<record, sent, delivered>>
    BY <1>3 DEF AllowInput
  <2>3. /\ \A d \in Call \ {c} : calls'[d] = calls[d]
        /\ calls'[c].pc = "provider" /\ calls'[c].request = calls[c].request
    BY <1>1, <1>3, <2>1 DEF AllowInput, Local
  <2>4. Journalled(c)'
    BY <2>1, <2>2, <2>3 DEF SequentialInv, Journalled, At, Holds
  <2> QED BY <2>1, <2>2, <2>3, <2>4, QuietInv
<1>4. CASE Recheck(c)
  <2>1. calls[c].pc = "provider" /\ Active(c)
    BY <1>4 DEF Recheck, At, Active
  <2>2. UNCHANGED <<record, sent, delivered>>
    BY <1>4 DEF Recheck
  <2>3. CASE End(c)
    BY <2>1, <2>2, <2>3, OverQuietInv
  <2>4. CASE ~End(c)
    <3>1. /\ \A d \in Call \ {c} : calls'[d] = calls[d]
          /\ calls'[c].pc \in {"commit", "reauthorize"} /\ calls'[c].request = calls[c].request
      BY <1>1, <1>4, <2>1, <2>4 DEF Recheck, Local
    <3>2. Journalled(c)'
      BY <2>1, <2>2, <3>1 DEF SequentialInv, Journalled, At, Holds
    <3> QED BY <2>1, <2>2, <3>1, <3>2, QuietInv
  <2> QED BY <2>3, <2>4
<1>5. CASE AllowInputAgain(c)
  <2>1. calls[c].pc = "reauthorize" /\ Active(c)
    BY <1>5 DEF AllowInputAgain, At, Active
  <2>2. UNCHANGED <<record, sent, delivered>>
    BY <1>5 DEF AllowInputAgain
  <2>3. /\ \A d \in Call \ {c} : calls'[d] = calls[d]
        /\ calls'[c].pc = "commit" /\ calls'[c].request = calls[c].request
    BY <1>1, <1>5, <2>1 DEF AllowInputAgain, Local
  <2>4. Journalled(c)'
    BY <2>1, <2>2, <2>3 DEF SequentialInv, Journalled, At, Holds
  <2> QED BY <2>1, <2>2, <2>3, <2>4, QuietInv
<1>6. CASE Commit(c)
  <2>1. calls[c].pc = "commit" /\ Active(c)
    BY <1>6 DEF Commit, At, Active
  <2>2. UNCHANGED <<record, sent, delivered>>
    BY <1>6 DEF Commit
  <2>3. CASE End(c)
    BY <2>1, <2>2, <2>3, OverQuietInv
  <2>4. CASE ~End(c)
    <3>1. /\ \A d \in Call \ {c} : calls'[d] = calls[d]
          /\ calls'[c].pc \in {"provider", "dispatch"} /\ calls'[c].request = calls[c].request
      BY <1>1, <1>6, <2>1, <2>4 DEF Commit, Local
    <3>2. Journalled(c)'
      BY <2>1, <2>2, <3>1 DEF SequentialInv, Journalled, At, Holds
    <3> QED BY <2>1, <2>2, <3>1, <3>2, QuietInv
  <2> QED BY <2>3, <2>4
<1>7. CASE ReviewOutput(c)
  <2>1. calls[c].pc = "output" /\ Active(c)
    BY <1>7 DEF ReviewOutput, At, Active
  <2>2. UNCHANGED <<record, sent, delivered>>
    BY <1>7 DEF ReviewOutput
  <2>3. CASE End(c)
    BY <2>1, <2>2, <2>3, OverQuietInv
  <2>4. CASE ~End(c)
    <3>1. /\ \A d \in Call \ {c} : calls'[d] = calls[d]
          /\ calls'[c].pc = "authorize" /\ calls'[c].request = calls[c].request
      BY <1>1, <1>7, <2>1, <2>4 DEF ReviewOutput, Local
    <3>2. Journalled(c)'
      BY <2>1, <2>2, <3>1 DEF SequentialInv, Journalled, At, Holds
    <3> QED BY <2>1, <2>2, <3>1, <3>2, QuietInv
  <2> QED BY <2>3, <2>4
<1>8. CASE AllowOutput(c)
  <2>1. calls[c].pc = "authorize" /\ Active(c)
    BY <1>8 DEF AllowOutput, At, Active
  <2>2. UNCHANGED <<record, sent, delivered>>
    BY <1>8 DEF AllowOutput
  <2>3. /\ \A d \in Call \ {c} : calls'[d] = calls[d]
        /\ calls'[c].pc = "observe" /\ calls'[c].request = calls[c].request
    BY <1>1, <1>8, <2>1 DEF AllowOutput, Local
  <2>4. Journalled(c)'
    BY <2>1, <2>2, <2>3 DEF SequentialInv, Journalled, At, Holds
  <2> QED BY <2>1, <2>2, <2>3, <2>4, QuietInv
<1>9. CASE Observe(c)
  <2>1. calls[c].pc = "observe" /\ Active(c)
    BY <1>9 DEF Observe, At, Active
  <2>2. UNCHANGED <<record, sent, delivered>>
    BY <1>9 DEF Observe
  <2>3. CASE End(c)
    BY <2>1, <2>2, <2>3, OverQuietInv
  <2>4. CASE ~End(c)
    <3>1. /\ \A d \in Call \ {c} : calls'[d] = calls[d]
          /\ calls'[c].pc \in {"release", "authorize"} /\ calls'[c].request = calls[c].request
      BY <1>1, <1>9, <2>1, <2>4 DEF Observe, Local
    <3>2. Journalled(c)'
      BY <2>1, <2>2, <3>1 DEF SequentialInv, Journalled, At, Holds
    <3> QED BY <2>1, <2>2, <3>1, <3>2, QuietInv
  <2> QED BY <2>3, <2>4
<1> QED BY <1>2, <1>3, <1>4, <1>5, <1>6, <1>7, <1>8, <1>9

(* The journal moves with the call: prepared, dispatched, sent, answered.       *)
LEMMA DispatchSeq ==
  ASSUME IInv, SequentialInv, NEW c \in Call,
         PrepareSave(c) \/ DenyInput(c) \/ Dispatch(c) \/ Send(c) \/ FailProvider(c)
           \/ Answer(c)
  PROVE  SequentialInv' /\ Simulated
<1>1. calls \in [Call -> Local] /\ calls[c] \in Local
  BY CallFacts
<1>2. execution.revision \in 0 .. MaxRevision /\ 0 \in 0 .. MaxRevision
  BY CallFacts, GatewayAssumption
<1>3. CASE PrepareSave(c)
  <2>1. calls[c].pc = "save" /\ Active(c)
    BY <1>3 DEF PrepareSave, At, Active
  <2>2. /\ calls[c].loaded = record /\ delivered = {}
        /\ record = NoRecord \/ Holds(c, {"prepared"})
    BY <2>1 DEF SequentialInv, Journalled
  <2>3. /\ \A d \in Call \ {c} : calls'[d] = calls[d]
        /\ calls'[c].pc = "input" /\ calls'[c].request = calls[c].request
        /\ UNCHANGED <<sent, delivered>>
    BY <1>1, <1>3, <2>2 DEF PrepareSave, Local, Holds
  <2>4. CASE record = NoRecord
    <3>1. record' = RecordOf(c, "prepared", 0)
      BY <1>3, <2>2, <2>4 DEF PrepareSave
    <3>2. /\ record' # NoRecord /\ record'.phase = "prepared" /\ record' \in Record
          /\ record'.request = calls[c].request
      BY <1>2, <2>1, <3>1, RecordIs DEF Phase
    <3>3. sent = {}
      BY <2>4 DEF SequentialInv, History
    <3>4. Journalled(c)'
      BY <2>2, <2>3, <3>2 DEF Journalled, At, Holds
    <3>5. History'
      BY <2>2, <2>3, <3>2, <3>3 DEF SequentialInv, History, DeliveredIsReleased
    <3>6. RecordOf(c, "prepared", 0) \in Record /\ "prepared" \in Phase
      BY <3>1, <3>2 DEF Phase
    <3>7. Simulated
      BY <1>2, <2>3, <2>4, <3>1, <3>6, AdvanceSim
    <3> QED BY <2>1, <2>3, <3>4, <3>5, <3>7, AloneInv
  <2>5. CASE Holds(c, {"prepared"})
    <3>1. record' = record
      BY <1>3, <2>2, <2>5 DEF PrepareSave, Holds
    <3>2. Journalled(c)'
      BY <2>2, <2>3, <2>5, <3>1 DEF Journalled, At, Holds
    <3> QED BY <2>1, <2>3, <3>1, <3>2, QuietInv
  <2> QED BY <2>2, <2>4, <2>5
<1>4. CASE DenyInput(c)
  <2>1. calls[c].pc \in {"input", "reauthorize"}
    BY <1>4 DEF DenyInput, At
  <2>2. Holds(c, {"prepared", "output-pending"})
    BY <2>1 DEF SequentialInv, Journalled, Holds
  <2>3. /\ End(c) /\ record' = RecordOf(c, "denied", 0)
        /\ UNCHANGED <<sent, delivered>>
    BY <1>4 DEF DenyInput
  <2> QED BY <2>1, <2>2, <2>3, OverRecordInv
<1>5. CASE Dispatch(c)
  <2>1. calls[c].pc = "dispatch" /\ Active(c)
    BY <1>5 DEF Dispatch, At, Active
  <2>2. Holds(c, {"prepared"}) /\ sent = {} /\ delivered = {}
    BY <2>1 DEF SequentialInv, Journalled, History, Holds
  <2>3. UNCHANGED <<sent, delivered>>
    BY <1>5 DEF Dispatch
  <2>4. CASE StillPrepared(c)
    <3>1. /\ \A d \in Call \ {c} : calls'[d] = calls[d]
          /\ calls'[c].pc = "sending" /\ calls'[c].request = calls[c].request
          /\ record' = RecordOf(c, "dispatched", execution.revision)
      BY <1>1, <1>5, <2>4 DEF Dispatch, Local
    <3>2. /\ record' # NoRecord /\ record'.phase = "dispatched" /\ record' \in Record
          /\ record'.request = calls[c].request
      BY <1>2, <2>1, <3>1, RecordIs DEF Phase
    <3>3. Journalled(c)'
      BY <2>2, <2>3, <3>1, <3>2 DEF Journalled, At, Holds
    <3>4. History'
      BY <2>2, <2>3, <3>2 DEF SequentialInv, History, DeliveredIsReleased
    <3>5. RecordOf(c, "dispatched", execution.revision) \in Record /\ "dispatched" \in Phase
      BY <3>1, <3>2 DEF Phase
    <3>6. Simulated
      BY <1>2, <2>2, <2>3, <3>1, <3>5, AdvanceSim DEF Holds
    <3> QED BY <2>1, <3>1, <3>3, <3>4, <3>6, AloneInv
  <2>5. CASE ~StillPrepared(c)
    BY <1>5, <2>1, <2>5, OverQuietInv DEF Dispatch
  <2> QED BY <2>4, <2>5
<1>6. CASE Send(c)
  <2>1. calls[c].pc = "sending" /\ Active(c)
    BY <1>6 DEF Send, At, Active
  <2>2. Holds(c, {"dispatched"}) /\ sent = {} /\ delivered = {}
    BY <2>1 DEF SequentialInv, Journalled, At
  <2>3. /\ \A d \in Call \ {c} : calls'[d] = calls[d]
        /\ calls'[c].pc = "answering" /\ calls'[c].request = calls[c].request
        /\ sent' = {c} /\ UNCHANGED <<record, delivered>>
    BY <1>1, <1>6, <2>2 DEF Send, Local
  <2>4. Journalled(c)'
    BY <2>2, <2>3 DEF Journalled, At, Holds
  <2>5. History'
    BY <2>2, <2>3 DEF SequentialInv, History, DeliveredIsReleased, Holds
  <2>6. Cardinality(sent) = 0 /\ Cardinality(sent') = 1
    BY <2>2, <2>3, SendsAre
  <2>7. Simulated
    BY <2>2, <2>3, <2>6 DEF Simulated, Operation!Next, Operation!Send, Holds
  <2> QED BY <2>1, <2>3, <2>4, <2>5, <2>7, AloneInv
<1>7. CASE FailProvider(c)
  <2>1. calls[c].pc \in {"sending", "answering"}
    BY <1>7 DEF FailProvider, At
  <2>2. Holds(c, {"dispatched", "output-pending", "released"})
    BY <2>1 DEF SequentialInv, Journalled, Holds, At
  <2>3. /\ End(c) /\ record' = RecordOf(c, "failed", 0)
        /\ UNCHANGED <<sent, delivered>>
    BY <1>7 DEF FailProvider
  <2> QED BY <2>1, <2>2, <2>3, OverRecordInv
<1>8. CASE Answer(c)
  <2>1. calls[c].pc = "answering" /\ Active(c)
    BY <1>8 DEF Answer, At, Active
  <2>2. Holds(c, {"dispatched"}) /\ sent # {} /\ delivered = {}
    BY <2>1 DEF SequentialInv, Journalled, At
  <2>3. UNCHANGED <<sent, delivered>>
    BY <1>8 DEF Answer
  <2>4. CASE Blocked(c)
    <3>1. End(c) /\ record' = RecordOf(c, "failed", 0)
      BY <1>8, <2>4 DEF Answer
    <3>2. Holds(c, {"dispatched", "output-pending", "released"})
      BY <2>2 DEF Holds
    <3> QED BY <2>1, <2>3, <3>1, <3>2, OverRecordInv
  <2>5. CASE ~Blocked(c)
    <3>1. /\ \A d \in Call \ {c} : calls'[d] = calls[d]
          /\ calls'[c].pc = "output" /\ calls'[c].request = calls[c].request
          /\ record' = RecordOf(c, "output-pending", calls[c].authorized)
      BY <1>1, <1>8, <2>5 DEF Answer, Local
    <3>2. calls[c].authorized \in 0 .. MaxRevision /\ "output-pending" \in Phase
      BY <1>1 DEF Local, Phase
    <3>3. /\ record' # NoRecord /\ record'.phase = "output-pending" /\ record' \in Record
          /\ record'.request = calls[c].request
      BY <2>1, <3>1, <3>2, RecordIs
    <3>4. Journalled(c)'
      BY <2>2, <2>3, <3>1, <3>3 DEF Journalled, At, Holds
    <3>5. History'
      BY <2>2, <2>3, <3>3 DEF SequentialInv, History, DeliveredIsReleased
    <3>6. PICK d \in Call : sent = {d}
      BY <2>2 DEF SequentialInv, History, IInv, TypeOK
    <3>7. Cardinality(sent) = 1
      BY <3>6, SendsAre
    <3>8. Simulated
      BY <2>2, <2>3, <3>1, <3>2, <3>3, <3>7, AdvanceSim DEF Holds
    <3> QED BY <2>1, <3>1, <3>4, <3>5, <3>8, AloneInv
  <2> QED BY <2>4, <2>5
<1> QED BY <1>3, <1>4, <1>5, <1>6, <1>7, <1>8

(* The end of a call: the output is denied, released, withdrawn or delivered.   *)
LEMMA ReleaseSeq ==
  ASSUME IInv, SequentialInv, NEW c \in Call,
         DenyOutput(c) \/ Release(c) \/ Released(c) \/ Withdraw(c) \/ Deliver(c)
  PROVE  SequentialInv' /\ Simulated
<1>1. calls \in [Call -> Local] /\ calls[c] \in Local
  BY CallFacts
<1>2. execution.revision \in 0 .. MaxRevision /\ 0 \in 0 .. MaxRevision
  BY CallFacts, GatewayAssumption
<1>3. CASE DenyOutput(c)
  <2>1. calls[c].pc = "authorize"
    BY <1>3 DEF DenyOutput, At
  <2>2. Holds(c, {"prepared", "output-pending"})
    BY <2>1 DEF SequentialInv, Journalled, Holds
  <2>3. /\ End(c) /\ record' = RecordOf(c, "denied", 0)
        /\ UNCHANGED <<sent, delivered>>
    BY <1>3 DEF DenyOutput
  <2> QED BY <2>1, <2>2, <2>3, OverRecordInv
<1>4. CASE Release(c)
  <2>1. calls[c].pc = "release" /\ Active(c)
    BY <1>4 DEF Release, At, Active
  <2>2. Holds(c, {"output-pending"}) /\ delivered = {}
    BY <2>1 DEF SequentialInv, Journalled
  <2>3. UNCHANGED <<sent, delivered>>
    BY <1>4 DEF Release
  <2>4. CASE End(c) /\ record' = record
    BY <2>1, <2>3, <2>4, OverQuietInv
  <2>5. CASE /\ record' = record
             /\ \E pc \in {"output", "withdraw"} : calls' = [calls EXCEPT ![c].pc = pc]
    <3>1. /\ \A d \in Call \ {c} : calls'[d] = calls[d]
          /\ calls'[c].pc \in {"output", "withdraw"}
          /\ calls'[c].request = calls[c].request
      BY <1>1, <2>5 DEF Local
    <3>2. Journalled(c)'
      BY <2>2, <2>3, <2>5, <3>1 DEF Journalled, At, Holds
    <3> QED BY <2>1, <2>3, <2>5, <3>1, <3>2, QuietInv
  <2>6. CASE /\ record' = RecordOf(c, "released", execution.revision)
             /\ calls' = [calls EXCEPT ![c].pc = "releasing"]
    <3>1. /\ \A d \in Call \ {c} : calls'[d] = calls[d]
          /\ calls'[c].pc = "releasing"
          /\ calls'[c].request = calls[c].request
      BY <1>1, <2>6 DEF Local
    <3>2. "released" \in Phase
      BY DEF Phase
    <3>3. /\ record' # NoRecord /\ record'.phase = "released" /\ record' \in Record
          /\ record'.request = calls[c].request
      BY <1>2, <2>1, <2>6, <3>2, RecordIs
    <3>4. Journalled(c)'
      BY <2>2, <2>3, <3>1, <3>3 DEF Journalled, At, Holds
    <3>5. History'
      BY <2>2, <2>3, <3>3 DEF SequentialInv, History, DeliveredIsReleased
    <3>6. Simulated
      BY <1>2, <2>2, <2>3, <2>6, <3>2, <3>3, AdvanceSim DEF Holds
    <3> QED BY <2>1, <3>1, <3>4, <3>5, <3>6, AloneInv
  <2> QED BY <1>4, <2>4, <2>5, <2>6 DEF Release
<1>5. CASE Released(c)
  <2>1. calls[c].pc = "releasing" /\ Active(c)
    BY <1>5 DEF Released, At, Active
  <2>2. Holds(c, {"released"}) /\ delivered = {}
    BY <2>1 DEF SequentialInv, Journalled
  <2>3. /\ \A d \in Call \ {c} : calls'[d] = calls[d]
        /\ calls'[c].pc \in {"withdraw", "deliver"}
        /\ calls'[c].request = calls[c].request
        /\ UNCHANGED <<record, sent, delivered>>
    BY <1>1, <1>5 DEF Released, Local
  <2>4. Journalled(c)'
    BY <2>2, <2>3 DEF Journalled, At, Holds
  <2> QED BY <2>1, <2>3, <2>4, QuietInv
<1>6. CASE Withdraw(c)
  <2>1. calls[c].pc \in {"withdraw", "deliver"}
    BY <1>6 DEF Withdraw, At
  <2>2. Holds(c, {"dispatched", "output-pending", "released"})
    BY <2>1 DEF SequentialInv, Journalled, Holds, At
  <2>3. /\ End(c) /\ record' = RecordOf(c, "failed", 0)
        /\ UNCHANGED <<sent, delivered>>
    BY <1>6 DEF Withdraw
  <2> QED BY <2>1, <2>2, <2>3, OverRecordInv
<1>7. CASE Deliver(c)
  <2>1. calls[c].pc = "deliver" /\ Active(c) /\ End(c)
    BY <1>7 DEF Deliver, At, Active
  <2>2. Holds(c, {"released"})
    BY <2>1 DEF SequentialInv, Journalled
  <2>3. delivered' = delivered \cup {calls[c].request} /\ UNCHANGED <<record, sent>>
    BY <1>7 DEF Deliver
  <2>4. History'
    BY <2>2, <2>3 DEF SequentialInv, History, DeliveredIsReleased, Holds
  <2>5. Simulated
    BY <2>2, <2>3 DEF Holds, Simulated, Operation!Next, Operation!Deliver
  <2> QED BY <2>1, <2>4, <2>5, OverInv
<1> QED BY <1>3, <1>4, <1>5, <1>6, <1>7

(* What happens around the call leaves the journal alone. *)
LEMMA SurroundingsSeq ==
  ASSUME IInv, SequentialInv, Surroundings
  PROVE  SequentialInv' /\ Simulated
<1>1. UNCHANGED <<record, sent, delivered>>
  BY DEF Surroundings, Abort, Abandon, Raise, CloseExecution, registerProvider,
     removeProvider, Restart
<1>2. Simulated
  BY <1>1, StutterSim
<1>3. History'
  BY <1>1 DEF SequentialInv, History, DeliveredIsReleased
<1>4. calls \in [Call -> Local]
  BY DEF IInv, TypeOK
<1>5. ASSUME NEW c \in Call, Abort(c) PROVE SequentialInv'
  <2>1. /\ Active(c)
        /\ \A d \in Call \ {c} : calls'[d] = calls[d]
        /\ calls'[c].pc = calls[c].pc
        /\ calls'[c].request = calls[c].request
        /\ calls'[c].loaded = calls[c].loaded
    BY <1>4, <1>5 DEF Abort, Local
  <2>2. Journalled(c)'
    BY <1>1, <2>1 DEF SequentialInv, Journalled, At, Holds
  <2> QED BY <1>3, <2>1, <2>2, AloneInv
<1>6. ASSUME NEW c \in Call, Abandon(c) PROVE SequentialInv'
  BY <1>1, <1>6, OverQuietInv DEF Abandon
<1>7. CASE UNCHANGED calls
  BY <1>1, <1>2, <1>3, <1>7 DEF SequentialInv, Alone, Journalled, Active, At, Holds
<1>8. CASE Restart
  <2>1. \A c \in Call : calls'[c].pc \in {"new", "done"}
    BY <1>8, RestartFacts
  <2>2. Alone' /\ \A c \in Call : Journalled(c)'
    BY <2>1 DEF Alone, Active, Journalled, At
  <2> QED BY <1>2, <1>3, <2>2 DEF SequentialInv
<1>9. SequentialInv'
  BY <1>5, <1>6, <1>7, <1>8 DEF Surroundings, Raise, CloseExecution, registerProvider,
     removeProvider
<1> QED BY <1>2, <1>9

LEMMA SequentialInit == Init => SequentialInv /\ Operation!Init
<1> SUFFICES ASSUME Init PROVE SequentialInv /\ Operation!Init
  OBVIOUS
<1>1. \A c \in Call : calls[c].pc = "new"
  BY IdleType DEF Init, PC
<1>2. record = NoRecord /\ sent = {} /\ delivered = {}
  BY DEF Init
<1>3. SequentialInv
  BY <1>1, <1>2 DEF SequentialInv, Alone, Active, Journalled, At, History,
     DeliveredIsReleased
<1>4. Operation!Init
  BY <1>2, SendsAre DEF Operation!Init
<1> QED BY <1>3, <1>4

LEMMA SequentialNext ==
  ASSUME ~Overlapping, IInv, SequentialInv, [Next]_vars
  PROVE  SequentialInv' /\ Simulated
<1>1. ASSUME NEW c \in Call, NEW q \in Request, Start(c, q)
      PROVE  SequentialInv' /\ Simulated
  BY <1>1, AdmissionSeq
<1>2. ASSUME NEW c \in Call, Step(c) PROVE SequentialInv' /\ Simulated
  <2>1. CASE Load(c) \/ Refuse(c) \/ Replay(c) \/ Enter(c)
    <3>1. calls[c].pc \in {"load", "decide"}
      BY <2>1 DEF Load, Refuse, Replay, Enter, At
    <3>2. calls[c].request \in Request
      BY <3>1 DEF IInv, Named, Active
    <3> QED BY <2>1, <3>2, AdmissionSeq
  <2>2. CASE PrepareLoad(c) \/ AllowInput(c) \/ Recheck(c) \/ AllowInputAgain(c)
             \/ Commit(c) \/ ReviewOutput(c) \/ AllowOutput(c) \/ Observe(c)
    BY <2>2, ReviewSeq
  <2>3. CASE PrepareSave(c) \/ DenyInput(c) \/ Dispatch(c) \/ Send(c) \/ FailProvider(c)
             \/ Answer(c)
    BY <2>3, DispatchSeq
  <2>4. CASE DenyOutput(c) \/ Release(c) \/ Released(c) \/ Withdraw(c) \/ Deliver(c)
    BY <2>4, ReleaseSeq
  <2> QED BY <1>2, <2>1, <2>2, <2>3, <2>4 DEF Step
<1>3. CASE Surroundings
  BY <1>3, SurroundingsSeq
<1>4. CASE UNCHANGED vars
  <2>1. UNCHANGED <<record, sent, delivered, calls>>
    BY <1>4 DEF vars
  <2> QED BY <2>1, StutterSim DEF SequentialInv, Alone, Journalled, Active, At, Holds,
         History, DeliveredIsReleased
<1> QED BY <1>1, <1>2, <1>3, <1>4 DEF Next

(* What the journal and the running attempt know of each other is an invariant  *)
(* as long as a caller retries one attempt at a time.                           *)
THEOREM SequentialInvariance ==
  ASSUME ~Overlapping
  PROVE  Spec => []SequentialInv
<1>1. Init => SequentialInv
  BY SequentialInit
<1>2. IInv /\ SequentialInv /\ [Next]_vars => SequentialInv'
  BY SequentialNext
<1> QED BY <1>1, <1>2, Invariance, PTL DEF Spec

(* As long as a caller retries one attempt at a time, over any number of        *)
(* retries and restarts the request of an operation key leaves at most once.    *)
THEOREM OneSend ==
  ASSUME ~Overlapping
  PROVE  Spec => []AtMostOneSend
<1>1. IInv /\ SequentialInv => AtMostOneSend
  <2> SUFFICES ASSUME IInv, SequentialInv PROVE Cardinality(sent) <= 1
    BY DEF AtMostOneSend
  <2>1. CASE sent = {}
    BY <2>1, SendsAre
  <2>2. CASE sent # {}
    <3>1. PICK c \in Call : sent = {c}
      BY <2>2 DEF SequentialInv, History, IInv, TypeOK
    <3> QED BY <3>1, SendsAre
  <2> QED BY <2>1, <2>2
<1> QED BY <1>1, Invariance, SequentialInvariance, PTL

(* Under the same condition, every answer a caller has got is the released      *)
(* answer in the journal, to that very request.                                 *)
THEOREM DeliveredReleased ==
  ASSUME ~Overlapping
  PROVE  Spec => []DeliveredIsReleased
<1>1. SequentialInv => DeliveredIsReleased
  BY DEF SequentialInv, History
<1> QED BY <1>1, SequentialInvariance, PTL

(* Under the same condition, an answer is handed over directly only while the   *)
(* provider that gave it is still registered and the journal holds it released. *)
THEOREM DeliveryDurable ==
  ASSUME ~Overlapping
  PROVE  Spec => DeliveryIsDurable
<1>1. ASSUME IInv, SequentialInv, [Next]_vars, NEW c \in Call,
             At(c, "deliver"), delivered' # delivered
      PROVE  /\ current = calls[c].registration
             /\ record.phase = "released"
  <2>1. record.phase = "released"
    BY <1>1 DEF SequentialInv, Journalled, Holds, At
  <2>2. PICK d \in Call : Replay(d) \/ Deliver(d)
    BY <1>1 DEF Next, Start, Step, Surroundings, vars, Load, Refuse, Enter, PrepareLoad,
       PrepareSave, AllowInput, DenyInput, Recheck, AllowInputAgain, Commit, Dispatch,
       Send, FailProvider, Answer, ReviewOutput, AllowOutput, DenyOutput, Observe,
       Release, Released, Withdraw, Abort, Abandon, Raise, CloseExecution,
       registerProvider, removeProvider, Restart
  <2>3. d = c
    BY <1>1, <2>2 DEF SequentialInv, Alone, Active, At, Replay, Deliver
  <2>4. Deliver(c)
    BY <1>1, <2>2, <2>3 DEF Replay, At
  <2> QED BY <2>1, <2>4 DEF Deliver, Blocked
<1>2. IInv /\ SequentialInv /\ [Next]_vars =>
        [\A c \in Call : At(c, "deliver") /\ delivered' # delivered =>
           /\ current = calls[c].registration
           /\ record.phase = "released"]_vars
  BY <1>1
<1> QED BY <1>2, Invariance, SequentialInvariance, PTL DEF Spec, DeliveryIsDurable

(* Under the same condition, the gateway implements one durable operation: the  *)
(* journal only moves forward, the request leaves once and only when the        *)
(* journal says so, and a delivered answer is never withdrawn.                  *)
THEOREM Implementation ==
  ASSUME ~Overlapping
  PROVE  Spec => ImplementsOperation
<1>1. Init => Operation!Init
  BY SequentialInit
<1>2. IInv /\ SequentialInv /\ [Next]_vars => [Operation!Next]_(Operation!operationVars)
  BY SequentialNext DEF Simulated
<1> QED BY <1>1, <1>2, Invariance, SequentialInvariance, PTL
       DEF Spec, ImplementsOperation, Operation!Spec
=============================================================================
