---------------------------- MODULE LoopRunProofs ----------------------------
(* Theorems about one run of LoopManager, for any number of turns, of tool      *)
(* calls and of lists under way.                                                *)
EXTENDS LoopRun, SequenceTheorems, TLAPS

(************************************ Types ***********************************)

LEMMA UpdateType ==
  ASSUME TypeOK, NEW new \in Live \cup Terminal, Update(new)
  PROVE  /\ status' \in Live \cup Terminal
         /\ policy' \in {"none", "registered", "disposed"}
BY DEF TypeOK, Update, Live, Terminal

LEMMA FollowsType ==
  ASSUME TypeOK, pc \in SafePoint, NEW next \in Follows(pc)
  PROVE  next[1] \in PC /\ next[2] \in 0 .. MaxCalls
BY RunAssumption DEF TypeOK, Follows, SafePoint, PC

(* A list is published, or one is delivered. *)
LEMMA PublishedType ==
  ASSUME TypeOK, pending' \in SUBSET Interaction,
         \/ published' = published
         \/ published' = Append(published, pending')
         \/ published # <<>> /\ published' = Tail(published)
  PROVE  published' \in Seq(SUBSET Interaction)
BY AppendProperties, HeadTailProperties DEF TypeOK

(* Who is about to call a tool has a call to make. *)
CallsLeft == pc \in {"before_tool", "tool"} => calls # 0

LEMMA TypeStep == TypeOK /\ CallsLeft /\ [Next]_vars => TypeOK'
<1> SUFFICES ASSUME TypeOK, CallsLeft, [Next]_vars PROVE TypeOK'
  OBVIOUS
<1> USE DEF control, place, asked
<1>1. CASE Bind
  BY <1>1 DEF Bind, TypeOK, PC
<1>2. CASE RegisterPolicy
  BY <1>2 DEF RegisterPolicy, TypeOK, PC
<1>3. CASE PrepareRun
  BY <1>3 DEF PrepareRun, TypeOK, PC, SafePoint
<1>4. CASE Park
  BY <1>4, UpdateType DEF Park, TypeOK, Live
<1>5. CASE Pass
  <2>1. CASE aborted
    BY <1>5, <2>1, RunAssumption DEF Pass, TypeOK, PC
  <2>2. CASE ~aborted
    <3>1. PICK next \in Follows(pc) : pc' = next[1] /\ calls' = next[2]
      BY <1>5, <2>2 DEF Pass
    <3>2. pc' \in PC /\ calls' \in 0 .. MaxCalls
      BY <1>5, <3>1, FollowsType DEF Pass
    <3>3. status' \in Live \cup Terminal /\ policy' \in {"none", "registered", "disposed"}
      BY <1>5, <2>2, UpdateType DEF Pass, Live, TypeOK
    <3> QED BY <1>5, <3>2, <3>3 DEF Pass, TypeOK
  <2> QED BY <2>1, <2>2
<1>6. CASE ModelEnds
  BY <1>6 DEF ModelEnds, TypeOK, PC, SafePoint
<1>7. CASE ToolEnds
  <2>1. status' \in Live \cup Terminal /\ policy' \in {"none", "registered", "disposed"}
    BY <1>7, UpdateType DEF ToolEnds, Live, TypeOK
  <2>2. /\ pc' \in {"before_tool", "before_model", "catch"}
        /\ turn' = turn \/ (turn < MaxTurns /\ turn' = turn + 1)
        /\ calls' = 0 \/ calls' = calls - 1
    BY <1>7 DEF ToolEnds
  <2>3. calls \in 0 .. MaxCalls /\ calls # 0 /\ MaxCalls \in Nat
    BY <1>7, RunAssumption DEF ToolEnds, TypeOK, CallsLeft
  <2>4. calls' \in 0 .. MaxCalls
    BY <2>2, <2>3
  <2> QED BY <1>7, <2>1, <2>2, <2>4, RunAssumption DEF ToolEnds, TypeOK, PC, SafePoint
<1>8. CASE CloseCompleted
  BY <1>8 DEF CloseCompleted, Close, TypeOK, PC, Terminal
<1>9. CASE Complete
  BY <1>9, UpdateType DEF Complete, TypeOK, PC, Terminal
<1>10. CASE Catch
  BY <1>10, UpdateType DEF Catch, TypeOK, PC, Terminal
<1>11. CASE CloseCaught
  BY <1>11 DEF CloseCaught, Close, TypeOK, PC, Terminal
<1>12. CASE Ask
  <2>1. PICK kind \in {"policy", "approval", "question"} :
          /\ opened' = opened \cup {[kind |-> kind, turn |-> turn, call |-> calls]}
          /\ pending' = pending \cup {[kind |-> kind, turn |-> turn, call |-> calls]}
          /\ IF kind = "question" THEN UNCHANGED <<status, policy>> ELSE Update("waiting")
    BY <1>12 DEF Ask
  <2>2. [kind |-> kind, turn |-> turn, call |-> calls] \in Interaction
    BY DEF TypeOK, Interaction
  <2>3. opened' \in SUBSET Interaction /\ pending' \in SUBSET Interaction
    BY <2>1, <2>2 DEF TypeOK
  <2>4. status' \in Live \cup Terminal /\ policy' \in {"none", "registered", "disposed"}
    BY <2>1, UpdateType DEF Live, TypeOK
  <2>5. published' \in Seq(SUBSET Interaction)
    BY <1>12, <2>3, PublishedType DEF Ask
  <2> QED BY <1>12, <2>3, <2>4, <2>5 DEF Ask, TypeOK
<1>13. CASE Pause
  BY <1>13 DEF Pause, TypeOK
<1>14. CASE Resume
  BY <1>14 DEF Resume, Woken, TypeOK
<1>15. CASE Cancel
  <2>1. status' \in Live \cup Terminal /\ policy' \in {"none", "registered", "disposed"}
    BY <1>15, UpdateType DEF Cancel, Terminal
  <2>2. pending' \in SUBSET Interaction
    BY <1>15 DEF Cancel, Withdraw, TypeOK
  <2>3. published' \in Seq(SUBSET Interaction)
    BY <1>15, <2>2, PublishedType DEF Cancel, Withdraw
  <2> QED BY <1>15, <2>1, <2>2, <2>3 DEF Cancel, Woken, TypeOK
<1>16. CASE Respond
  <2>1. pending' \in SUBSET Interaction
    BY <1>16 DEF Respond, TypeOK
  <2>2. published' \in Seq(SUBSET Interaction)
    BY <1>16, <2>1, PublishedType DEF Respond
  <2> QED BY <1>16, <2>1, <2>2 DEF Respond, TypeOK
<1>17. CASE Others
  <2>1. published' \in Seq(SUBSET Interaction)
    BY <1>17, PublishedType DEF Others, TypeOK
  <2> QED BY <1>17, <2>1 DEF Others, TypeOK
<1>18. CASE Deliver
  <2>1. status' \in Live \cup Terminal /\ policy' \in {"none", "registered", "disposed"}
    BY <1>18, UpdateType DEF Deliver, Live, TypeOK
  <2>2. published' \in Seq(SUBSET Interaction)
    BY <1>18, PublishedType DEF Deliver, TypeOK
  <2> QED BY <1>18, <2>1, <2>2 DEF Deliver, TypeOK
<1>19. CASE UNCHANGED vars
  BY <1>19 DEF vars, TypeOK
<1> QED BY <1>1, <1>2, <1>3, <1>4, <1>5, <1>6, <1>7, <1>8, <1>9, <1>10, <1>11, <1>12, <1>13,
           <1>14, <1>15, <1>16, <1>17, <1>18, <1>19 DEF Next, Execute

LEMMA CallsStep == TypeOK /\ CallsLeft /\ [Next]_vars => CallsLeft'
<1> SUFFICES ASSUME TypeOK, CallsLeft, [Next]_vars PROVE CallsLeft'
  OBVIOUS
<1> USE DEF control, place, asked
<1>1. CASE Pass
  <2>1. CASE aborted
    BY <1>1, <2>1 DEF Pass, CallsLeft
  <2>2. CASE ~aborted
    <3>1. PICK next \in Follows(pc) : pc' = next[1] /\ calls' = next[2]
      BY <1>1, <2>2 DEF Pass
    <3>2. next[1] \in {"before_tool", "tool"} => next[2] # 0
      BY <1>1 DEF Pass, Follows, SafePoint, CallsLeft
    <3> QED BY <3>1, <3>2 DEF CallsLeft
  <2> QED BY <2>1, <2>2
<1>2. CASE ToolEnds
  <2>1. calls \in Nat /\ (pc' = "before_tool" => calls > 1 /\ calls' = calls - 1) /\ pc' # "tool"
    BY <1>2, RunAssumption DEF ToolEnds, TypeOK
  <2> QED BY <2>1 DEF CallsLeft
<1>3. CASE Bind \/ RegisterPolicy \/ PrepareRun \/ ModelEnds \/ CloseCompleted \/ Complete
           \/ Catch \/ CloseCaught
  BY <1>3 DEF Bind, RegisterPolicy, PrepareRun, ModelEnds, CloseCompleted, Complete, Catch,
              CloseCaught, CallsLeft
<1>4. CASE Park \/ Ask \/ Pause \/ Resume \/ Cancel \/ Respond \/ Others \/ Deliver
           \/ UNCHANGED vars
  BY <1>4 DEF Park, Ask, Pause, Resume, Cancel, Respond, Others, Deliver, vars, CallsLeft
<1> QED BY <1>1, <1>2, <1>3, <1>4 DEF Next, Execute

(********************************** The end ***********************************)

(* A run is cancelled in the step that aborts it, and any other run reaches a   *)
(* terminal state where #execute puts it there.                                 *)
EndInv ==
  /\ aborted => status = "cancelled"
  /\ status \in Terminal => policy # "registered"
  /\ status \in Terminal /\ ~aborted => pc \in {"closing_failed", "done"}
  /\ pc = "closing_failed" => status = "failed"
  /\ pc = "closing_cancelled" => status = "cancelled"
  /\ pc = "done" => status \in Terminal

(* How far the execution of the run has come. *)
ExecutionInv ==
  /\ pc = "bind" => execution = "none"
  /\ pc \in {"bound", "prepare", "model", "tool", "closing"} \cup SafePoint => execution = "open"
  /\ pc = "closed" => execution \in {"open", "completed"} /\ (owns => execution = "completed")
  /\ pc \in {"catch", "closing_cancelled", "closing_failed"} =>
       execution \in {"none", "open", "refused"}
  /\ pc = "done" =>
       /\ owns => execution # "open"
       /\ status # "cancelled" => execution \in {"none", "open", "refused", status}

IInv == TypeOK /\ CallsLeft /\ EndInv /\ ExecutionInv

LEMMA EndStep == IInv /\ [Next]_vars => EndInv' /\ ExecutionInv'
<1> SUFFICES ASSUME IInv, [Next]_vars PROVE EndInv' /\ ExecutionInv'
  OBVIOUS
<1> USE DEF control, place, asked, IInv
<1>1. CASE Bind
  BY <1>1 DEF Bind, EndInv, ExecutionInv, Terminal, SafePoint
<1>2. CASE RegisterPolicy
  BY <1>2 DEF RegisterPolicy, EndInv, ExecutionInv, Terminal, SafePoint
<1>3. CASE PrepareRun
  BY <1>3 DEF PrepareRun, EndInv, ExecutionInv, Terminal, SafePoint
<1>4. CASE Park
  BY <1>4 DEF Park, Update, EndInv, ExecutionInv, Terminal, SafePoint
<1>5. CASE Pass
  <2>1. CASE aborted
    BY <1>5, <2>1 DEF Pass, EndInv, ExecutionInv, Terminal, SafePoint
  <2>2. CASE ~aborted
    <3>1. PICK next \in Follows(pc) : pc' = next[1] /\ calls' = next[2]
      BY <1>5, <2>2 DEF Pass
    <3>2. pc \in SafePoint /\ UNCHANGED <<aborted, owns, execution>>
          /\ (Update("running") \/ UNCHANGED <<status, policy>>)
      BY <1>5, <2>2 DEF Pass
    <3>3. pc' \in {"model", "before_tool", "closing", "catch", "tool"}
      BY <3>1, <3>2 DEF Follows, SafePoint
    <3> QED BY <2>2, <3>2, <3>3 DEF Update, EndInv, ExecutionInv, Terminal, SafePoint
  <2> QED BY <2>1, <2>2
<1>6. CASE ModelEnds
  BY <1>6 DEF ModelEnds, EndInv, ExecutionInv, Terminal, SafePoint
<1>7. CASE ToolEnds
  <2>1. /\ pc = "tool" /\ pc' \in {"before_tool", "before_model", "catch"}
        /\ UNCHANGED <<aborted, owns, execution>>
        /\ (~aborted /\ Update("running")) \/ UNCHANGED <<status, policy>>
    BY <1>7 DEF ToolEnds
  <2> QED BY <2>1 DEF Update, EndInv, ExecutionInv, Terminal, SafePoint
<1>8. CASE CloseCompleted
  BY <1>8 DEF CloseCompleted, Close, CanClose, EndInv, ExecutionInv, Terminal, SafePoint
<1>9. CASE Complete
  BY <1>9 DEF Complete, Update, EndInv, ExecutionInv, Terminal, SafePoint
<1>10. CASE Catch
  BY <1>10 DEF Catch, Update, EndInv, ExecutionInv, Terminal, SafePoint
<1>11. CASE CloseCaught
  BY <1>11 DEF CloseCaught, Close, CanClose, EndInv, ExecutionInv, Terminal, SafePoint
<1>12. CASE Cancel
  <2>1. /\ aborted' = TRUE /\ Update("cancelled") /\ status \notin Terminal
        /\ UNCHANGED <<pc, owns, execution>>
    BY <1>12 DEF Cancel, Live, Terminal
  <2>2. pc \notin {"closing_failed", "closing_cancelled", "done"}
    BY <2>1 DEF EndInv, Terminal
  <2> QED BY <2>1, <2>2 DEF Update, EndInv, ExecutionInv, Terminal
<1>13. CASE Ask \/ Deliver
  <2>1. UNCHANGED <<aborted, pc, owns, execution>>
    BY <1>13 DEF Ask, Deliver
  <2>2. \/ UNCHANGED <<status, policy>>
        \/ Update("waiting") \/ Update("running")
    BY <1>13 DEF Ask, Deliver
  <2> QED BY <2>1, <2>2 DEF Update, EndInv, ExecutionInv, Terminal
<1>14. CASE Pause \/ Resume \/ Respond \/ Others \/ UNCHANGED vars
  BY <1>14 DEF Pause, Resume, Respond, Others, vars, EndInv, ExecutionInv
<1> QED BY <1>1, <1>2, <1>3, <1>4, <1>5, <1>6, <1>7, <1>8, <1>9, <1>10, <1>11, <1>12, <1>13,
           <1>14 DEF Next, Execute

(******************************** The waiting *********************************)

(* The last list that is under way is what is pending. *)
LatestIsPending == published # <<>> => published[Len(published)] = pending

LEMMA PublishLatest ==
  ASSUME TypeOK, published' = Append(published, pending'), pending' \in SUBSET Interaction
  PROVE  LatestIsPending' /\ published' # <<>>
<1>1. /\ Len(published') = Len(published) + 1
      /\ published'[Len(published) + 1] = pending'
  BY AppendProperties DEF TypeOK
<1>2. Len(published) \in Nat
  BY LenProperties DEF TypeOK
<1> QED BY <1>1, <1>2, EmptySeq DEF LatestIsPending

LEMMA DeliverLatest ==
  ASSUME TypeOK, LatestIsPending, published # <<>>, published' = Tail(published),
         pending' = pending
  PROVE  LatestIsPending' /\ (published' = <<>> => Head(published) = pending)
<1>1. /\ published \in Seq(SUBSET Interaction) /\ Len(published) \in Nat
      /\ Len(published) # 0
  BY LenProperties, EmptySeq DEF TypeOK
<1>2. /\ Tail(published) \in Seq(SUBSET Interaction)
      /\ Len(Tail(published)) = Len(published) - 1
      /\ \A i \in 1 .. Len(Tail(published)) : Tail(published)[i] = published[i + 1]
      /\ Head(published) = published[1]
  BY <1>1, HeadTailProperties
<1>3. CASE Tail(published) = <<>>
  <2>1. Len(published) = 1
    <3>1. Len(<<>>) = 0
      OBVIOUS
    <3>2. Len(Tail(published)) = 0
      BY <1>3, <3>1
    <3> QED BY <1>1, <1>2, <3>2
  <2> QED BY <1>2, <1>3, <2>1 DEF LatestIsPending
<1>4. CASE Tail(published) # <<>>
  <2>1. Len(Tail(published)) \in 1 .. Len(Tail(published)) /\ Len(Tail(published)) + 1 = Len(published)
    BY <1>1, <1>2, <1>4, EmptySeq
  <2>2. Tail(published)[Len(Tail(published))] = published[Len(published)]
    BY <1>2, <2>1
  <2> QED BY <1>4, <2>2 DEF LatestIsPending
<1> QED BY <1>3, <1>4

WaitInv == LatestIsPending /\ WaitingIsReal


LEMMA WaitStep == IInv /\ WaitInv /\ [Next]_vars => WaitInv'
<1> SUFFICES ASSUME IInv, WaitInv, [Next]_vars PROVE WaitInv'
  OBVIOUS
<1>1. TypeOK /\ TypeOK'
  BY TypeStep DEF IInv
<1> USE DEF control, place, asked
<1>2. CASE UNCHANGED <<pending, published, turn>> /\ (status' = "waiting" => status = "waiting")
  BY <1>2 DEF WaitInv, LatestIsPending, WaitingIsReal
<1>3. CASE published' = Append(published, pending')
  <2>1. LatestIsPending' /\ published' # <<>>
    BY <1>1, <1>3, PublishLatest DEF TypeOK
  <2> QED BY <2>1 DEF WaitInv, WaitingIsReal
<1>4. CASE Bind \/ RegisterPolicy \/ PrepareRun \/ ModelEnds \/ CloseCompleted \/ CloseCaught
           \/ Pause \/ Resume \/ UNCHANGED vars
  BY <1>2, <1>4 DEF Bind, RegisterPolicy, PrepareRun, ModelEnds, CloseCompleted, CloseCaught,
                    Pause, Resume, vars
<1>5. CASE Park \/ Complete \/ Catch
  BY <1>2, <1>5 DEF Park, Complete, Catch, Update
<1>6. CASE Pass
  BY <1>2, <1>6 DEF Pass, Update
<1>7. CASE ToolEnds
  <2>1. UNCHANGED <<pending, published>> /\ (UNCHANGED <<status, turn>> \/ Update("running"))
    BY <1>7 DEF ToolEnds
  <2>2. CASE UNCHANGED <<status, turn>>
    BY <1>2, <2>1, <2>2
  <2>3. CASE Update("running")
    <3>1. status' # "waiting"
      BY <2>3 DEF Update, Terminal
    <3> QED BY <2>1, <3>1 DEF WaitInv, LatestIsPending, WaitingIsReal
  <2> QED BY <2>1, <2>2, <2>3
<1>8. CASE Ask \/ Respond \/ Others
  BY <1>3, <1>8 DEF Ask, Respond, Others
<1>9. CASE Cancel
  <2>1. /\ UNCHANGED turn /\ status' # "waiting"
        /\ \/ pending' = pending /\ published' = published
           \/ published' = Append(published, pending')
    BY <1>9 DEF Cancel, Withdraw, Update, Terminal
  <2> QED BY <1>2, <1>3, <2>1
<1>10. CASE Deliver
  <2>1. /\ LatestIsPending' /\ (published' = <<>> => Head(published) = pending)
        /\ UNCHANGED <<pending, turn, pc, calls>>
    BY <1>1, <1>10, DeliverLatest DEF Deliver, WaitInv
  <2>2. ASSUME status' = "waiting", published' = <<>>
        PROVE  \E i \in pending' : i.turn = turn' /\ i.kind # "policy"
    <3>1. \E i \in Head(published) : OfActiveTool(i)
      BY <1>10, <2>2 DEF Deliver, Update, Terminal
    <3> QED BY <2>1, <2>2, <3>1 DEF OfActiveTool
  <2> QED BY <2>1, <2>2 DEF WaitInv, WaitingIsReal
<1> QED BY <1>4, <1>5, <1>6, <1>7, <1>8, <1>9, <1>10 DEF Next, Execute

(********************************* Theorems ***********************************)

LEMMA RunInit == Init => IInv /\ WaitInv
<1> SUFFICES ASSUME Init PROVE IInv /\ WaitInv
  OBVIOUS
<1>1. TypeOK
  <2>1. <<>> \in Seq(SUBSET Interaction)
    BY EmptySeq
  <2>2. 1 \in 1 .. MaxTurns /\ 0 \in 0 .. MaxCalls
    BY RunAssumption
  <2> QED BY <2>1, <2>2 DEF Init, TypeOK, Live, Terminal, PC
<1>2. CallsLeft /\ EndInv /\ ExecutionInv
  BY DEF Init, CallsLeft, EndInv, ExecutionInv, Terminal, SafePoint
<1>3. WaitInv
  BY DEF Init, WaitInv, LatestIsPending, WaitingIsReal
<1> QED BY <1>1, <1>2, <1>3 DEF IInv

LEMMA RunStep == IInv /\ WaitInv /\ [Next]_vars => (IInv /\ WaitInv)'
BY TypeStep, CallsStep, EndStep, WaitStep DEF IInv

(* Every variable of a run keeps to its set of values. *)
THEOREM TypeCorrect == Spec => []TypeOK
<1>1. IInv => TypeOK
  BY DEF IInv
<1> QED BY <1>1, RunInit, RunStep, PTL DEF Spec

(* However the end of a run crosses a pause, a cancel or a store that refuses   *)
(* the close, a run whose #execute has returned reads as ended and has closed   *)
(* the execution it owns as what it reads, unless the store refused that        *)
(* (loop-manager.ts, #execute and closeOwnedExecution).                         *)
THEOREM EndsClosed == Spec => []FinishedIsClosed
<1>1. IInv => FinishedIsClosed
  BY DEF IInv, EndInv, ExecutionInv, FinishedIsClosed
<1> QED BY <1>1, RunInit, RunStep, PTL DEF Spec

(* The last list on its way is what is pending, whoever published it: once it   *)
(* is delivered the run shows waiting only for what is pending (loop-manager.ts,*)
(* the subscriber to the interactions).                                         *)
THEOREM WaitsForSomething == Spec => []WaitingIsReal
<1>1. WaitInv => WaitingIsReal
  BY DEF WaitInv
<1> QED BY <1>1, RunInit, RunStep, PTL DEF Spec

==============================================================================
