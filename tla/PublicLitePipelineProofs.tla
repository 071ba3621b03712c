----------------------- MODULE PublicLitePipelineProofs -----------------------
(***************************************************************************)
(* Theorems about PublicLitePipeline.  The theorems about its two parts    *)
(* are taken over: the pipeline implements PublicLiteExecution because it  *)
(* takes that module's steps, and PublicLiteHandoff because the execution  *)
(* moves only the way ExecutionMoves allows.                               *)
(***************************************************************************)
EXTENDS PublicLitePipeline, TLAPS

ExecutionProofs == INSTANCE PublicLiteExecutionProofs
    WITH event <- runEvent, MaxAttempts <- DispatchAttempts

HandoffProofs == INSTANCE PublicLiteHandoffProofs
    WITH execution <- ExecutionStatus, event <- handoffEvent,
         crashes <- cutOffs, Executions <- {TheExecution},
         MaxAttempts <- ChildAttempts, MaxCrashes <- MaxCutOffs

\* The constants satisfy what the parts assume of theirs.
LEMMA PartAssumptions ==
    ExecutionProofs!ExecutionAssumption /\ HandoffProofs!HandoffAssumption
  BY PipelineAssumption
  DEF ExecutionProofs!ExecutionAssumption, HandoffProofs!HandoffAssumption

-----------------------------------------------------------------------------
(* The dispatch.                                                           *)

\* What the pipeline does to the dispatch, PublicLiteExecution does.
LEMMA DispatchMoves ==
  ASSUME [PipelineNext]_pipelineVars
  PROVE  [Execution!ExecutionNext]_(Execution!execVars)
  <1> DEFINE Goal == [Execution!ExecutionNext]_(Execution!execVars)
  <1>1. ASSUME UNCHANGED dispatchVars PROVE Goal
    BY <1>1 DEF dispatchVars, Execution!execVars
  <1>2. ASSUME NEW i \in Invocations, SendRequest(i) PROVE Goal
    BY <1>2
    DEF SendRequest, Execution!ExecutionNext, Execution!Handler, Execution!Claim
  <1>3. ASSUME NEW i \in Invocations, DispatchStep(i) PROVE Goal
    BY <1>3
    DEF DispatchStep, Execution!ExecutionNext, Execution!Handler, Execution!Claim
  <1>4. ASSUME NEW i \in Invocations, Answer(i) PROVE Goal
    BY <1>4
    DEF Answer, Execution!ExecutionNext, Execution!Handler, Execution!Answers
  <1>5. ASSUME DispatchLeaseExpires PROVE Goal
    BY <1>5 DEF DispatchLeaseExpires, Execution!ExecutionNext
  <1>6. ASSUME NEW a \in 1..DispatchAttempts,
               \/ \E due \in {"past", "future"} : GatewayCreates(a, due)
               \/ GatewayReplays(a)
               \/ GatewayRejected(a)
        PROVE  Goal
    BY <1>1, <1>6 DEF GatewayCreates, GatewayReplays, GatewayRejected
  <1>7. CASE HandoffStep \/ UNCHANGED pipelineVars
    BY <1>1, <1>7 DEF HandoffStep, pipelineVars
  <1> QED BY <1>2, <1>3, <1>4, <1>5, <1>6, <1>7 DEF PipelineNext

\* The prover tells the two instances of PublicLiteExecution apart; with all
\* definitions expanded their steps and invariants are the same formulas.
LEMMA DispatchInstances ==
    /\ Execution!ExecutionInit => ExecutionProofs!ExecutionInit
    /\ [Execution!ExecutionNext]_(Execution!execVars)
         => [ExecutionProofs!ExecutionNext]_(ExecutionProofs!execVars)
    /\ ExecutionProofs!ExecutionInductive => Execution!ExecutionInductive
  BY
  DEF Execution!ExecutionInit, ExecutionProofs!ExecutionInit, Execution!Idle,
      ExecutionProofs!Idle, Execution!ExecutionNext,
      ExecutionProofs!ExecutionNext, Execution!Deliver,
      ExecutionProofs!Deliver, Execution!At, ExecutionProofs!At,
      Execution!Goto, ExecutionProofs!Goto, Execution!Handler,
      ExecutionProofs!Handler, Execution!Prepare, ExecutionProofs!Prepare,
      Execution!PrepareCreates, ExecutionProofs!PrepareCreates,
      Execution!ChannelsReady, ExecutionProofs!ChannelsReady,
      Execution!ReadyStatuses, ExecutionProofs!ReadyStatuses,
      Execution!PrepareReplays, ExecutionProofs!PrepareReplays,
      Execution!Queue, ExecutionProofs!Queue, Execution!QueueValidates,
      ExecutionProofs!QueueValidates, Execution!QueueRefuses,
      ExecutionProofs!QueueRefuses, Execution!Throw, ExecutionProofs!Throw,
      Execution!QueueCommits, ExecutionProofs!QueueCommits,
      Execution!RetryChannelsConsistent,
      ExecutionProofs!RetryChannelsConsistent, Execution!SetChannels,
      ExecutionProofs!SetChannels, Execution!QueueConflicts,
      ExecutionProofs!QueueConflicts, Execution!Claim, ExecutionProofs!Claim,
      Execution!ClaimFindsSettled, ExecutionProofs!ClaimFindsSettled,
      Execution!ExecutionSettled, ExecutionProofs!ExecutionSettled,
      Execution!ReturnNormally, ExecutionProofs!ReturnNormally,
      Execution!ClaimRequiresQueued, ExecutionProofs!ClaimRequiresQueued,
      Execution!ClaimFindsLease, ExecutionProofs!ClaimFindsLease,
      Execution!LeaseHeld, ExecutionProofs!LeaseHeld, Execution!ClaimExhausts,
      ExecutionProofs!ClaimExhausts, Execution!Claimable,
      ExecutionProofs!Claimable, Execution!ClaimDispatch,
      ExecutionProofs!ClaimDispatch, Execution!Mark, ExecutionProofs!Mark,
      Execution!MarkDispatchSucceeded, ExecutionProofs!MarkDispatchSucceeded,
      Execution!Marks, ExecutionProofs!Marks, Execution!LeaseMatches,
      ExecutionProofs!LeaseMatches, Execution!BundleQueued,
      ExecutionProofs!BundleQueued, Execution!AllChannels,
      ExecutionProofs!AllChannels, Execution!MarkReplaysSuccess,
      ExecutionProofs!MarkReplaysSuccess, Execution!MarkDispatchFailed,
      ExecutionProofs!MarkDispatchFailed, Execution!Answers,
      ExecutionProofs!Answers, Execution!FailedStatus,
      ExecutionProofs!FailedStatus, Execution!Retryable,
      ExecutionProofs!Retryable, Execution!RetryableAnswers,
      ExecutionProofs!RetryableAnswers, Execution!ReportFailure,
      ExecutionProofs!ReportFailure, Execution!MarkReplaysFailure,
      ExecutionProofs!MarkReplaysFailure, Execution!MarkConflicts,
      ExecutionProofs!MarkConflicts, Execution!GatewayAnswers,
      ExecutionProofs!GatewayAnswers, Execution!Crash, ExecutionProofs!Crash,
      Execution!LeaseExpires, ExecutionProofs!LeaseExpires,
      Execution!ExecutionInductive, ExecutionProofs!ExecutionInductive,
      Execution!ExecutionTypeOK, ExecutionProofs!ExecutionTypeOK,
      Execution!ChannelDocuments, ExecutionProofs!ChannelDocuments,
      Execution!ExecutionDocuments, ExecutionProofs!ExecutionDocuments,
      Execution!Leases, ExecutionProofs!Leases, Execution!InvocationStates,
      ExecutionProofs!InvocationStates, Execution!Pcs, ExecutionProofs!Pcs,
      Execution!BundleConsistent, ExecutionProofs!BundleConsistent,
      Execution!AttemptFence, ExecutionProofs!AttemptFence,
      Execution!InAttempt, ExecutionProofs!InAttempt,
      Execution!ControlConsistent, ExecutionProofs!ControlConsistent,
      Execution!execVars, ExecutionProofs!execVars, Execution!RunStatuses,
      ExecutionProofs!RunStatuses, Execution!ChannelStatuses,
      ExecutionProofs!ChannelStatuses, Execution!ExecutionStatuses,
      ExecutionProofs!ExecutionStatuses

\* The pipeline takes over what is proved of the dispatch.
LEMMA DispatchInvariant == PipelineSpec => []Execution!ExecutionInductive
  <1>1. PipelineInit => ExecutionProofs!ExecutionInit
    BY DispatchInstances DEF PipelineInit
  <1>2. [PipelineNext]_pipelineVars
          => [ExecutionProofs!ExecutionNext]_(ExecutionProofs!execVars)
    BY DispatchMoves, DispatchInstances
  <1>3. ExecutionProofs!ExecutionInductive => Execution!ExecutionInductive
    BY DispatchInstances
  <1>4. ExecutionProofs!ExecutionSpec => []ExecutionProofs!ExecutionInductive
    BY PartAssumptions, ExecutionProofs!ExecutionInvariant, PTL
  <1> QED
    BY <1>1, <1>2, <1>3, <1>4, PTL
    DEF PipelineSpec, ExecutionProofs!ExecutionSpec

-----------------------------------------------------------------------------
(* What the steps of the dispatch do to the execution document.            *)

\* A step of an invocation other than a claim or an answer takes it out of its
\* attempt, and dispatches only with a receipt for the newest attempt.
LEMMA DispatchEffect ==
  ASSUME Execution!ExecutionInductive, NEW i \in Invocations, DispatchStep(i)
  PROVE  /\ \A j \in Invocations :
              inv'[j] = inv[j] \/ inv'[j].pc \notin {"dispatch", "mark"}
         /\ \/ /\ exec'.status = exec.status
               /\ exec'.attemptCount = exec.attemptCount
            \/ exec.status = "absent" /\ exec'.status = "prepared"
            \/ /\ exec.status = "dispatching"
               /\ exec'.status \in {"retryableFailure", "terminalFailure"}
            \/ /\ exec.status = "dispatching" /\ exec'.status = "dispatched"
               /\ exec'.attemptCount = exec.attemptCount
               /\ Execution!Marks(i, {"receipt"})
               /\ inv[i].attempt = exec.attemptCount
  <1> DEFINE Left == \A j \in Invocations :
                       inv'[j] = inv[j] \/ inv'[j].pc \notin {"dispatch", "mark"}
             Same == exec'.status = exec.status
                       /\ exec'.attemptCount = exec.attemptCount
  <1> USE DEF Execution!ExecutionInductive, Execution!ExecutionTypeOK,
              Execution!InvocationStates, Execution!ExecutionDocuments
  <1>1. ASSUME \/ Execution!ReturnNormally(i) \/ Execution!Throw(i)
               \/ \E pc \in {"prepare", "validate", "queue", "claim"} :
                    Execution!Goto(i, pc)
        PROVE  Left
    BY <1>1
    DEF Execution!ReturnNormally, Execution!Throw, Execution!Goto, Execution!Idle
  <1>2. CASE Execution!Deliver(i) \/ Execution!Queue(i) \/ Execution!Crash(i)
    BY <1>1, <1>2
    DEF Execution!Deliver, Execution!Queue, Execution!QueueValidates,
        Execution!QueueRefuses, Execution!QueueCommits,
        Execution!QueueConflicts, Execution!Crash
  <1>3. CASE Execution!Prepare(i)
    BY <1>1, <1>3
    DEF Execution!Prepare, Execution!PrepareCreates, Execution!PrepareReplays
  <1>4. CASE \/ Execution!ClaimFindsSettled(i) \/ Execution!ClaimRequiresQueued(i)
             \/ Execution!ClaimFindsLease(i)
    BY <1>1, <1>4
    DEF Execution!ClaimFindsSettled, Execution!ClaimRequiresQueued,
        Execution!ClaimFindsLease
  <1>5. CASE Execution!ClaimExhausts(i)
    <2>1. exec.status = "dispatching"
      BY <1>5, PipelineAssumption
      DEF Execution!ClaimExhausts, Execution!Claimable, Execution!At,
          Execution!ExecutionSettled, Execution!ControlConsistent,
          Execution!ExecutionStatuses
    <2>2. Left /\ exec'.status = "terminalFailure"
      BY <1>1, <1>5 DEF Execution!ClaimExhausts
    <2> QED BY <2>1, <2>2
  <1>6. CASE Execution!Mark(i)
    <2>1. CASE Execution!MarkDispatchSucceeded(i)
      <3>1. Left
        BY <1>1, <2>1 DEF Execution!MarkDispatchSucceeded
      <3>2. /\ exec.status = "dispatching" /\ exec'.status = "dispatched"
            /\ exec'.attemptCount = exec.attemptCount
            /\ Execution!Marks(i, {"receipt"})
            /\ inv[i].attempt = exec.attemptCount
        BY <2>1 DEF Execution!MarkDispatchSucceeded, Execution!LeaseMatches
      <3> QED BY <3>1, <3>2
    <2>2. CASE Execution!MarkDispatchFailed(i)
      <3>1. Left
        BY <1>1, <2>2 DEF Execution!MarkDispatchFailed, Execution!ReportFailure
      <3>2. /\ exec.status = "dispatching"
            /\ exec'.status \in {"retryableFailure", "terminalFailure"}
        BY <2>2
        DEF Execution!MarkDispatchFailed, Execution!LeaseMatches,
            Execution!FailedStatus
      <3> QED BY <3>1, <3>2
    <2>3. CASE \/ Execution!MarkReplaysSuccess(i) \/ Execution!MarkConflicts(i)
               \/ Execution!MarkReplaysFailure(i)
      BY <1>1, <2>3
      DEF Execution!MarkReplaysSuccess, Execution!MarkConflicts,
          Execution!MarkReplaysFailure, Execution!ReportFailure
    <2> QED BY <1>6, <2>1, <2>2, <2>3 DEF Execution!Mark
  <1> QED BY <1>2, <1>3, <1>4, <1>5, <1>6 DEF DispatchStep

\* A claim opens the next attempt, of an execution that is neither settled nor
\* absent, and sends its request.
LEMMA RequestEffect ==
  ASSUME Execution!ExecutionInductive, NEW i \in Invocations, SendRequest(i)
  PROVE  /\ exec.status \in {"prepared", "retryableFailure", "dispatching"}
         /\ exec'.status = "dispatching"
         /\ exec.attemptCount + 1 \in 1..DispatchAttempts
         /\ inv'[i].pc = "dispatch"
         /\ inv'[i].attempt = exec.attemptCount + 1
         /\ \A j \in Invocations \ {i} : inv'[j] = inv[j]
         /\ call' = [call EXCEPT ![exec.attemptCount + 1] = "sent"]
         /\ UNCHANGED <<acquisitionVars, gatewayId>>
  <1>1. Execution!ClaimDispatch(i)
    BY DEF SendRequest
  <1>2. exec.status \in {"prepared", "retryableFailure", "dispatching"}
    BY <1>1
    DEF Execution!ExecutionInductive, Execution!ExecutionTypeOK,
        Execution!ExecutionDocuments, Execution!ControlConsistent,
        Execution!ClaimDispatch, Execution!Claimable, Execution!At,
        Execution!ExecutionSettled, Execution!ExecutionStatuses
  <1>3. exec.attemptCount + 1 \in 1..DispatchAttempts
    BY <1>1, PipelineAssumption
    DEF Execution!ExecutionInductive, Execution!ExecutionTypeOK,
        Execution!ExecutionDocuments, Execution!ClaimDispatch
  <1>4. /\ exec'.status = "dispatching"
        /\ inv'[i].pc = "dispatch"
        /\ inv'[i].attempt = exec.attemptCount + 1
        /\ \A j \in Invocations \ {i} : inv'[j] = inv[j]
    BY <1>1
    DEF Execution!ExecutionInductive, Execution!ExecutionTypeOK,
        Execution!ExecutionDocuments, Execution!InvocationStates,
        Execution!ClaimDispatch
  <1> QED BY <1>2, <1>3, <1>4 DEF SendRequest

-----------------------------------------------------------------------------
(* The receipts.                                                           *)

\* A receipt of a gateway execution exists only for the one that persisted the
\* handoff, whether the gateway still has it, an invocation has read it or the
\* execution was dispatched with it.
ReceiptsOwned ==
    /\ call \in [1..DispatchAttempts -> Calls]
    /\ gatewayId \in 0..DispatchAttempts
    /\ gatewayId # 0 => handoff[TheExecution].state # "absent"
    /\ \A a \in 1..DispatchAttempts : call[a] = "receipt" => gatewayId = a
    /\ \A i \in Invocations :
         /\ inv[i].pc = "dispatch" => inv[i].attempt \in 1..DispatchAttempts
         /\ inv[i].pc = "mark" /\ inv[i].answer = "receipt" =>
              gatewayId = inv[i].attempt /\ gatewayId # 0
    /\ exec.status = "dispatched" => gatewayId = exec.attemptCount /\ gatewayId # 0

\* The step of the execution that the handoff sees, if any.
LEMMA StatusMoves ==
  ASSUME Execution!ExecutionInductive, ReceiptsOwned, UNCHANGED acquisitionVars,
         \/ exec'.status = exec.status
         \/ exec.status = "absent" /\ exec'.status = "prepared"
         \/ /\ exec.status \in {"prepared", "retryableFailure"}
            /\ exec'.status = "dispatching"
         \/ /\ exec.status = "dispatching"
            /\ exec'.status \in {"retryableFailure", "terminalFailure"}
         \/ /\ exec.status = "dispatching" /\ exec'.status = "dispatched"
            /\ handoff[TheExecution].state # "absent"
  PROVE  [Handoff!HandoffNext]_(Handoff!handoffVars)
  <1> DEFINE e == TheExecution
             Becomes(status) == ExecutionStatus' =
                                  [ExecutionStatus EXCEPT ![e] = status]
             Goal == [Handoff!HandoffNext]_(Handoff!handoffVars)
  <1>1. UNCHANGED <<handoff, child, receipts, handoffEvent, worker, batch, cutOffs>>
    BY DEF acquisitionVars
  <1>2. ASSUME \/ exec'.status = exec.status
               \/ exec.status = "absent" /\ exec'.status = "prepared"
        PROVE  Goal
    <2>1. UNCHANGED ExecutionStatus
      BY <1>2 DEF ExecutionStatus
    <2> QED BY <1>1, <2>1 DEF Handoff!handoffVars
  <1>3. ASSUME exec'.status # exec.status, exec.status # "absent"
        PROVE  Goal
    <2>1. /\ ExecutionStatus[e] = exec.status
          /\ Becomes(exec'.status)
      <3>1. exec'.status # "absent"
        BY <1>3
      <3> QED BY <1>3, <3>1 DEF ExecutionStatus
    <2> HIDE DEF Becomes
    <2>2. Handoff!ExecutionMoves(e)
      BY <1>1, <1>3, <2>1 DEF Handoff!ExecutionMoves, Becomes
    <2> QED BY <2>2 DEF Handoff!HandoffNext
  <1> QED BY <1>2, <1>3

\* What the pipeline does to the handoff, PublicLiteHandoff does.
LEMMA AcquisitionMoves ==
  ASSUME Execution!ExecutionInductive, ReceiptsOwned,
         [PipelineNext]_pipelineVars
  PROVE  [Handoff!HandoffNext]_(Handoff!handoffVars)
  <1> DEFINE Goal == [Handoff!HandoffNext]_(Handoff!handoffVars)
  <1>1. ASSUME NEW i \in Invocations, SendRequest(i) PROVE Goal
    BY <1>1, RequestEffect, StatusMoves
  <1>2. ASSUME NEW i \in Invocations, DispatchStep(i) PROVE Goal
    <2>1. UNCHANGED acquisitionVars
      BY <1>2 DEF DispatchStep
    <2>2. Execution!Marks(i, {"receipt"}) => handoff[TheExecution].state # "absent"
      BY DEF ReceiptsOwned, Execution!Marks, Execution!At
    <2> QED BY <1>2, <2>1, <2>2, DispatchEffect, StatusMoves
  <1>3. ASSUME UNCHANGED acquisitionVars, exec'.status = exec.status PROVE Goal
    BY <1>3, StatusMoves
  <1>4. ASSUME NEW i \in Invocations, Answer(i) PROVE Goal
    BY <1>3, <1>4 DEF Answer, Execution!GatewayAnswers
  <1>5. CASE DispatchLeaseExpires
    BY <1>3, <1>5
    DEF DispatchLeaseExpires, Execution!LeaseExpires,
        Execution!ExecutionInductive, Execution!ExecutionTypeOK,
        Execution!ExecutionDocuments
  <1>6. ASSUME NEW a \in 1..DispatchAttempts, NEW due \in {"past", "future"},
               GatewayCreates(a, due)
        PROVE  Goal
    BY <1>6 DEF GatewayCreates, Handoff!HandoffNext
  <1>7. ASSUME NEW a \in 1..DispatchAttempts,
               GatewayReplays(a) \/ GatewayRejected(a)
        PROVE  Goal
    BY <1>3, <1>7 DEF GatewayReplays, GatewayRejected, dispatchVars
  <1>8. CASE HandoffStep
    BY <1>8 DEF HandoffStep, Handoff!HandoffNext
  <1>9. CASE UNCHANGED pipelineVars
    BY <1>3, <1>9 DEF pipelineVars, dispatchVars
  <1> QED
    BY <1>1, <1>2, <1>4, <1>5, <1>6, <1>7, <1>8, <1>9 DEF PipelineNext

\* As DispatchInstances, for the two instances of PublicLiteHandoff.
LEMMA HandoffInstances ==
    /\ Handoff!HandoffInit <=> HandoffProofs!HandoffInit
    /\ [Handoff!HandoffNext]_(Handoff!handoffVars)
         <=> [HandoffProofs!HandoffNext]_(HandoffProofs!handoffVars)
    /\ HandoffProofs!HandoffTypeOK <=> Handoff!HandoffTypeOK
    /\ HandoffProofs!HandoffTypeOK' <=> Handoff!HandoffTypeOK'
    /\ HandoffProofs!ResultsAgree <=> Handoff!ResultsAgree
  BY
  DEF Handoff!HandoffInit, HandoffProofs!HandoffInit, Handoff!Unaccepted,
      HandoffProofs!Unaccepted, Handoff!Workers, HandoffProofs!Workers,
      Handoff!Resting, HandoffProofs!Resting, Handoff!HandoffNext,
      HandoffProofs!HandoffNext, Handoff!ExecutionMoves,
      HandoffProofs!ExecutionMoves, Handoff!ResultArrives,
      HandoffProofs!ResultArrives, Handoff!ResultCreates,
      HandoffProofs!ResultCreates, Handoff!ResultReady,
      HandoffProofs!ResultReady, Handoff!Complete, HandoffProofs!Complete,
      Handoff!ResultReplays, HandoffProofs!ResultReplays, Handoff!Elapses,
      HandoffProofs!Elapses, Handoff!AcceptHandoff,
      HandoffProofs!AcceptHandoff, Handoff!DeliverAccepted,
      HandoffProofs!DeliverAccepted, Handoff!AtStep, HandoffProofs!AtStep,
      Handoff!Begin, HandoffProofs!Begin, Handoff!Dispatch,
      HandoffProofs!Dispatch, Handoff!ClaimChild, HandoffProofs!ClaimChild,
      Handoff!ClaimDeclined, HandoffProofs!ClaimDeclined,
      Handoff!NotClaimable, HandoffProofs!NotClaimable, Handoff!Current,
      HandoffProofs!Current, Handoff!Returned, HandoffProofs!Returned,
      Handoff!ClaimDeadLetters, HandoffProofs!ClaimDeadLetters,
      Handoff!ClaimChildDispatch, HandoffProofs!ClaimChildDispatch,
      Handoff!MarkChild, HandoffProofs!MarkChild, Handoff!MarkChildDispatched,
      HandoffProofs!MarkChildDispatched, Handoff!Answered,
      HandoffProofs!Answered, Handoff!ChildLeaseMatches,
      HandoffProofs!ChildLeaseMatches, Handoff!MarkReplaysDispatched,
      HandoffProofs!MarkReplaysDispatched, Handoff!MarkChildFailed,
      HandoffProofs!MarkChildFailed, Handoff!FailedState,
      HandoffProofs!FailedState, Handoff!ChildRetryable,
      HandoffProofs!ChildRetryable, Handoff!ReportChildFailure,
      HandoffProofs!ReportChildFailure, Handoff!Threw, HandoffProofs!Threw,
      Handoff!MarkReplaysChildFailure, HandoffProofs!MarkReplaysChildFailure,
      Handoff!MarkChildConflicts, HandoffProofs!MarkChildConflicts,
      Handoff!ChildAnswers, HandoffProofs!ChildAnswers,
      Handoff!ProviderAnswers, HandoffProofs!ProviderAnswers,
      Handoff!Reconcile, HandoffProofs!Reconcile, Handoff!ReconcileLists,
      HandoffProofs!ReconcileLists, Handoff!Due, HandoffProofs!Due,
      Handoff!ReconcileTakes, HandoffProofs!ReconcileTakes, Handoff!CutOff,
      HandoffProofs!CutOff, Handoff!HandoffTypeOK,
      HandoffProofs!HandoffTypeOK, Handoff!HandoffDocuments,
      HandoffProofs!HandoffDocuments, Handoff!DueTimes,
      HandoffProofs!DueTimes, Handoff!WorkerStates,
      HandoffProofs!WorkerStates, Handoff!WorkerPcs, HandoffProofs!WorkerPcs,
      Handoff!ResultsAgree, HandoffProofs!ResultsAgree, Handoff!handoffVars,
      HandoffProofs!handoffVars, Handoff!HandoffStates,
      HandoffProofs!HandoffStates, Handoff!HandoffDueStates,
      HandoffProofs!HandoffDueStates, Handoff!ExecutionStatuses,
      HandoffProofs!ExecutionStatuses

\* A handoff that was accepted stays so.
LEMMA AcceptedStays ==
  ASSUME Handoff!HandoffTypeOK, [Handoff!HandoffNext]_(Handoff!handoffVars),
         handoff[TheExecution].state # "absent"
  PROVE  handoff'[TheExecution].state # "absent"
  <1>1. HandoffProofs!Written(TheExecution)
    BY HandoffInstances, PartAssumptions, HandoffProofs!HandoffSteps
  <1> QED
    BY <1>1
    DEF HandoffProofs!Written, HandoffProofs!Accepted, HandoffProofs!Claimed,
        HandoffProofs!Exhausted, HandoffProofs!Reported,
        HandoffProofs!Completed, HandoffProofs!Elapsed

\* No step of the two parts or of the gateway gives a receipt to a gateway
\* execution other than the one that persisted the handoff.
LEMMA ReceiptsPreserved ==
  ASSUME Execution!ExecutionInductive, Handoff!HandoffTypeOK, ReceiptsOwned,
         [PipelineNext]_pipelineVars
  PROVE  ReceiptsOwned'
  <1>1. handoff[TheExecution].state # "absent"
          => handoff'[TheExecution].state # "absent"
    BY AcquisitionMoves, AcceptedStays
  <1>2. inv \in Execution!InvocationStates
    BY DEF Execution!ExecutionInductive, Execution!ExecutionTypeOK
  <1>3. ASSUME UNCHANGED dispatchVars, UNCHANGED gatewayVars
        PROVE  ReceiptsOwned'
    BY <1>1, <1>3 DEF ReceiptsOwned, dispatchVars, gatewayVars
  <1>4. ASSUME NEW i \in Invocations, SendRequest(i) PROVE ReceiptsOwned'
    <2>1. /\ call' \in [1..DispatchAttempts -> Calls]
          /\ \A a \in 1..DispatchAttempts :
               call'[a] = "receipt" => call[a] = "receipt"
      BY <1>4, RequestEffect DEF ReceiptsOwned, Calls
    <2> QED BY <1>1, <1>4, <2>1, RequestEffect DEF ReceiptsOwned
  <1>5. ASSUME NEW i \in Invocations, DispatchStep(i) PROVE ReceiptsOwned'
    <2>1. UNCHANGED gatewayVars
      BY <1>5 DEF DispatchStep
    <2>2. /\ call' = call /\ gatewayId' = gatewayId
      BY <2>1 DEF gatewayVars
    <2>3. exec'.status = "dispatched" =>
            gatewayId = exec'.attemptCount /\ gatewayId # 0
      BY <1>5, DispatchEffect DEF ReceiptsOwned, Execution!Marks, Execution!At
    <2>4. ASSUME NEW j \in Invocations
          PROVE  /\ inv'[j].pc = "dispatch" => inv'[j].attempt \in 1..DispatchAttempts
                 /\ inv'[j].pc = "mark" /\ inv'[j].answer = "receipt" =>
                      gatewayId = inv'[j].attempt /\ gatewayId # 0
      <3>1. inv'[j] = inv[j] \/ inv'[j].pc \notin {"dispatch", "mark"}
        BY <1>5, DispatchEffect
      <3> QED BY <3>1 DEF ReceiptsOwned
    <2> QED BY <1>1, <2>2, <2>3, <2>4 DEF ReceiptsOwned
  <1>6. ASSUME NEW i \in Invocations, Answer(i) PROVE ReceiptsOwned'
    <2> DEFINE a == inv[i].attempt
    <2>1. /\ inv[i].pc = "dispatch" /\ a \in 1..DispatchAttempts
      BY <1>6 DEF Answer, Execution!At, ReceiptsOwned
    <2>2. /\ exec' = exec /\ gatewayId' = gatewayId /\ handoff' = handoff
      BY <1>6 DEF Answer, Execution!GatewayAnswers, acquisitionVars
    <2>3. /\ call' \in [1..DispatchAttempts -> Calls]
          /\ \A b \in 1..DispatchAttempts :
               call'[b] = "receipt" => call[b] = "receipt"
      BY <1>6, <2>1 DEF Answer, ReceiptsOwned, Calls
    <2>4. /\ inv'[i].pc = "mark" /\ inv'[i].attempt = a
          /\ \A j \in Invocations \ {i} : inv'[j] = inv[j]
      BY <1>2, <1>6 DEF Answer, Execution!GatewayAnswers, Execution!InvocationStates
    <2>5. inv'[i].answer = "receipt" => call[a] = "receipt"
      BY <1>2, <1>6
      DEF Answer, ReceiptSent, Execution!GatewayAnswers, Execution!InvocationStates
    <2>6. inv'[i].answer = "receipt" => gatewayId = a /\ gatewayId # 0
      BY <2>1, <2>5 DEF ReceiptsOwned
    <2> QED BY <2>2, <2>3, <2>4, <2>6 DEF ReceiptsOwned
  <1>7. CASE DispatchLeaseExpires
    <2>1. /\ exec'.status = exec.status /\ exec'.attemptCount = exec.attemptCount
          /\ UNCHANGED <<inv, call, gatewayId, handoff>>
      BY <1>7
      DEF DispatchLeaseExpires, Execution!LeaseExpires, acquisitionVars,
          gatewayVars, Execution!ExecutionInductive,
          Execution!ExecutionTypeOK, Execution!ExecutionDocuments
    <2> QED BY <2>1 DEF ReceiptsOwned
  <1>8. ASSUME NEW a \in 1..DispatchAttempts, NEW due \in {"past", "future"},
               GatewayCreates(a, due)
        PROVE  ReceiptsOwned'
    <2>1. /\ gatewayId = 0 /\ gatewayId' = a
          /\ handoff'[TheExecution].state = "accepted"
          /\ UNCHANGED <<exec, inv>>
      BY <1>8
      DEF GatewayCreates, Handoff!AcceptHandoff, ReceiptsOwned, dispatchVars,
          Handoff!HandoffTypeOK, Handoff!HandoffDocuments
    <2>2. PICK c \in {"receipt", "failed"} : call' = [call EXCEPT ![a] = c]
      BY <1>8 DEF GatewayCreates
    <2> QED BY <2>1, <2>2 DEF ReceiptsOwned, Calls
  <1>9. ASSUME NEW a \in 1..DispatchAttempts,
               GatewayReplays(a) \/ GatewayRejected(a)
        PROVE  ReceiptsOwned'
    <2>1. PICK c \in Calls : /\ call' = [call EXCEPT ![a] = c]
                             /\ c = "receipt" => gatewayId = a
      BY <1>9 DEF GatewayReplays, GatewayRejected, Calls
    <2>2. UNCHANGED <<exec, inv, gatewayId>>
      BY <1>9 DEF GatewayReplays, GatewayRejected, dispatchVars
    <2> QED BY <1>1, <2>1, <2>2 DEF ReceiptsOwned
  <1>10. CASE HandoffStep \/ UNCHANGED pipelineVars
    BY <1>3, <1>10 DEF HandoffStep, pipelineVars
  <1> QED
    BY <1>4, <1>5, <1>6, <1>7, <1>8, <1>9, <1>10 DEF PipelineNext

-----------------------------------------------------------------------------
(* The theorems.                                                           *)

\* The invariant behind the theorems: receipts belong to the gateway execution
\* that persisted the handoff, and the documents have their types.
THEOREM ReceiptsInvariant ==
    PipelineSpec => [](Handoff!HandoffTypeOK /\ ReceiptsOwned)
  <1>1. PipelineInit => Handoff!HandoffTypeOK /\ ReceiptsOwned
    <2>1. PipelineInit => Handoff!HandoffTypeOK
      BY PartAssumptions, HandoffInstances, HandoffProofs!HandoffInitTypes
      DEF PipelineInit
    <2>2. PipelineInit => ReceiptsOwned
      BY PipelineAssumption
      DEF PipelineInit, ReceiptsOwned, Calls, Execution!ExecutionInit,
          Execution!Idle
    <2> QED BY <2>1, <2>2
  <1>2. /\ Execution!ExecutionInductive
        /\ Handoff!HandoffTypeOK /\ ReceiptsOwned
        /\ [PipelineNext]_pipelineVars
        => (Handoff!HandoffTypeOK /\ ReceiptsOwned)'
    <2> SUFFICES ASSUME Execution!ExecutionInductive, Handoff!HandoffTypeOK,
                        ReceiptsOwned, [PipelineNext]_pipelineVars
                 PROVE  Handoff!HandoffTypeOK' /\ ReceiptsOwned'
      OBVIOUS
    <2>1. HandoffProofs!HandoffTypeOK
            /\ [HandoffProofs!HandoffNext]_(HandoffProofs!handoffVars)
      BY AcquisitionMoves, HandoffInstances
    <2>2. Handoff!HandoffTypeOK'
      BY <2>1, HandoffInstances, PartAssumptions,
         HandoffProofs!HandoffTypesPreserved
    <2> QED BY <2>2, ReceiptsPreserved
  <1> QED BY <1>1, <1>2, DispatchInvariant, PTL DEF PipelineSpec

\* What PublicLiteExecution shows of its dispatch holds for the pipeline: the
\* gateway only decides which answers an invocation gets.
THEOREM PipelineIsDispatch == PipelineSpec => Execution!ExecutionSpec
  BY DispatchMoves, PTL DEF PipelineSpec, PipelineInit, Execution!ExecutionSpec

\* In the composition the execution moves only the way PublicLiteHandoff
\* assumes, whatever the gateway loses or delays.
THEOREM PipelineIsHandoff == PipelineSpec => ImplementsHandoff
  <1>1. PipelineInit => Handoff!HandoffInit
    BY DEF PipelineInit
  <1> QED
    BY <1>1, AcquisitionMoves, DispatchInvariant, ReceiptsInvariant, PTL
    DEF PipelineSpec, ImplementsHandoff, Handoff!HandoffSpec

\* A dispatched execution has a handoff, accepted through the gateway execution
\* of the attempt that dispatched it ("This parent workflow returns HTTP 202
\* only after the provider handoff is durably accepted", workflow_factory.js).
THEOREM DispatchBacked == PipelineSpec => []DispatchedIsBacked
  <1>1. /\ Execution!ExecutionInductive
        /\ Handoff!HandoffTypeOK /\ ReceiptsOwned
        => DispatchedIsBacked
    BY DEF DispatchedIsBacked, PipelineTypeOK, ReceiptsOwned,
           Execution!ExecutionInductive
  <1> QED BY <1>1, DispatchInvariant, ReceiptsInvariant, PTL

\* A run that failed never has a result: receipts are stored only while the run
\* and its channels are acquiring (persistPublicLiteResultReceipt).
THEOREM ResultsOfAcquiringRuns == PipelineSpec => []ResultsBelongToAcquiringRuns
  <1>1. PipelineSpec => [][HandoffProofs!HandoffNext]_(HandoffProofs!handoffVars)
    <2>1. [Handoff!HandoffNext]_(Handoff!handoffVars)
            => [HandoffProofs!HandoffNext]_(HandoffProofs!handoffVars)
      BY HandoffInstances
    <2> QED
      BY <2>1, PipelineIsHandoff, PTL DEF ImplementsHandoff, Handoff!HandoffSpec
  <1>2. PipelineSpec => HandoffProofs!HandoffInit
    BY HandoffInstances DEF PipelineSpec, PipelineInit
  <1>3. PipelineSpec => []HandoffProofs!ResultsAgree
    BY <1>1, <1>2, PartAssumptions, HandoffProofs!ResultsOfOneTime, PTL
    DEF HandoffProofs!HandoffSpec
  <1>4. Execution!ExecutionInductive /\ Handoff!ResultsAgree
          => ResultsBelongToAcquiringRuns
    BY DEF Execution!ExecutionInductive, Execution!BundleConsistent,
           Handoff!ResultsAgree, ResultsBelongToAcquiringRuns, ExecutionStatus
  <1>5. HandoffProofs!ResultsAgree => Handoff!ResultsAgree
    BY HandoffInstances
  <1> QED BY <1>3, <1>4, <1>5, DispatchInvariant, PTL
=============================================================================
