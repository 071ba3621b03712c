---------------------- MODULE PublicLiteExecutionProofs ----------------------
(***************************************************************************)
(* Theorems about PublicLiteExecution, for every set of channels and       *)
(* invocations and every attempt limit.                                    *)
(***************************************************************************)
EXTENDS PublicLiteExecution, TLAPS

-----------------------------------------------------------------------------
(* Types.                                                                  *)

\* Before any delivery the documents have their declared types.
LEMMA InitTypes == ExecutionInit => ExecutionTypeOK
  BY ExecutionAssumption
  DEF ExecutionInit, ExecutionTypeOK, ChannelDocuments, ExecutionDocuments,
      InvocationStates, Idle, RunStatuses, ChannelStatuses, ExecutionStatuses,
      Leases, Pcs, Answers

\* However a handler ends, its invocation is idle and the event well-typed.
LEMMA EndTypes ==
  ASSUME ExecutionTypeOK, NEW i \in Invocations, ReturnNormally(i) \/ Throw(i)
  PROVE  inv' \in InvocationStates /\ event' \in {"pending", "acked"}
  BY ExecutionAssumption
  DEF ExecutionTypeOK, InvocationStates, ReturnNormally, Throw, Idle, Pcs

\* Moving an invocation to its next await keeps the invocations well-typed.
LEMMA GotoTypes ==
  ASSUME ExecutionTypeOK, NEW i \in Invocations, NEW pc \in Pcs, Goto(i, pc)
  PROVE  inv' \in InvocationStates
  BY DEF ExecutionTypeOK, InvocationStates, Goto

\* Writing one status to every channel keeps the documents well-typed.
LEMMA SetChannelsTypes ==
  ASSUME ExecutionTypeOK, NEW status \in ChannelStatuses, SetChannels(status)
  PROVE  channel' \in ChannelDocuments
  BY DEF ExecutionTypeOK, ChannelDocuments, SetChannels

\* No step of a handler stores a value its document does not declare.
LEMMA TypesPreserved ==
  ASSUME ExecutionTypeOK, [ExecutionNext]_execVars
  PROVE  ExecutionTypeOK'
  <1>1. ASSUME NEW i \in Invocations, Deliver(i) PROVE ExecutionTypeOK'
    <2>1. inv' \in InvocationStates
      BY <1>1, GotoTypes DEF Deliver, Pcs
    <2> QED BY <1>1, <2>1 DEF Deliver, ExecutionTypeOK
  <1>2. ASSUME NEW i \in Invocations, Prepare(i) PROVE ExecutionTypeOK'
    <2>1. inv' \in InvocationStates /\ event' \in {"pending", "acked"}
      BY <1>2, GotoTypes, EndTypes
      DEF Prepare, PrepareCreates, PrepareReplays, Pcs,
          ExecutionTypeOK
    <2>2. exec' \in ExecutionDocuments
      BY <1>2
      DEF Prepare, PrepareCreates, PrepareReplays,
          ExecutionTypeOK, ExecutionDocuments, ExecutionStatuses
    <2> QED
      BY <1>2, <2>1, <2>2
      DEF Prepare, PrepareCreates, PrepareReplays, ExecutionTypeOK
  <1>3. ASSUME NEW i \in Invocations, Queue(i) PROVE ExecutionTypeOK'
    <2>1. CASE QueueValidates(i)
      <3>1. inv' \in InvocationStates
        BY <2>1, GotoTypes DEF QueueValidates, Pcs
      <3> QED BY <2>1, <3>1 DEF QueueValidates, ExecutionTypeOK, RunStatuses
    <2>2. CASE QueueCommits(i)
      <3>1. inv' \in InvocationStates
        BY <2>2, GotoTypes DEF QueueCommits, Pcs
      <3>2. channel' \in ChannelDocuments
        BY <2>2, SetChannelsTypes
        DEF QueueCommits, ChannelStatuses, ExecutionTypeOK
      <3> QED
        BY <2>2, <3>1, <3>2 DEF QueueCommits, ExecutionTypeOK, RunStatuses
    <2>3. CASE QueueRefuses(i) \/ QueueConflicts(i)
      <3>1. inv' \in InvocationStates /\ event' \in {"pending", "acked"}
        BY <2>3, EndTypes DEF QueueRefuses, QueueConflicts
      <3> QED
        BY <2>3, <3>1 DEF QueueRefuses, QueueConflicts, ExecutionTypeOK
    <2> QED BY <1>3, <2>1, <2>2, <2>3 DEF Queue
  <1>4. ASSUME NEW i \in Invocations, Claim(i) PROVE ExecutionTypeOK'
    <2>1. CASE ClaimFindsSettled(i) \/ ClaimRequiresQueued(i) \/ ClaimFindsLease(i)
      <3>1. inv' \in InvocationStates /\ event' \in {"pending", "acked"}
        BY <2>1, EndTypes
        DEF ClaimFindsSettled, ClaimRequiresQueued, ClaimFindsLease
      <3> QED
        BY <2>1, <3>1
        DEF ClaimFindsSettled, ClaimRequiresQueued, ClaimFindsLease,
            ExecutionTypeOK
    <2>2. CASE ClaimExhausts(i)
      <3>1. inv' \in InvocationStates /\ event' \in {"pending", "acked"}
        BY <2>2, EndTypes DEF ClaimExhausts
      <3>2. exec' \in ExecutionDocuments
        BY <2>2
        DEF ClaimExhausts, ExecutionTypeOK, ExecutionDocuments,
            ExecutionStatuses, Leases
      <3>3. channel' \in ChannelDocuments
        BY <2>2
        DEF ClaimExhausts, ExecutionTypeOK, ChannelDocuments, ChannelStatuses
      <3> QED
        BY <2>2, <3>1, <3>2, <3>3 DEF ClaimExhausts, ExecutionTypeOK, RunStatuses
    <2>3. CASE ClaimDispatch(i)
      <3>1. exec.attemptCount + 1 \in 0..MaxAttempts
        BY <2>3, ExecutionAssumption
        DEF ClaimDispatch, ExecutionTypeOK, ExecutionDocuments
      <3>2. exec' \in ExecutionDocuments
        BY <2>3, <3>1
        DEF ClaimDispatch, ExecutionTypeOK, ExecutionDocuments,
            ExecutionStatuses, Leases
      <3>3. inv' \in InvocationStates
        BY <2>3, <3>1, ZenonT(30)
        DEF ClaimDispatch, ExecutionTypeOK, InvocationStates, Pcs
      <3> QED BY <2>3, <3>2, <3>3 DEF ClaimDispatch, ExecutionTypeOK
    <2> QED BY <1>4, <2>1, <2>2, <2>3 DEF Claim
  <1>5. ASSUME NEW i \in Invocations, NEW answer \in Answers,
               GatewayAnswers(i, answer)
        PROVE ExecutionTypeOK'
    <2>1. inv' \in InvocationStates
      BY <1>5, ZenonT(30)
      DEF GatewayAnswers, ExecutionTypeOK, InvocationStates, Pcs
    <2> QED BY <1>5, <2>1 DEF GatewayAnswers, ExecutionTypeOK
  <1>6. ASSUME NEW i \in Invocations, Mark(i) PROVE ExecutionTypeOK'
    <2>1. inv' \in InvocationStates /\ event' \in {"pending", "acked"}
      BY <1>6, EndTypes
      DEF Mark, MarkDispatchSucceeded, MarkReplaysSuccess, MarkDispatchFailed,
          MarkReplaysFailure, MarkConflicts, ReportFailure
    <2>2. CASE MarkDispatchSucceeded(i)
      <3>1. exec' \in ExecutionDocuments
        BY <2>2
        DEF MarkDispatchSucceeded, ExecutionTypeOK, ExecutionDocuments,
            ExecutionStatuses, Leases
      <3>2. inv[i].attempt \in 0..MaxAttempts
        BY DEF ExecutionTypeOK, InvocationStates
      <3>3. channel' \in ChannelDocuments
        BY <2>2, <3>2
        DEF MarkDispatchSucceeded, ChannelDocuments, ChannelStatuses
      <3> QED
        BY <2>1, <2>2, <3>1, <3>3
        DEF MarkDispatchSucceeded, ExecutionTypeOK, RunStatuses
    <2>3. CASE MarkDispatchFailed(i)
      <3>1. exec' \in ExecutionDocuments
        BY <2>3
        DEF MarkDispatchFailed, FailedStatus, ExecutionTypeOK,
            ExecutionDocuments, ExecutionStatuses, Leases
      <3>2. channel' \in ChannelDocuments
        BY <2>3, SetChannelsTypes DEF MarkDispatchFailed, ChannelStatuses
      <3> QED
        BY <2>1, <2>3, <3>1, <3>2
        DEF MarkDispatchFailed, ExecutionTypeOK, RunStatuses
    <2>4. CASE MarkReplaysSuccess(i) \/ MarkReplaysFailure(i) \/ MarkConflicts(i)
      BY <2>1, <2>4
      DEF MarkReplaysSuccess, MarkReplaysFailure, MarkConflicts, ExecutionTypeOK
    <2> QED BY <1>6, <2>2, <2>3, <2>4 DEF Mark
  <1>7. ASSUME NEW i \in Invocations, Crash(i) PROVE ExecutionTypeOK'
    <2>1. inv' \in InvocationStates /\ event' \in {"pending", "acked"}
      BY <1>7, EndTypes DEF Crash
    <2> QED BY <1>7, <2>1, ExecutionAssumption DEF Crash, ExecutionTypeOK
  <1>8. CASE LeaseExpires
    BY <1>8 DEF LeaseExpires, ExecutionTypeOK, ExecutionDocuments, Leases
  <1>9. CASE UNCHANGED execVars
    BY <1>9 DEF execVars, ExecutionTypeOK
  <1> QED
    BY <1>1, <1>2, <1>3, <1>4, <1>5, <1>6, <1>7, <1>8, <1>9
    DEF ExecutionNext, Handler

\* Every state of the dispatch has the types its documents declare; above
\* all, no execution document counts more attempts than the limit
\* (claimDispatch, public_lite_execution_firestore_port.js:404).
THEOREM ExecutionTypes == ExecutionSpec => []ExecutionTypeOK
  BY InitTypes, TypesPreserved, PTL DEF ExecutionSpec

-----------------------------------------------------------------------------
(* The run bundle.                                                         *)

\* The steps that write no document of the bundle.
Quiet == UNCHANGED <<run, channel, exec>>

\* A run that was just created has a consistent bundle.
LEMMA BundleInit == ExecutionInit => BundleConsistent
  BY DEF ExecutionInit, BundleConsistent, AllChannels

\* A step that writes no document of the bundle keeps it consistent.
LEMMA BundleQuiet ==
  ASSUME BundleConsistent, Quiet
  PROVE  BundleConsistent'
  BY DEF BundleConsistent, Quiet, AllChannels, BundleQueued

\* The two transactions of queueExecution and the marks that write the
\* channels keep the run, the channels and the execution in agreement.
LEMMA BundlePreserved ==
  ASSUME ExecutionInductive, [ExecutionNext]_execVars
  PROVE  BundleConsistent'
  <1> USE DEF ExecutionInductive
  <1>1. ASSUME NEW i \in Invocations, Prepare(i) PROVE BundleConsistent'
    <2>1. CASE PrepareCreates(i)
      BY <2>1
      DEF PrepareCreates, BundleConsistent, AllChannels, BundleQueued,
          ExecutionTypeOK, ExecutionDocuments
    <2>2. CASE PrepareReplays(i)
      BY <2>2, BundleQuiet DEF PrepareReplays, Quiet
    <2> QED BY <1>1, <2>1, <2>2 DEF Prepare
  <1>2. ASSUME NEW i \in Invocations, Queue(i) PROVE BundleConsistent'
    <2>1. CASE QueueValidates(i)
      <3>1. exec.status # "absent"
        BY <2>1 DEF QueueValidates, ControlConsistent, At
      <3> QED
        BY <2>1, <3>1 DEF QueueValidates, BundleConsistent, AllChannels, BundleQueued
    <2>2. CASE QueueCommits(i)
      <3>1. exec.status # "absent"
        BY <2>2 DEF QueueCommits, ControlConsistent, At
      <3>2. CASE run \in {"queued", "validatingTarget"} /\ UNCHANGED channel
        BY <2>2, <3>1, <3>2
        DEF QueueCommits, BundleConsistent, AllChannels, BundleQueued
      <3>3. CASE run = "failedRetryable" /\ SetChannels("queued")
        <4>1. exec.status \notin {"prepared", "dispatching", "terminalFailure",
                                 "dispatched"}
          BY <3>3 DEF BundleConsistent, BundleQueued
        <4>2. run' = "queued" /\ AllChannels("queued")' /\ UNCHANGED exec
          BY <2>2, <3>3
          DEF QueueCommits, SetChannels, AllChannels, ExecutionTypeOK,
              ChannelDocuments
        <4> QED BY <3>1, <4>1, <4>2 DEF BundleConsistent, BundleQueued
      <3> QED BY <2>2, <3>2, <3>3 DEF QueueCommits
    <2>3. CASE QueueRefuses(i) \/ QueueConflicts(i)
      BY <2>3, BundleQuiet DEF QueueRefuses, QueueConflicts, Quiet
    <2> QED BY <1>2, <2>1, <2>2, <2>3 DEF Queue
  <1>3. ASSUME NEW i \in Invocations, Claim(i) PROVE BundleConsistent'
    <2>1. CASE ClaimExhausts(i) \/ ClaimDispatch(i)
      <3>1. exec \in ExecutionDocuments /\ channel \in ChannelDocuments
        BY DEF ExecutionTypeOK
      <3>2. AllChannels("queued") /\ run = "queued"
        BY <2>1, <3>1
        DEF ClaimExhausts, ClaimDispatch, Claimable, ExecutionSettled,
            BundleConsistent, BundleQueued, ControlConsistent, At,
            ExecutionDocuments, ExecutionStatuses
      <3>3. CASE ClaimDispatch(i)
        BY <3>1, <3>2, <3>3
        DEF ClaimDispatch, BundleConsistent, BundleQueued, AllChannels,
            ExecutionDocuments
      <3>4. CASE ClaimExhausts(i)
        <4>1. exec'.status = "terminalFailure" /\ run' = "failedTerminal"
          BY <3>1, <3>4 DEF ClaimExhausts, ExecutionDocuments
        <4>2. AllChannels("failedTerminal")'
          BY <3>1, <3>2, <3>4 DEF ClaimExhausts, AllChannels, ChannelDocuments
        <4> QED BY <4>1, <4>2 DEF BundleConsistent
      <3> QED BY <2>1, <3>3, <3>4
    <2>2. CASE ClaimFindsSettled(i) \/ ClaimRequiresQueued(i) \/ ClaimFindsLease(i)
      BY <2>2, BundleQuiet
      DEF ClaimFindsSettled, ClaimRequiresQueued, ClaimFindsLease, Quiet
    <2> QED BY <1>3, <2>1, <2>2 DEF Claim
  <1>4. ASSUME NEW i \in Invocations, Mark(i) PROVE BundleConsistent'
    <2>1. CASE MarkDispatchSucceeded(i)
      <3>1. exec'.status = "dispatched" /\ run' = "acquiring"
        BY <2>1 DEF MarkDispatchSucceeded, ExecutionTypeOK, ExecutionDocuments
      <3>2. exec'.attemptCount = inv[i].attempt
        BY <2>1
        DEF MarkDispatchSucceeded, LeaseMatches, ExecutionTypeOK,
            ExecutionDocuments
      <3> QED BY <2>1, <3>1, <3>2 DEF MarkDispatchSucceeded, BundleConsistent
    <2>2. CASE MarkDispatchFailed(i)
      <3>1. exec'.status = FailedStatus(i)
        BY <2>2 DEF MarkDispatchFailed, ExecutionTypeOK, ExecutionDocuments
      <3>2. ASSUME NEW status, SetChannels(status) PROVE AllChannels(status)'
        BY <3>2 DEF SetChannels, AllChannels, ExecutionTypeOK, ChannelDocuments
      <3> QED
        BY <2>2, <3>1, <3>2 DEF MarkDispatchFailed, FailedStatus, BundleConsistent
    <2>3. CASE MarkReplaysSuccess(i) \/ MarkReplaysFailure(i) \/ MarkConflicts(i)
      BY <2>3, BundleQuiet
      DEF MarkReplaysSuccess, MarkReplaysFailure, MarkConflicts, Quiet
    <2> QED BY <1>4, <2>1, <2>2, <2>3 DEF Mark
  <1>5. CASE LeaseExpires
    BY <1>5
    DEF LeaseExpires, BundleConsistent, BundleQueued, AllChannels,
        ExecutionTypeOK, ExecutionDocuments
  <1>6. ASSUME NEW i \in Invocations,
               \/ Deliver(i) \/ Crash(i)
               \/ \E answer \in Answers : GatewayAnswers(i, answer)
        PROVE BundleConsistent'
    BY <1>6, BundleQuiet DEF Deliver, Crash, GatewayAnswers, Quiet
  <1>7. CASE UNCHANGED execVars
    BY <1>7, BundleQuiet DEF execVars, Quiet
  <1> QED
    BY <1>1, <1>2, <1>3, <1>4, <1>5, <1>6, <1>7 DEF ExecutionNext, Handler

-----------------------------------------------------------------------------
(* Control and attempts.                                                   *)

\* No invocation is inside an attempt before the first claim.
LEMMA ControlInit == ExecutionInit => ControlConsistent /\ AttemptFence
  BY ExecutionAssumption
  DEF ExecutionInit, Idle, ControlConsistent, AttemptFence, InAttempt, At

\* A step that leaves the execution document alone, and moves one invocation
\* anywhere but into an attempt, once the execution exists anywhere but back.
LEMMA ControlQuiet ==
  ASSUME ExecutionInductive, NEW i \in Invocations, UNCHANGED exec,
         \/ ReturnNormally(i) \/ Throw(i)
         \/ \E pc \in {"prepare", "validate", "queue", "claim"} :
              Goto(i, pc) /\ (pc = "prepare" \/ exec.status # "absent")
  PROVE  ControlConsistent' /\ AttemptFence'
  <1> USE DEF ExecutionInductive, ExecutionTypeOK, InvocationStates
  <1>1. ASSUME NEW j \in Invocations, j # i PROVE inv'[j] = inv[j]
    BY <1>1 DEF ReturnNormally, Throw, Goto
  <1>2. inv'[i].pc \notin {"dispatch", "mark"}
    BY DEF ReturnNormally, Throw, Goto, Idle
  <1>3. inv'[i].attempt = 0 \/ inv'[i].attempt = inv[i].attempt
    BY DEF ReturnNormally, Throw, Goto, Idle
  <1>4. inv'[i].pc \in {"idle", "prepare"} \/ exec.status # "absent"
    BY DEF ReturnNormally, Throw, Goto, Idle
  <1>5. ControlConsistent'
    BY <1>1, <1>4 DEF ControlConsistent, At
  <1>6. exec.attemptCount \in Nat
    BY DEF ExecutionDocuments
  <1>7. \A j \in Invocations : inv'[j].attempt <= exec.attemptCount
    BY <1>1, <1>3, <1>6 DEF AttemptFence
  <1>8. \A j \in Invocations : InAttempt(j)' => j # i /\ InAttempt(j)
    BY <1>1, <1>2 DEF InAttempt
  <1>9. AttemptFence'
    BY <1>1, <1>7, <1>8 DEF AttemptFence
  <1> QED BY <1>5, <1>9

\* A step by which one invocation ends its attempt and goes idle while the
\* execution document keeps its attempt.
LEMMA FenceEnd ==
  ASSUME ExecutionInductive, NEW i \in Invocations,
         ReturnNormally(i) \/ Throw(i),
         exec'.attemptCount = exec.attemptCount,
         \/ inv[i].attempt = exec.attemptCount /\ InAttempt(i)
         \/ exec'.failureCode = "dispatch_attempts_exhausted"
  PROVE  AttemptFence'
  <1> USE DEF ExecutionInductive, ExecutionTypeOK, InvocationStates
  <1>1. ASSUME NEW j \in Invocations, j # i PROVE inv'[j] = inv[j]
    BY <1>1 DEF ReturnNormally, Throw
  <1>2. inv'[i] = Idle
    BY DEF ReturnNormally, Throw
  <1>3. exec.attemptCount \in Nat
    BY DEF ExecutionDocuments
  <1>4. \A j \in Invocations : inv'[j].attempt <= exec'.attemptCount
    BY <1>1, <1>2, <1>3 DEF AttemptFence, Idle
  <1>5. \A j \in Invocations : InAttempt(j)' => j # i /\ InAttempt(j)
    BY <1>1, <1>2 DEF InAttempt, Idle
  <1> QED BY <1>1, <1>4, <1>5 DEF AttemptFence

\* Claims and marks keep the lease, the attempt of its holder and the place
\* of every other invocation in agreement.
LEMMA ControlPreserved ==
  ASSUME ExecutionInductive, [ExecutionNext]_execVars
  PROVE  ControlConsistent' /\ AttemptFence'
  <1> USE DEF ExecutionInductive, ExecutionTypeOK
  <1>1. ASSUME NEW i \in Invocations, Deliver(i)
        PROVE  ControlConsistent' /\ AttemptFence'
    BY <1>1, ControlQuiet DEF Deliver
  <1>2. ASSUME NEW i \in Invocations, Prepare(i)
        PROVE  ControlConsistent' /\ AttemptFence'
    <2>1. CASE PrepareCreates(i)
      <3>1. /\ exec'.status = "prepared"
            /\ exec'.attemptCount = exec.attemptCount
            /\ exec'.lease = exec.lease
            /\ exec'.failureCode = exec.failureCode
        BY <2>1 DEF PrepareCreates, ExecutionDocuments
      <3>2. ControlConsistent'
        BY <2>1, <3>1 DEF PrepareCreates, ControlConsistent, At
      <3>3. \A j \in Invocations :
              /\ inv'[j].attempt = inv[j].attempt
              /\ InAttempt(j)' => InAttempt(j) /\ j # i
        BY <2>1 DEF PrepareCreates, Goto, InvocationStates, InAttempt
      <3>4. \A j \in Invocations : ~InAttempt(j)
        BY <2>1 DEF PrepareCreates, ControlConsistent, InAttempt, At
      <3>5. AttemptFence'
        BY <3>1, <3>3, <3>4 DEF AttemptFence
      <3> QED BY <3>2, <3>5
    <2>2. CASE PrepareReplays(i)
      BY <2>2, ControlQuiet DEF PrepareReplays
    <2> QED BY <1>2, <2>1, <2>2 DEF Prepare
  <1>3. ASSUME NEW i \in Invocations, Queue(i)
        PROVE  ControlConsistent' /\ AttemptFence'
    <2>1. exec.status # "absent" \/ QueueRefuses(i) \/ QueueConflicts(i)
      BY <1>3 DEF Queue, QueueValidates, QueueCommits, ControlConsistent, At
    <2> QED
      BY <1>3, <2>1, ControlQuiet
      DEF Queue, QueueValidates, QueueRefuses, QueueCommits, QueueConflicts
  <1>4. ASSUME NEW i \in Invocations, ClaimDispatch(i)
        PROVE  ControlConsistent' /\ AttemptFence'
    <2>1. exec.attemptCount \in Nat
      BY DEF ExecutionDocuments
    <2>2. /\ exec'.status = "dispatching"
          /\ exec'.attemptCount = exec.attemptCount + 1
          /\ exec'.lease = "live"
      BY <1>4 DEF ClaimDispatch, ExecutionDocuments
    <2>3. /\ inv'[i].attempt = exec.attemptCount + 1
          /\ \A j \in Invocations : j # i => inv'[j] = inv[j]
      BY <1>4 DEF ClaimDispatch, InvocationStates
    <2>4. \A j \in Invocations : inv[j].attempt \in Nat
      BY DEF InvocationStates
    <2>5. \A j \in Invocations :
            inv[j].attempt <= exec.attemptCount /\ inv[j].attempt # exec'.attemptCount
      BY <2>1, <2>2, <2>4 DEF AttemptFence
    <2>6. ControlConsistent'
      BY <2>2 DEF ControlConsistent
    <2>7. AttemptFence'
      BY <2>1, <2>2, <2>3, <2>4, <2>5 DEF AttemptFence, InAttempt
    <2> QED BY <2>6, <2>7
  <1>5. ASSUME NEW i \in Invocations, ClaimExhausts(i)
        PROVE  ControlConsistent' /\ AttemptFence'
    <2>1. /\ exec'.status = "terminalFailure"
          /\ exec'.lease = "none"
          /\ exec'.failureCode = "dispatch_attempts_exhausted"
          /\ exec'.attemptCount = exec.attemptCount
      BY <1>5 DEF ClaimExhausts, ExecutionDocuments
    <2> QED BY <1>5, <2>1, FenceEnd DEF ClaimExhausts, ControlConsistent
  <1>6. ASSUME NEW i \in Invocations,
               \/ ClaimFindsSettled(i) \/ ClaimRequiresQueued(i)
               \/ ClaimFindsLease(i) \/ MarkReplaysSuccess(i)
               \/ MarkReplaysFailure(i) \/ MarkConflicts(i) \/ Crash(i)
        PROVE  ControlConsistent' /\ AttemptFence'
    BY <1>6, ControlQuiet
    DEF ClaimFindsSettled, ClaimRequiresQueued, ClaimFindsLease,
        MarkReplaysSuccess, MarkReplaysFailure, MarkConflicts, Crash, ReportFailure
  <1>7. ASSUME NEW i \in Invocations, NEW answer \in Answers,
               GatewayAnswers(i, answer)
        PROVE  ControlConsistent' /\ AttemptFence'
    <2>1. \A j \in Invocations :
            /\ inv'[j].attempt = inv[j].attempt
            /\ InAttempt(j)' <=> InAttempt(j)
            /\ inv'[j].pc # inv[j].pc => inv[j].pc = "dispatch"
      BY <1>7 DEF GatewayAnswers, InvocationStates, InAttempt, At
    <2>2. UNCHANGED exec
      BY <1>7 DEF GatewayAnswers
    <2> QED BY <2>1, <2>2 DEF ControlConsistent, AttemptFence, At
  <1>8. ASSUME NEW i \in Invocations,
               MarkDispatchSucceeded(i) \/ MarkDispatchFailed(i)
        PROVE  ControlConsistent' /\ AttemptFence'
    <2>1. /\ exec'.attemptCount = exec.attemptCount
          /\ exec'.lease = "none"
      BY <1>8 DEF MarkDispatchSucceeded, MarkDispatchFailed, ExecutionDocuments
    <2>2. exec.attemptCount = inv[i].attempt /\ InAttempt(i)
      BY <1>8
      DEF MarkDispatchSucceeded, MarkDispatchFailed, LeaseMatches, Marks, At,
          InAttempt
    <2>3. \/ exec'.status \in {"dispatched", "terminalFailure"}
          \/ /\ exec'.status = "retryableFailure"
             /\ exec'.attemptCount < MaxAttempts
      BY <1>8, <2>1, <2>2
      DEF MarkDispatchSucceeded, MarkDispatchFailed, FailedStatus, Retryable,
          ExecutionDocuments
    <2>4. ControlConsistent'
      BY <2>1, <2>3 DEF ControlConsistent
    <2>5. AttemptFence'
      BY <1>8, <2>1, <2>2, FenceEnd
      DEF MarkDispatchSucceeded, MarkDispatchFailed, ReportFailure
    <2> QED BY <2>4, <2>5
  <1>9. CASE LeaseExpires
    <2>1. /\ UNCHANGED inv
          /\ exec'.status = exec.status
          /\ exec'.attemptCount = exec.attemptCount
          /\ exec'.failureCode = exec.failureCode
          /\ exec.lease # "none" /\ exec'.lease # "none"
      BY <1>9 DEF LeaseExpires, ExecutionDocuments
    <2> QED BY <2>1 DEF ControlConsistent, AttemptFence, InAttempt, At
  <1>10. CASE UNCHANGED execVars
    BY <1>10 DEF execVars, ControlConsistent, AttemptFence, InAttempt, At
  <1> QED
    BY <1>1, <1>2, <1>3, <1>4, <1>5, <1>6, <1>7, <1>8, <1>9, <1>10
    DEF ExecutionNext, Handler, Claim, Mark

-----------------------------------------------------------------------------
(* The theorems.                                                           *)

\* The invariant all the others follow from: types, bundle, fence and
\* control, each needed to keep the others.
THEOREM ExecutionInvariant == ExecutionSpec => []ExecutionInductive
  <1>1. ExecutionInit => ExecutionInductive
    BY InitTypes, BundleInit, ControlInit DEF ExecutionInductive
  <1>2. ExecutionInductive /\ [ExecutionNext]_execVars => ExecutionInductive'
    BY TypesPreserved, BundlePreserved, ControlPreserved DEF ExecutionInductive
  <1> QED BY <1>1, <1>2, PTL DEF ExecutionSpec

\* The run, its channels and the execution document agree in every reachable
\* state (queueExecution, claimDispatch, markDispatchSucceeded,
\* markDispatchFailed of public_lite_execution_firestore_port.js).
THEOREM BundleAgrees == ExecutionSpec => []BundleConsistent
  BY ExecutionInvariant, PTL DEF ExecutionInductive

\* The attempt number fences stale invocations although every delivery shares
\* the lease owner (assertLeaseMatch,
\* public_lite_execution_firestore_port.js:234).
THEOREM AttemptsFenced == ExecutionSpec => []AttemptFence
  BY ExecutionInvariant, PTL DEF ExecutionInductive

\* No single step rewrites a receipt or a final failure.
LEMMA SettledStep ==
  ASSUME ExecutionInductive, [ExecutionNext]_execVars, ExecutionSettled
  PROVE  UNCHANGED <<exec, run, channel>>
  <1> USE DEF ExecutionInductive, ExecutionSettled
  <1>1. run \in {"acquiring", "failedTerminal"}
    BY DEF BundleConsistent, ControlConsistent
  <1>2. exec.lease = "none"
    BY DEF ControlConsistent
  <1>3. ASSUME NEW i \in Invocations, Prepare(i) \/ Queue(i)
        PROVE  UNCHANGED <<exec, run, channel>>
    BY <1>1, <1>3
    DEF Prepare, PrepareCreates, PrepareReplays, Queue,
        QueueValidates, QueueRefuses, QueueCommits, QueueConflicts
  <1>4. ASSUME NEW i \in Invocations, Claim(i)
        PROVE  UNCHANGED <<exec, run, channel>>
    BY <1>4
    DEF Claim, ClaimFindsSettled, ClaimRequiresQueued, ClaimFindsLease,
        ClaimExhausts, ClaimDispatch, Claimable
  <1>5. ASSUME NEW i \in Invocations, Mark(i)
        PROVE  UNCHANGED <<exec, run, channel>>
    BY <1>5
    DEF Mark, MarkDispatchSucceeded, MarkReplaysSuccess, MarkDispatchFailed,
        MarkReplaysFailure, MarkConflicts, LeaseMatches
  <1>6. ASSUME NEW i \in Invocations,
               \/ Deliver(i) \/ Crash(i)
               \/ \E answer \in Answers : GatewayAnswers(i, answer)
        PROVE  UNCHANGED <<exec, run, channel>>
    BY <1>6 DEF Deliver, Crash, GatewayAnswers
  <1>7. ~LeaseExpires
    BY <1>2 DEF LeaseExpires
  <1>8. CASE UNCHANGED execVars
    BY <1>8 DEF execVars
  <1> QED BY <1>3, <1>4, <1>5, <1>6, <1>7, <1>8 DEF ExecutionNext, Handler

\* A stored receipt or final failure is never overwritten, whatever is
\* redelivered (claimDispatch and the two marks,
\* public_lite_execution_firestore_port.js:355-557).
THEOREM SettledStays == ExecutionSpec => SettledIsFinal
  <1>1. ExecutionInductive /\ [ExecutionNext]_execVars
          => [ExecutionSettled => UNCHANGED <<exec, run, channel>>]_execVars
    BY SettledStep
  <1> QED BY <1>1, ExecutionInvariant, PTL DEF ExecutionSpec, SettledIsFinal

\* What a step makes of the three documents, in the terms of the tables.
LEMMA TransitionStep ==
  ASSUME ExecutionInductive, [ExecutionNext]_execVars
  PROVE  /\ Follows(runTransitions, run, run')
         /\ \A c \in Channels : Follows(channelTransitions,
                                        channel[c].status, channel'[c].status)
         /\ exec.status # "absent" =>
              Follows(executionTransitions, exec.status, exec'.status)
  <1> USE DEF ExecutionInductive, ExecutionTypeOK
  <1> DEFINE Tables ==
        /\ Follows(runTransitions, run, run')
        /\ \A c \in Channels : Follows(channelTransitions,
                                       channel[c].status, channel'[c].status)
        /\ exec.status # "absent" =>
             Follows(executionTransitions, exec.status, exec'.status)
  <1>1. /\ "validatingTarget" \in runTransitions["created"]
        /\ "queued" \in runTransitions["validatingTarget"]
        /\ "queued" \in runTransitions["failedRetryable"]
        /\ {"acquiring", "failedRetryable", "failedTerminal"}
             \subseteq runTransitions["queued"]
    BY DEF runTransitions, RunStatuses, RunExits
  <1>2. /\ "queued" \in channelTransitions["failedRetryable"]
        /\ {"acquiring", "failedRetryable", "failedTerminal"}
             \subseteq channelTransitions["queued"]
    BY DEF channelTransitions, ChannelStatuses
  <1>3. /\ {"dispatching", "terminalFailure"}
             \subseteq executionTransitions["prepared"]
        /\ {"dispatching", "terminalFailure"}
             \subseteq executionTransitions["retryableFailure"]
        /\ {"dispatched", "retryableFailure", "terminalFailure"}
             \subseteq executionTransitions["dispatching"]
    BY DEF executionTransitions, ExecutionStatuses
  <1>4. ASSUME UNCHANGED <<run, channel>>,
               exec.status \in {"absent", exec'.status}
        PROVE  Tables
    BY <1>4 DEF Follows
  <1>5. ASSUME NEW i \in Invocations, QueueValidates(i) PROVE Tables
    BY <1>1, <1>5 DEF QueueValidates, Follows
  <1>6. ASSUME NEW i \in Invocations, QueueCommits(i) PROVE Tables
    BY <1>1, <1>2, <1>6
    DEF QueueCommits, RetryChannelsConsistent, SetChannels, Follows,
        ChannelDocuments
  <1>7. ASSUME NEW i \in Invocations, Claimable(i)
        PROVE  /\ run = "queued" /\ AllChannels("queued")
               /\ exec.status \in {"prepared", "retryableFailure", "dispatching"}
    BY <1>7
    DEF Claimable, ExecutionSettled, BundleConsistent, BundleQueued,
        ControlConsistent, At, ExecutionDocuments, ExecutionStatuses
  <1>8. ASSUME NEW i \in Invocations, ClaimDispatch(i) PROVE Tables
    BY <1>3, <1>7, <1>8 DEF ClaimDispatch, Follows, ExecutionDocuments
  <1>9. ASSUME NEW i \in Invocations, ClaimExhausts(i) PROVE Tables
    <2>1. run' = "failedTerminal" /\ exec'.status = "terminalFailure"
      BY <1>9 DEF ClaimExhausts, ExecutionDocuments
    <2>2. \A c \in Channels : channel'[c].status = "failedTerminal"
      BY <1>7, <1>9 DEF ClaimExhausts, AllChannels, ChannelDocuments
    <2>3. Claimable(i)
      BY <1>9 DEF ClaimExhausts
    <2> QED
      BY <1>1, <1>2, <1>3, <1>7, <2>1, <2>2, <2>3 DEF AllChannels, Follows
  <1>10. ASSUME NEW i \in Invocations, MarkDispatchSucceeded(i) PROVE Tables
    <2>1. /\ run' = "acquiring" /\ exec'.status = "dispatched"
          /\ \A c \in Channels : channel'[c].status = "acquiring"
      BY <1>10 DEF MarkDispatchSucceeded, ExecutionDocuments
    <2>2. BundleQueued /\ exec.status = "dispatching"
      BY <1>10 DEF MarkDispatchSucceeded, LeaseMatches
    <2> QED
      BY <1>1, <1>2, <1>3, <2>1, <2>2 DEF BundleQueued, AllChannels, Follows
  <1>11. ASSUME NEW i \in Invocations, MarkDispatchFailed(i) PROVE Tables
    <2>1. exec'.status = FailedStatus(i)
      BY <1>11 DEF MarkDispatchFailed, ExecutionDocuments
    <2>2. PICK bundle \in {"failedRetryable", "failedTerminal"} :
            run' = bundle /\ SetChannels(bundle)
      BY <1>11 DEF MarkDispatchFailed
    <2>3. \A c \in Channels : channel'[c].status = bundle
      BY <2>2 DEF SetChannels, ChannelDocuments
    <2>4. BundleQueued /\ exec.status = "dispatching"
      BY <1>11 DEF MarkDispatchFailed, LeaseMatches
    <2> QED
      BY <1>1, <1>2, <1>3, <2>1, <2>2, <2>3, <2>4
      DEF FailedStatus, BundleQueued, AllChannels, Follows
  <1>12. ASSUME NEW i \in Invocations,
                \/ Deliver(i) \/ Prepare(i) \/ QueueRefuses(i)
                \/ QueueConflicts(i) \/ Crash(i)
                \/ ClaimFindsSettled(i) \/ ClaimRequiresQueued(i)
                \/ ClaimFindsLease(i) \/ MarkReplaysSuccess(i)
                \/ MarkReplaysFailure(i) \/ MarkConflicts(i)
                \/ \E answer \in Answers : GatewayAnswers(i, answer)
         PROVE  Tables
    BY <1>4, <1>12
    DEF Deliver, Prepare, PrepareCreates, PrepareReplays,
        QueueRefuses, QueueConflicts, Crash, ClaimFindsSettled,
        ClaimRequiresQueued, ClaimFindsLease, MarkReplaysSuccess,
        MarkReplaysFailure, MarkConflicts, GatewayAnswers
  <1>13. CASE LeaseExpires
    BY <1>4, <1>13 DEF LeaseExpires, ExecutionDocuments
  <1>14. CASE UNCHANGED execVars
    BY <1>4, <1>14 DEF execVars
  <1> QED
    BY <1>5, <1>6, <1>8, <1>9, <1>10, <1>11, <1>12, <1>13, <1>14
    DEF ExecutionNext, Handler, Queue, Claim, Mark

\* The transition assertions of updateRunDocument, updateChannelDocument and
\* updateExecutionDocument (public_lite_execution_firestore_port.js:200-232)
\* never abort a transaction of a delivery.
THEOREM TransitionsFollowTables == ExecutionSpec => TransitionsAllowed
  <1>1. ExecutionInductive /\ [ExecutionNext]_execVars
          => [/\ Follows(runTransitions, run, run')
              /\ \A c \in Channels : Follows(channelTransitions,
                                             channel[c].status, channel'[c].status)
              /\ exec.status # "absent" =>
                   Follows(executionTransitions, exec.status, exec'.status)]_execVars
    BY TransitionStep
  <1> QED BY <1>1, ExecutionInvariant, PTL DEF ExecutionSpec, TransitionsAllowed

-----------------------------------------------------------------------------
(* Refinement of the dispatch ledger.                                      *)

\* An execution that does not exist yet is a ledger that is not open yet.
LEMMA LedgerInitially == ExecutionInit => Ledger!LedgerInit
  BY DEF ExecutionInit, Ledger!LedgerInit, LedgerPhase

\* Steps of the execution document, told by its status and attempts alone.
LEMMA LedgerStep ==
  ASSUME ExecutionInductive, [ExecutionNext]_execVars
  PROVE  [Ledger!LedgerNext]_(Ledger!ledger)
  <1> USE DEF ExecutionInductive, ExecutionTypeOK
  <1> DEFINE Same == exec'.attemptCount = exec.attemptCount
  <1>1. ASSUME NEW i \in Invocations, Prepare(i)
        PROVE  UNCHANGED Ledger!ledger
    BY <1>1
    DEF Prepare, PrepareCreates, PrepareReplays, Ledger!ledger,
        LedgerPhase, ExecutionDocuments
  <1>2. ASSUME NEW i \in Invocations, ClaimDispatch(i)
        PROVE  Ledger!Acquire
    <2>1. exec'.status = "dispatching" /\ exec'.attemptCount = exec.attemptCount + 1
      BY <1>2 DEF ClaimDispatch, ExecutionDocuments
    <2>2. exec.attemptCount < MaxAttempts
      BY <1>2, ExecutionAssumption DEF ClaimDispatch, ExecutionDocuments
    <2>3. LedgerPhase \in {"open", "held"}
      BY <1>2 DEF ClaimDispatch, Claimable, ExecutionSettled, LedgerPhase
    <2> QED BY <2>1, <2>2, <2>3 DEF Ledger!Acquire, LedgerPhase
  <1>3. ASSUME NEW i \in Invocations, ClaimExhausts(i)
        PROVE  Ledger!Abandon
    <2>1. exec'.status = "terminalFailure" /\ Same
      BY <1>3 DEF ClaimExhausts, ExecutionDocuments
    <2>2. exec.status = "dispatching"
      BY <1>3, ExecutionAssumption
      DEF ClaimExhausts, Claimable, ExecutionSettled, ControlConsistent,
          ExecutionDocuments, ExecutionStatuses
    <2> QED BY <2>1, <2>2 DEF Ledger!Abandon, LedgerPhase
  <1>4. ASSUME NEW i \in Invocations, MarkDispatchSucceeded(i)
        PROVE  Ledger!Accept
    <2>1. exec'.status = "dispatched" /\ Same
      BY <1>4 DEF MarkDispatchSucceeded, ExecutionDocuments
    <2> QED
      BY <1>4, <2>1
      DEF MarkDispatchSucceeded, LeaseMatches, Ledger!Accept, LedgerPhase
  <1>5. ASSUME NEW i \in Invocations, MarkDispatchFailed(i)
        PROVE  Ledger!Release \/ Ledger!Abandon
    <2>1. exec'.status = FailedStatus(i) /\ Same
      BY <1>5 DEF MarkDispatchFailed, ExecutionDocuments
    <2>2. exec.status = "dispatching" /\ exec.attemptCount = inv[i].attempt
      BY <1>5 DEF MarkDispatchFailed, LeaseMatches
    <2>3. CASE Retryable(i)
      BY <2>1, <2>2, <2>3 DEF FailedStatus, Retryable, Ledger!Release, LedgerPhase
    <2>4. CASE ~Retryable(i)
      BY <2>1, <2>2, <2>4 DEF FailedStatus, Ledger!Abandon, LedgerPhase
    <2> QED BY <2>3, <2>4
  <1>6. CASE LeaseExpires
    BY <1>6 DEF LeaseExpires, Ledger!ledger, LedgerPhase, ExecutionDocuments
  <1>7. ASSUME UNCHANGED exec
        PROVE  UNCHANGED Ledger!ledger
    BY <1>7 DEF Ledger!ledger, LedgerPhase
  <1>8. ASSUME NEW i \in Invocations,
               \/ Deliver(i) \/ Queue(i) \/ Crash(i)
               \/ ClaimFindsSettled(i) \/ ClaimRequiresQueued(i)
               \/ ClaimFindsLease(i) \/ MarkReplaysSuccess(i)
               \/ MarkReplaysFailure(i) \/ MarkConflicts(i)
               \/ \E answer \in Answers : GatewayAnswers(i, answer)
        PROVE  UNCHANGED exec
    BY <1>8
    DEF Deliver, Queue, QueueValidates, QueueRefuses, QueueCommits,
        QueueConflicts, Crash, ClaimFindsSettled, ClaimRequiresQueued,
        ClaimFindsLease, MarkReplaysSuccess, MarkReplaysFailure, MarkConflicts,
        GatewayAnswers
  <1>9. CASE UNCHANGED execVars
    BY <1>7, <1>9 DEF execVars
  <1> QED
    BY <1>1, <1>2, <1>3, <1>4, <1>5, <1>6, <1>7, <1>8, <1>9
    DEF ExecutionNext, Handler, Claim, Mark, Ledger!LedgerNext

\* The execution document is a dispatch ledger: it is accepted at most once,
\* by the attempt that holds it, after at most MaxAttempts attempts.
THEOREM ExecutionIsLedger == ExecutionSpec => ImplementsLedger
  BY LedgerInitially, LedgerStep, ExecutionInvariant, PTL
  DEF ExecutionSpec, ImplementsLedger, Ledger!LedgerSpec
=============================================================================
