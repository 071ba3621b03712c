------------------------- MODULE PublicLitePipeline -------------------------
(***************************************************************************)
(* One run through the whole pipeline: the dispatch of PublicLiteExecution *)
(* and the handoff of PublicLiteHandoff, joined by the n8n gateway.        *)
(*                                                                         *)
(* Every dispatch attempt is one HTTP request and starts one gateway       *)
(* execution.  The gateway has the handoff persisted and builds its        *)
(* receipt from the answer; the request may be lost or arrive after its    *)
(* sender gave up, and so may the receipt.                                 *)
(***************************************************************************)
EXTENDS Naturals, FiniteSets

CONSTANTS
    Channels, Invocations, DispatchAttempts, MaxCrashes, Duplicates,
    Triggers, Reconciler, ProviderEvents, CompletionTimes, ChildAttempts,
    MaxCutOffs

\* What the two parts assume of their constants.
ASSUME PipelineAssumption ==
    /\ Channels # {}
    /\ {DispatchAttempts, ChildAttempts} \subseteq Nat \ {0}
    /\ {MaxCrashes, MaxCutOffs} \subseteq Nat
    /\ Duplicates \in BOOLEAN
    /\ Reconciler \notin Triggers
    /\ "none" \notin CompletionTimes

VARIABLES
    run, channel, exec, runEvent, inv, crashes,             \* dispatch
    handoff, child, receipts, handoffEvent, worker, batch,  \* handoff
    cutOffs,
    call,       \* gateway execution of each dispatch attempt
    gatewayId   \* gatewayExecutionId of the handoff document, 0 before it

dispatchVars == <<run, channel, exec, runEvent, inv, crashes>>
acquisitionVars ==
    <<handoff, child, receipts, handoffEvent, worker, batch, cutOffs>>
gatewayVars == <<call, gatewayId>>
pipelineVars == <<dispatchVars, acquisitionVars, gatewayVars>>

TheExecution == "execution"

\* The status the handoff ports read; before the document exists no one asks.
ExecutionStatus ==
    [e \in {TheExecution} |->
       IF exec.status = "absent" THEN "prepared" ELSE exec.status]

Execution == INSTANCE PublicLiteExecution
    WITH event <- runEvent, MaxAttempts <- DispatchAttempts

Handoff == INSTANCE PublicLiteHandoff
    WITH execution <- ExecutionStatus, event <- handoffEvent,
         crashes <- cutOffs, Executions <- {TheExecution},
         MaxAttempts <- ChildAttempts, MaxCrashes <- MaxCutOffs

\* A gateway execution: not started, request on its way, receipt ready to be
\* sent back, or failed, because persistence did not answer 200 or because the
\* persisted handoff names another gateway execution.
Calls == {"none", "sent", "receipt", "failed", "mismatch"}

PipelineTypeOK ==
    /\ Execution!ExecutionTypeOK
    /\ Handoff!HandoffTypeOK
    /\ call \in [1..DispatchAttempts -> Calls]
    /\ gatewayId \in 0..DispatchAttempts

PipelineInit ==
    /\ Execution!ExecutionInit
    /\ Handoff!HandoffInit
    /\ call = [a \in 1..DispatchAttempts |-> "none"]
    /\ gatewayId = 0

-----------------------------------------------------------------------------
(* Dispatch, up to the request.                                            *)

SendRequest(i) ==
    /\ Execution!ClaimDispatch(i)
    /\ call' = [call EXCEPT ![exec.attemptCount + 1] = "sent"]
    /\ UNCHANGED <<acquisitionVars, gatewayId>>

DispatchStep(i) ==
    /\ \/ Execution!Deliver(i) \/ Execution!Prepare(i) \/ Execution!Queue(i)
       \/ Execution!ClaimFindsSettled(i) \/ Execution!ClaimRequiresQueued(i)
       \/ Execution!ClaimFindsLease(i) \/ Execution!ClaimExhausts(i)
       \/ Execution!Mark(i) \/ Execution!Crash(i)
    /\ UNCHANGED <<acquisitionVars, gatewayVars>>

DispatchLeaseExpires ==
    /\ Execution!LeaseExpires
    /\ UNCHANGED <<acquisitionVars, gatewayVars>>

-----------------------------------------------------------------------------
(* The gateway.                                                            *)

\* The handoff is persisted for the first time.  The gateway still fails when
\* the answer of the endpoint is lost.
GatewayCreates(a, due) ==
    /\ call[a] = "sent"
    /\ UNCHANGED dispatchVars
    /\ Handoff!AcceptHandoff(TheExecution, due)
    /\ gatewayId' = a
    /\ \E c \in {"receipt", "failed"} : call' = [call EXCEPT ![a] = c]

\* Mutant of GatewayReplays: the gateway takes any stored receipt for its own.
GatewayReplaysAnyGateway(a) ==
    /\ call[a] = "sent"
    /\ handoff[TheExecution].state # "absent"
    /\ call' = [call EXCEPT ![a] = "receipt"]
    /\ UNCHANGED <<dispatchVars, acquisitionVars, gatewayId>>

\* The handoff exists: the endpoint returns it as it was stored, and the
\* gateway compares its gatewayExecutionId with its own.
GatewayReplays(a) ==
    /\ call[a] = "sent"
    /\ handoff[TheExecution].state # "absent"
    /\ call' = [call EXCEPT ![a] = IF gatewayId = a THEN "receipt" ELSE "mismatch"]
    /\ UNCHANGED <<dispatchVars, acquisitionVars, gatewayId>>

\* "new provider handoff requires a dispatching execution"
GatewayRejected(a) ==
    /\ call[a] = "sent"
    /\ handoff[TheExecution].state = "absent"
    /\ exec.status # "dispatching"
    /\ call' = [call EXCEPT ![a] = "failed"]
    /\ UNCHANGED <<dispatchVars, acquisitionVars, gatewayId>>

\* Mutant of ReceiptSent: the gateway answers 202 before it has persisted.
ReceiptSentEarly(a) == call[a] \in {"receipt", "sent"}

ReceiptSent(a) == call[a] = "receipt"

\* The dispatcher's view: a receipt; a timeout, a lost answer or the gateway's
\* 500; or a webhook that refuses the request, which then starts nothing.
Answer(i) ==
    LET a == inv[i].attempt IN
    /\ Execution!At(i, "dispatch")
    /\ \/ ReceiptSent(a) /\ Execution!GatewayAnswers(i, "receipt") /\ UNCHANGED call
       \/ Execution!GatewayAnswers(i, "unavailable") /\ UNCHANGED call
       \/ /\ Execution!GatewayAnswers(i, "refused")
          /\ call[a] = "sent"
          /\ call' = [call EXCEPT ![a] = "failed"]
    /\ UNCHANGED <<acquisitionVars, gatewayId>>

-----------------------------------------------------------------------------
(* The handoff.                                                            *)

HandoffStep ==
    /\ UNCHANGED <<dispatchVars, gatewayVars>>
    /\ \/ Handoff!ResultArrives(TheExecution)
       \/ Handoff!Elapses(TheExecution)
       \/ \E w \in Triggers : \/ Handoff!DeliverAccepted(w, TheExecution)
                              \/ Handoff!Dispatch(w)
       \/ Handoff!Reconcile
       \/ \E w \in Handoff!Workers : Handoff!CutOff(w)

PipelineNext ==
    \/ \E i \in Invocations : SendRequest(i) \/ DispatchStep(i) \/ Answer(i)
    \/ DispatchLeaseExpires
    \/ \E a \in 1..DispatchAttempts :
         \/ \E due \in {"past", "future"} : GatewayCreates(a, due)
         \/ GatewayReplays(a)
         \/ GatewayRejected(a)
    \/ HandoffStep

PipelineSpec == PipelineInit /\ [][PipelineNext]_pipelineVars

-----------------------------------------------------------------------------
(* Properties.                                                             *)

\* "This parent workflow returns HTTP 202 only after the provider handoff is
\* durably accepted" (workflow_factory.js:2576): a dispatched execution has a
\* handoff, accepted through the very gateway execution of the attempt that
\* dispatched it, however late or often the requests of its attempts arrived.
\* The state is of its type.
DispatchedIsBacked ==
    /\ PipelineTypeOK
    /\ exec.status = "dispatched" =>
         /\ handoff[TheExecution].state # "absent"
         /\ gatewayId = exec.attemptCount

\* A result is stored only for a run that is acquiring; a run that failed
\* never has a result, although its handoff may have been accepted and its
\* child may run.
ResultsBelongToAcquiringRuns ==
    (\E p \in ProviderEvents : receipts[TheExecution][p] # "none") =>
      /\ run = "acquiring"
      /\ \A c \in Channels : channel[c].status = "acquiring"

\* The pipeline keeps to what PublicLiteHandoff assumes of the execution
\* around it, and otherwise takes its steps alone.
ImplementsHandoff == Handoff!HandoffSpec

\* Stated by the unit tests "exact replay converges despite another gateway
\* execution id" (risk_scan_public_lite_provider_handoff_firestore_unit.test.js:302)
\* and "exact replay may use a later gateway execution id"
\* (risk_scan_public_lite_provider_handoff_unit.test.js:206): a later gateway
\* execution that replays the acceptance gets its receipt.
ReplayConverges == \A a \in 1..DispatchAttempts : call[a] # "mismatch"

\* Stated by the failure that claimDispatch stores, "Dispatch attempts were
\* exhausted before provider acceptance."
\* (public_lite_execution_firestore_port.js:402).  Not kept by the
\* code: README.md, under "Disagreements".
ExhaustedBeforeAcceptance ==
    exec.failureCode = "dispatch_attempts_exhausted" =>
      handoff[TheExecution].state = "absent"
=============================================================================
