------------------------ MODULE PublicLiteHandoffProofs ------------------------
(***************************************************************************)
(* Theorems about PublicLiteHandoff, for every set of executions, triggers *)
(* and provider events and every attempt limit.                            *)
(***************************************************************************)
EXTENDS PublicLiteHandoff, TLAPS

-----------------------------------------------------------------------------
(* Types.                                                                  *)

\* Before anything is accepted the documents have their declared types.
LEMMA HandoffInitTypes == HandoffInit => HandoffTypeOK
  <1> SUFFICES ASSUME HandoffInit PROVE HandoffTypeOK
    OBVIOUS
  <1>1. Unaccepted \in HandoffDocuments
    BY HandoffAssumption DEF Unaccepted, HandoffDocuments, HandoffStates, DueTimes
  <1>2. Resting \in WorkerStates
    BY HandoffAssumption DEF Resting, WorkerStates, WorkerPcs
  <1> QED
    BY <1>1, <1>2, HandoffAssumption
    DEF HandoffInit, HandoffTypeOK, ExecutionStatuses

\* However the shared dispatch ends, its worker rests, every other worker
\* stays where it is, and the event is well-typed.
LEMMA WorkerEnds ==
  ASSUME HandoffTypeOK, NEW w \in Workers, Returned(w) \/ Threw(w)
  PROVE  /\ worker' \in [Workers -> WorkerStates]
         /\ event' \in [Executions -> {"absent", "pending", "acked"}]
         /\ worker'[w] = Resting
         /\ \A v \in Workers \ {w} : worker'[v] = worker[v]
  <1>1. Resting \in WorkerStates
    BY HandoffAssumption DEF Resting, WorkerStates, WorkerPcs
  <1> QED BY <1>1 DEF HandoffTypeOK, Returned, Threw

\* A worker that begins is at its claim, with no attempt of its own.
LEMMA WorkerBegins ==
  ASSUME HandoffTypeOK, NEW w \in Workers, NEW e \in Executions, Begin(w, e)
  PROVE  /\ worker' \in [Workers -> WorkerStates]
         /\ worker'[w].pc = "claim"
         /\ \A v \in Workers \ {w} : worker'[v] = worker[v]
  <1>1. [pc |-> "claim", execution |-> e, attempt |-> 0, answer |-> "none"]
          \in WorkerStates
    BY HandoffAssumption DEF WorkerStates, WorkerPcs
  <1> QED BY <1>1 DEF HandoffTypeOK, Begin

\* What a claim makes of the handoff and of its worker.
LEMMA ClaimEffect ==
  ASSUME HandoffTypeOK, NEW w \in Workers, ClaimChildDispatch(w)
  PROVE  LET e == worker[w].execution
             n == handoff[e].attemptCount + 1
         IN  /\ e \in Executions
             /\ n \in 1..MaxAttempts
             /\ handoff[e].state \in {"absent", "accepted", "failed",
                                      "child_dispatching"}
             /\ handoff' \in [Executions -> HandoffDocuments]
             /\ handoff'[e].state = "child_dispatching"
             /\ handoff'[e].attemptCount = n
             /\ handoff'[e].due = "future"
             /\ handoff'[e].completedAt = handoff[e].completedAt
             /\ \A f \in Executions \ {e} : handoff'[f] = handoff[f]
             /\ worker' \in [Workers -> WorkerStates]
             /\ worker'[w].execution = e
             /\ worker'[w].attempt = n
             /\ \A v \in Workers \ {w} : worker'[v] = worker[v]
  <1> DEFINE e == worker[w].execution
             n == handoff[e].attemptCount + 1
  <1>1. worker[w] \in WorkerStates /\ e \in Executions
    BY DEF HandoffTypeOK, ClaimChildDispatch, AtStep, WorkerStates
  <1>2. handoff[e] \in HandoffDocuments
    BY <1>1 DEF HandoffTypeOK
  <1>3. n \in 1..MaxAttempts
    BY <1>2, HandoffAssumption DEF ClaimChildDispatch, HandoffDocuments, Current
  <1>4. handoff[e].state \in {"absent", "accepted", "failed", "child_dispatching"}
    BY <1>2
    DEF ClaimChildDispatch, NotClaimable, Current, HandoffDocuments, HandoffStates
  <1>5. worker' = [worker EXCEPT ![w].pc = "dispatch", ![w].attempt = n]
    BY DEF ClaimChildDispatch, Current
  <1>6. handoff' \in [Executions -> HandoffDocuments]
    <2> DEFINE d == [handoff[e] EXCEPT !.state = "child_dispatching",
                                       !.attemptCount = n, !.due = "future"]
    <2>1. d \in HandoffDocuments
      <3>1. n \in 0..MaxAttempts
        BY <1>3, HandoffAssumption
      <3> HIDE DEF n, e
      <3> QED BY <1>2, <3>1 DEF HandoffDocuments, HandoffStates, DueTimes
    <2>2. handoff' = [handoff EXCEPT ![e] = d]
      BY <1>1, <1>2
      DEF ClaimChildDispatch, HandoffTypeOK, HandoffDocuments
    <2> HIDE DEF d
    <2> QED BY <1>1, <2>1, <2>2 DEF HandoffTypeOK
  <1>7. /\ handoff'[e].state = "child_dispatching"
        /\ handoff'[e].attemptCount = n
        /\ handoff'[e].due = "future"
        /\ handoff'[e].completedAt = handoff[e].completedAt
        /\ \A f \in Executions \ {e} : handoff'[f] = handoff[f]
    BY <1>1 DEF ClaimChildDispatch, HandoffTypeOK, HandoffDocuments
  <1> HIDE DEF n
  <1>8. n \in 0..MaxAttempts
    BY <1>3, HandoffAssumption
  <1>9. worker' \in [Workers -> WorkerStates]
    BY <1>1, <1>5, <1>8 DEF HandoffTypeOK, WorkerStates, WorkerPcs
  <1>10. /\ worker'[w].execution = e
         /\ worker'[w].attempt = n
         /\ \A v \in Workers \ {w} : worker'[v] = worker[v]
    BY <1>1, <1>5 DEF HandoffTypeOK, WorkerStates
  <1> QED BY <1>1, <1>3, <1>4, <1>6, <1>7, <1>9, <1>10 DEF n

Write(e, s, d) == handoff' = [handoff EXCEPT ![e].state = s, ![e].due = d]

\* What a write of state and due time leaves alone.
LEMMA WriteEffect ==
  ASSUME HandoffTypeOK, NEW e \in Executions, NEW s \in HandoffStates,
         NEW d \in DueTimes, Write(e, s, d)
  PROVE  /\ handoff' \in [Executions -> HandoffDocuments]
         /\ handoff'[e].state = s
         /\ handoff'[e].due = d
         /\ handoff'[e].attemptCount = handoff[e].attemptCount
         /\ handoff'[e].completedAt = handoff[e].completedAt
         /\ \A f \in Executions \ {e} : handoff'[f] = handoff[f]
  <1> DEFINE h == [handoff[e] EXCEPT !.state = s, !.due = d]
  <1>1. /\ handoff \in [Executions -> HandoffDocuments]
        /\ handoff[e] \in HandoffDocuments
    BY DEF HandoffTypeOK
  <1>2. /\ h \in HandoffDocuments
        /\ h.state = s /\ h.due = d
        /\ h.attemptCount = handoff[e].attemptCount
        /\ h.completedAt = handoff[e].completedAt
    BY <1>1 DEF HandoffDocuments
  <1>3. handoff' = [handoff EXCEPT ![e] = h]
    BY DEF Write
  <1> HIDE DEF h
  <1> QED BY <1>1, <1>2, <1>3

\* What the completion by a result leaves alone.
LEMMA CompleteEffect ==
  ASSUME HandoffTypeOK, NEW e \in Executions, NEW time \in CompletionTimes,
         Complete(e, time)
  PROVE  /\ handoff' \in [Executions -> HandoffDocuments]
         /\ handoff'[e].state = "completed"
         /\ handoff'[e].due = "none"
         /\ handoff'[e].attemptCount = handoff[e].attemptCount
         /\ handoff'[e].completedAt = time
         /\ \A f \in Executions \ {e} : handoff'[f] = handoff[f]
  <1> DEFINE h == [handoff[e] EXCEPT !.state = "completed", !.due = "none",
                                     !.completedAt = time]
  <1>1. "completed" \in HandoffStates /\ "none" \in DueTimes
    BY DEF HandoffStates, DueTimes
  <1>2. /\ handoff \in [Executions -> HandoffDocuments]
        /\ handoff[e] \in HandoffDocuments
    BY DEF HandoffTypeOK
  <1>3. /\ h \in HandoffDocuments
        /\ h.state = "completed" /\ h.due = "none"
        /\ h.attemptCount = handoff[e].attemptCount
        /\ h.completedAt = time
    BY <1>1, <1>2 DEF HandoffDocuments
  <1>4. handoff' = [handoff EXCEPT ![e] = h]
    BY DEF Complete
  <1> HIDE DEF h
  <1> QED BY <1>2, <1>3, <1>4

\* The worker of a step other than a beginning works on some execution.
LEMMA CurrentExists ==
  ASSUME HandoffTypeOK, NEW w \in Workers, ~AtStep(w, "idle")
  PROVE  worker[w].execution \in Executions /\ Current(w) \in HandoffDocuments
  BY DEF HandoffTypeOK, WorkerStates, AtStep, Current

\* What a transaction can make of one handoff.
Accepted(old, new) ==
    /\ old.state = "absent" /\ new.state = "accepted"
    /\ new.due \in {"past", "future"} /\ new.attemptCount = old.attemptCount

Claimed(old, new) ==
    /\ old.state \in {"absent", "accepted", "failed", "child_dispatching"}
    /\ old.attemptCount < MaxAttempts
    /\ new.state = "child_dispatching"
    /\ new.due = "future" /\ new.attemptCount = old.attemptCount + 1

Exhausted(old, new) ==
    /\ old.state \in {"absent", "accepted", "failed", "child_dispatching"}
    /\ old.attemptCount = MaxAttempts
    /\ new.state = "dead_letter"
    /\ new.due = "none" /\ new.attemptCount = old.attemptCount

Reported(old, new) ==
    /\ old.state = "child_dispatching"
    /\ \/ new.state \in {"child_dispatched", "dead_letter"} /\ new.due = "none"
       \/ /\ old.attemptCount < MaxAttempts
          /\ new.state = "failed" /\ new.due = "future"
    /\ new.attemptCount = old.attemptCount

Completed(old, new) ==
    /\ old.state \in ResultReady /\ new.state = "completed"
    /\ new.due = "none" /\ new.attemptCount = old.attemptCount

Elapsed(old, new) ==
    /\ old.due = "future" /\ new.due = "past"
    /\ new.state = old.state /\ new.attemptCount = old.attemptCount

\* The steps that need the claim or the lease of a worker on e.
ClaimOf(w, e) == ClaimChildDispatch(w) /\ worker[w].execution = e
ReportOf(w, e) ==
    (MarkChildDispatched(w) \/ MarkChildFailed(w)) /\ worker[w].execution = e

Written(e) ==
    LET old == handoff[e]
        new == handoff'[e]
    IN  \/ new = old
        \/ ResultArrives(e) /\ Completed(old, new)
        \/ /\ new.completedAt = old.completedAt
           /\ \/ Accepted(old, new) \/ Exhausted(old, new) \/ Elapsed(old, new)
              \/ Claimed(old, new) /\ \E w \in Workers : ClaimOf(w, e)
              \/ Reported(old, new) /\ \E w \in Workers : ReportOf(w, e)

\* Nothing else ever happens to a handoff, and it keeps its type.
LEMMA HandoffSteps ==
  ASSUME HandoffTypeOK, [HandoffNext]_handoffVars
  PROVE  /\ handoff' \in [Executions -> HandoffDocuments]
         /\ \A e \in Executions : Written(e)
  <1> DEFINE Goal ==
        /\ handoff' \in [Executions -> HandoffDocuments]
        /\ \A e \in Executions : Written(e)
  <1>1. ASSUME UNCHANGED handoff PROVE Goal
    BY <1>1 DEF HandoffTypeOK, Written
  <1>2. ASSUME NEW e \in Executions, NEW due \in {"past", "future"},
               AcceptHandoff(e, due)
        PROVE  Goal
    <2>1. "accepted" \in HandoffStates /\ due \in DueTimes
      BY DEF HandoffStates, DueTimes
    <2>2. Write(e, "accepted", due)
      BY <1>2 DEF AcceptHandoff, Write
    <2> QED BY <1>2, <2>1, <2>2, WriteEffect DEF AcceptHandoff, Written, Accepted
  <1>3. ASSUME NEW w \in Workers, ClaimDeadLetters(w) PROVE Goal
    <2> DEFINE e == worker[w].execution
    <2>1. e \in Executions /\ handoff[e] \in HandoffDocuments
      BY <1>3, CurrentExists DEF ClaimDeadLetters, AtStep, Current
    <2>2. /\ handoff[e].attemptCount = MaxAttempts
          /\ handoff[e].state \in {"absent", "accepted", "failed",
                                   "child_dispatching"}
      BY <1>3, <2>1, HandoffAssumption
      DEF ClaimDeadLetters, NotClaimable, Current, HandoffDocuments, HandoffStates
    <2>3. "dead_letter" \in HandoffStates /\ "none" \in DueTimes
      BY DEF HandoffStates, DueTimes
    <2>4. Write(e, "dead_letter", "none")
      BY <1>3 DEF ClaimDeadLetters, Write
    <2> QED BY <2>1, <2>2, <2>3, <2>4, WriteEffect DEF Written, Exhausted
  <1>4. ASSUME NEW w \in Workers, ClaimChildDispatch(w) PROVE Goal
    <2> DEFINE e == worker[w].execution
    <2>1. e \in Executions /\ handoff[e] \in HandoffDocuments
      BY <1>4, ClaimEffect DEF HandoffTypeOK
    <2>2. handoff[e].attemptCount < MaxAttempts
      BY <1>4, <2>1, ClaimEffect, HandoffAssumption DEF HandoffDocuments
    <2> QED BY <1>4, <2>1, <2>2, ClaimEffect DEF Written, Claimed, ClaimOf
  <1>5. ASSUME NEW w \in Workers, MarkChildDispatched(w) PROVE Goal
    <2> DEFINE e == worker[w].execution
    <2>1. e \in Executions
      BY <1>5, CurrentExists DEF MarkChildDispatched, Answered, AtStep
    <2>2. "child_dispatched" \in HandoffStates /\ "none" \in DueTimes
      BY DEF HandoffStates, DueTimes
    <2>3. Write(e, "child_dispatched", "none")
      BY <1>5 DEF MarkChildDispatched, Write
    <2>4. handoff[e].state = "child_dispatching"
      BY <1>5 DEF MarkChildDispatched, ChildLeaseMatches, Current
    <2> QED
      BY <1>5, <2>1, <2>2, <2>3, <2>4, WriteEffect
      DEF Written, Reported, ReportOf
  <1>6. ASSUME NEW w \in Workers, MarkChildFailed(w) PROVE Goal
    <2> DEFINE e == worker[w].execution
    <2>1. e \in Executions
      BY <1>6, CurrentExists DEF MarkChildFailed, Answered, AtStep
    <2>2. /\ {"failed", "dead_letter"} \subseteq HandoffStates
          /\ {"future", "none"} \subseteq DueTimes
      BY DEF HandoffStates, DueTimes
    <2>3. /\ handoff[e].state = "child_dispatching"
          /\ ChildRetryable(w) => handoff[e].attemptCount < MaxAttempts
      BY <1>6 DEF MarkChildFailed, ChildLeaseMatches, Current, ChildRetryable
    <2>4. CASE ChildRetryable(w)
      <3>1. Write(e, "failed", "future")
        BY <1>6, <2>4 DEF MarkChildFailed, FailedState, Write
      <3> QED
        BY <1>6, <2>1, <2>2, <2>3, <2>4, <3>1, WriteEffect
        DEF Written, Reported, ReportOf
    <2>5. CASE ~ChildRetryable(w)
      <3>1. Write(e, "dead_letter", "none")
        BY <1>6, <2>5 DEF MarkChildFailed, FailedState, Write
      <3> QED
        BY <1>6, <2>1, <2>2, <2>3, <3>1, WriteEffect DEF Written, Reported, ReportOf
    <2> QED BY <2>4, <2>5
  <1>7. ASSUME NEW e \in Executions, ResultArrives(e) PROVE Goal
    <2>1. PICK p \in ProviderEvents, time \in CompletionTimes :
            ResultCreates(e, p, time) \/ ResultReplays(e, p, time)
      BY <1>7 DEF ResultArrives
    <2>2. handoff[e].state \in ResultReady
      BY <2>1 DEF ResultCreates, ResultReplays
    <2>3. UNCHANGED handoff \/ Complete(e, time)
      BY <2>1 DEF ResultCreates, ResultReplays
    <2> QED BY <1>1, <1>7, <2>2, <2>3, CompleteEffect DEF Written, Completed
  <1>8. ASSUME NEW e \in Executions, Elapses(e) PROVE Goal
    <2>1. /\ handoff' \in [Executions -> HandoffDocuments]
          /\ handoff'[e].due = "past"
          /\ handoff'[e].state = handoff[e].state
          /\ handoff'[e].attemptCount = handoff[e].attemptCount
          /\ handoff'[e].completedAt = handoff[e].completedAt
          /\ \A f \in Executions \ {e} : handoff'[f] = handoff[f]
      BY <1>8 DEF Elapses, HandoffTypeOK, HandoffDocuments, DueTimes
    <2> QED BY <1>8, <2>1 DEF Elapses, Written, Elapsed
  <1>9. ASSUME NEW w \in Workers, Dispatch(w) PROVE Goal
    BY <1>1, <1>3, <1>4, <1>5, <1>6, <1>9
    DEF Dispatch, ClaimChild, MarkChild, ClaimDeclined, MarkReplaysDispatched,
        MarkReplaysChildFailure, MarkChildConflicts, ProviderAnswers
  <1>10. ASSUME \/ \E e \in Executions : ExecutionMoves(e) \/ ReconcileTakes(e)
                \/ \E e \in Executions, w \in Triggers : DeliverAccepted(w, e)
                \/ ReconcileLists \/ \E w \in Workers : CutOff(w)
                \/ UNCHANGED handoffVars
         PROVE  Goal
    BY <1>1, <1>10
    DEF ExecutionMoves, ReconcileTakes, DeliverAccepted, ReconcileLists, CutOff,
        handoffVars
  <1> QED
    BY <1>2, <1>7, <1>8, <1>9, <1>10 DEF HandoffNext, Reconcile, Workers

\* No step stores a value its document does not declare.
LEMMA HandoffTypesPreserved ==
  ASSUME HandoffTypeOK, [HandoffNext]_handoffVars
  PROVE  HandoffTypeOK'
  <1> DEFINE Rest == /\ execution' \in [Executions -> ExecutionStatuses]
                     /\ child' \in [Executions -> BOOLEAN]
                     /\ receipts' \in [Executions -> [ProviderEvents ->
                                          CompletionTimes \cup {"none"}]]
                     /\ event' \in [Executions -> {"absent", "pending", "acked"}]
                     /\ worker' \in [Workers -> WorkerStates]
                     /\ batch' \subseteq Executions
                     /\ crashes' \in 0..MaxCrashes
  <1> USE DEF HandoffTypeOK
  <1>1. ASSUME NEW e \in Executions, ExecutionMoves(e) PROVE Rest
    BY <1>1 DEF ExecutionMoves, ExecutionStatuses
  <1>2. ASSUME NEW e \in Executions, NEW due \in {"past", "future"},
               AcceptHandoff(e, due)
        PROVE  Rest
    BY <1>2 DEF AcceptHandoff
  <1>3. ASSUME NEW e \in Executions, NEW w \in Triggers, DeliverAccepted(w, e)
        PROVE  Rest
    BY <1>3, WorkerBegins DEF DeliverAccepted, Workers
  <1>4. CASE ReconcileLists
    BY <1>4 DEF ReconcileLists, Due
  <1>5. ASSUME NEW e \in Executions, ReconcileTakes(e) PROVE Rest
    BY <1>5, WorkerBegins DEF ReconcileTakes, Workers
  <1>6. ASSUME NEW w \in Workers, Dispatch(w) PROVE Rest
    <2>1. CASE ClaimChildDispatch(w)
      BY <2>1, ClaimEffect DEF ClaimChildDispatch
    <2>2. ASSUME NEW answer \in ChildAnswers, NEW started \in BOOLEAN,
                 ProviderAnswers(w, answer, started)
          PROVE  Rest
      <3>1. worker[w].execution \in Executions
        BY <2>2, CurrentExists DEF ProviderAnswers, AtStep
      <3>2. child' \in [Executions -> BOOLEAN]
        BY <2>2, <3>1 DEF ProviderAnswers
      <3>3. [worker[w] EXCEPT !.pc = "mark", !.answer = answer] \in WorkerStates
        BY <2>2, <3>1, ZenonT(30) DEF WorkerStates, WorkerPcs
      <3>4. worker' = [worker EXCEPT
                         ![w] = [worker[w] EXCEPT !.pc = "mark", !.answer = answer]]
        BY <2>2 DEF ProviderAnswers
      <3>5. worker' \in [Workers -> WorkerStates]
        BY <3>3, <3>4
      <3> QED BY <2>2, <3>2, <3>5 DEF ProviderAnswers
    <2>3. CASE \/ ClaimDeclined(w) \/ ClaimDeadLetters(w) \/ MarkChild(w)
      BY <2>3, WorkerEnds
      DEF ClaimDeclined, ClaimDeadLetters, MarkChild, MarkChildDispatched,
          MarkReplaysDispatched, MarkChildFailed, MarkReplaysChildFailure,
          MarkChildConflicts, ReportChildFailure
    <2> QED BY <1>6, <2>1, <2>2, <2>3 DEF Dispatch, ClaimChild
  <1>7. ASSUME NEW e \in Executions, ResultArrives(e) PROVE Rest
    BY <1>7 DEF ResultArrives, ResultCreates, ResultReplays
  <1>8. ASSUME NEW e \in Executions, Elapses(e) PROVE Rest
    BY <1>8 DEF Elapses
  <1>9. ASSUME NEW w \in Workers, CutOff(w) PROVE Rest
    BY <1>9, WorkerEnds, HandoffAssumption DEF CutOff
  <1>10. CASE UNCHANGED handoffVars
    BY <1>10 DEF handoffVars
  <1>11. Rest
    BY <1>1, <1>2, <1>3, <1>4, <1>5, <1>6, <1>7, <1>8, <1>9, <1>10
    DEF HandoffNext, Reconcile, Workers
  <1> QED BY <1>11, HandoffSteps

\* Every state has the types its documents declare; above all, no handoff
\* counts more attempts than the limit (claimChildDispatch,
\* public_lite_provider_handoff_firestore_port.js).
THEOREM HandoffTypes == HandoffSpec => []HandoffTypeOK
  BY HandoffInitTypes, HandoffTypesPreserved, PTL DEF HandoffSpec

-----------------------------------------------------------------------------
(* Due times and attempts.                                                 *)

\* Nothing is due before anything is accepted.
LEMMA DueInit == HandoffInit => DueWhileUnsettled /\ AttemptsLeft
  BY DEF HandoffInit, DueWhileUnsettled, AttemptsLeft, Unaccepted, HandoffDueStates

\* Every write of a state writes the due time that goes with it.
LEMMA DuePreserved ==
  ASSUME HandoffTypeOK, DueWhileUnsettled, [HandoffNext]_handoffVars
  PROVE  DueWhileUnsettled'
  <1> SUFFICES ASSUME NEW e \in Executions
               PROVE  handoff'[e].state \in HandoffDueStates
                        <=> handoff'[e].due # "none"
    BY DEF DueWhileUnsettled
  <1>1. handoff[e].state \in HandoffDueStates <=> handoff[e].due # "none"
    BY DEF DueWhileUnsettled
  <1>2. Written(e)
    BY HandoffSteps
  <1> QED
    BY <1>1, <1>2
    DEF Written, Accepted, Claimed, Exhausted, Reported, Completed, Elapsed,
        HandoffDueStates

\* Only a failing report reopens a handoff, and only below the limit.
LEMMA AttemptsLeftPreserved ==
  ASSUME HandoffTypeOK, AttemptsLeft, [HandoffNext]_handoffVars
  PROVE  AttemptsLeft'
  <1> SUFFICES ASSUME NEW e \in Executions
               PROVE  /\ handoff'[e].state \in {"absent", "accepted"}
                           => handoff'[e].attemptCount = 0
                      /\ handoff'[e].state = "failed"
                           => handoff'[e].attemptCount < MaxAttempts
    BY DEF AttemptsLeft
  <1>1. /\ handoff[e].state \in {"absent", "accepted"}
             => handoff[e].attemptCount = 0
        /\ handoff[e].state = "failed" => handoff[e].attemptCount < MaxAttempts
    BY DEF AttemptsLeft
  <1>2. Written(e)
    BY HandoffSteps
  <1> QED
    BY <1>1, <1>2
    DEF Written, Accepted, Claimed, Exhausted, Reported, Completed, Elapsed

-----------------------------------------------------------------------------
(* Results.                                                                *)

\* Nothing is completed before anything is accepted.
LEMMA ResultsInit == HandoffInit => ResultsAgree
  BY DEF HandoffInit, ResultsAgree, Unaccepted

\* What a step other than a result for e leaves of it: its receipts, a child
\* that was started, and a dispatched execution.
LEMMA ResultsQuiet ==
  ASSUME HandoffTypeOK, [HandoffNext]_handoffVars, NEW e \in Executions,
         ~ResultArrives(e)
  PROVE  /\ receipts'[e] = receipts[e]
         /\ child[e] => child'[e]
         /\ execution[e] = "dispatched" => execution'[e] = "dispatched"
  <1> DEFINE Goal == /\ receipts'[e] = receipts[e]
                     /\ child[e] => child'[e]
                     /\ execution[e] = "dispatched" => execution'[e] = "dispatched"
  <1>1. ASSUME NEW f \in Executions, ExecutionMoves(f) PROVE Goal
    BY <1>1 DEF ExecutionMoves, HandoffTypeOK
  <1>2. ASSUME NEW f \in Executions, ResultArrives(f) PROVE Goal
    <2>1. f # e
      BY <1>2
    <2> QED
      BY <1>2, <2>1 DEF ResultArrives, ResultCreates, ResultReplays, HandoffTypeOK
  <1>3. ASSUME NEW w \in Workers, NEW answer \in ChildAnswers,
               NEW started \in BOOLEAN, ProviderAnswers(w, answer, started)
        PROVE  Goal
    BY <1>3 DEF ProviderAnswers, HandoffTypeOK
  <1>4. ASSUME UNCHANGED <<execution, child, receipts>> PROVE Goal
    BY <1>4
  <1>5. ASSUME NEW w \in Workers, Dispatch(w) PROVE Goal
    BY <1>3, <1>4, <1>5
    DEF Dispatch, ClaimChild, ClaimDeclined, ClaimDeadLetters,
        ClaimChildDispatch, MarkChild, MarkChildDispatched, MarkReplaysDispatched,
        MarkChildFailed, MarkReplaysChildFailure, MarkChildConflicts
  <1>6. ASSUME \/ \E f \in Executions :
                    \/ Elapses(f) \/ ReconcileTakes(f)
                    \/ \E due \in {"past", "future"} : AcceptHandoff(f, due)
                    \/ \E w \in Triggers : DeliverAccepted(w, f)
               \/ ReconcileLists \/ \E w \in Workers : CutOff(w)
               \/ UNCHANGED handoffVars
        PROVE  Goal
    BY <1>4, <1>6
    DEF Elapses, ReconcileTakes, AcceptHandoff, DeliverAccepted,
        ReconcileLists, CutOff, handoffVars
  <1> QED
    BY <1>1, <1>2, <1>5, <1>6 DEF HandoffNext, Reconcile, Workers

\* A result agrees with the receipts there are, and nothing but a result
\* completes a handoff.
LEMMA ResultsPreserved ==
  ASSUME HandoffTypeOK, ResultsAgree, [HandoffNext]_handoffVars
  PROVE  ResultsAgree'
  <1> SUFFICES ASSUME NEW e \in Executions
               PROVE  /\ handoff'[e].state = "completed" <=>
                           \E p \in ProviderEvents : receipts'[e][p] # "none"
                      /\ \A p \in ProviderEvents :
                           receipts'[e][p] \in {"none", handoff'[e].completedAt}
                      /\ handoff'[e].state = "completed" =>
                           child'[e] /\ execution'[e] = "dispatched"
    BY DEF ResultsAgree
  <1>1. /\ handoff[e].state = "completed" <=>
             \E p \in ProviderEvents : receipts[e][p] # "none"
        /\ \A p \in ProviderEvents :
             receipts[e][p] \in {"none", handoff[e].completedAt}
        /\ handoff[e].state = "completed" =>
             child[e] /\ execution[e] = "dispatched"
    BY DEF ResultsAgree
  <1>2. CASE ~ResultArrives(e)
    <2>1. /\ handoff'[e].state = "completed" <=> handoff[e].state = "completed"
          /\ handoff'[e].completedAt = handoff[e].completedAt
      BY <1>2, HandoffSteps
      DEF Written, Accepted, Claimed, Exhausted, Reported, Elapsed
    <2> QED BY <1>1, <1>2, <2>1, ResultsQuiet
  <1>3. ASSUME NEW p \in ProviderEvents, NEW time \in CompletionTimes,
               ResultCreates(e, p, time)
        PROVE  /\ handoff'[e].state = "completed"
               /\ receipts'[e][p] = time /\ time # "none"
               /\ \A q \in ProviderEvents : receipts'[e][q] \in {"none", time}
               /\ handoff'[e].completedAt = time
               /\ child'[e] /\ execution'[e] = "dispatched"
    <2>1. /\ handoff'[e].state = "completed"
          /\ handoff'[e].completedAt = time
      BY <1>3, CompleteEffect DEF ResultCreates
    <2>2. \A q \in ProviderEvents : receipts[e][q] \in {"none", time}
      BY <1>1, <1>3 DEF ResultCreates
    <2>3. /\ receipts'[e][p] = time
          /\ \A q \in ProviderEvents \ {p} : receipts'[e][q] = receipts[e][q]
      BY <1>3 DEF ResultCreates, HandoffTypeOK
    <2> QED BY <1>3, <2>1, <2>2, <2>3, HandoffAssumption DEF ResultCreates
  <1>4. ASSUME NEW p \in ProviderEvents, NEW time \in CompletionTimes,
               ResultReplays(e, p, time)
        PROVE  UNCHANGED <<handoff, receipts, child, execution>>
    BY <1>1, <1>4, HandoffAssumption DEF ResultReplays
  <1> QED BY <1>1, <1>2, <1>3, <1>4 DEF ResultArrives

-----------------------------------------------------------------------------
(* The fence.                                                              *)

\* ChildFence without the types and the attempts left.
AttemptsCounted ==
    \A w \in Workers :
      ChildAttempt(w) => worker[w].attempt \in 1..Current(w).attemptCount

AttemptsDistinct ==
    \A v, w \in Workers :
      v # w /\ ChildAttempt(v) /\ ChildAttempt(w)
            /\ worker[v].execution = worker[w].execution
        => worker[v].attempt # worker[w].attempt

Newest(w) == ChildAttempt(w) /\ worker[w].attempt = Current(w).attemptCount

HeldByNewest(e) ==
    \/ handoff[e].state \in {"child_dispatching", "completed"}
    \/ handoff[e].state = "dead_letter" /\ handoff[e].attemptCount = MaxAttempts

NewestHolds == \A w \in Workers : Newest(w) => HeldByNewest(worker[w].execution)

Fence == AttemptsCounted /\ AttemptsDistinct /\ NewestHolds

LEMMA FenceParts == ChildFence <=> HandoffTypeOK /\ AttemptsLeft /\ Fence
  BY DEF ChildFence, Fence, AttemptsCounted, AttemptsDistinct, NewestHolds,
         Newest, HeldByNewest, Current

\* Before the first claim nobody is inside an attempt.
LEMMA FenceInit == HandoffInit => Fence
  BY DEF HandoffInit, Resting, Fence, AttemptsCounted, AttemptsDistinct,
         NewestHolds, Newest, ChildAttempt

\* Only a claim puts a worker into an attempt, and a report takes its own
\* worker out of it.
LEMMA AttemptsQuiet ==
  ASSUME HandoffTypeOK, [HandoffNext]_handoffVars, NEW v \in Workers,
         ~ClaimChildDispatch(v), ChildAttempt(v)'
  PROVE  /\ ChildAttempt(v)
         /\ worker'[v].execution = worker[v].execution
         /\ worker'[v].attempt = worker[v].attempt
         /\ ~MarkChildDispatched(v) /\ ~MarkChildFailed(v)
  <1> DEFINE Same == /\ ChildAttempt(v)
                     /\ worker'[v].execution = worker[v].execution
                     /\ worker'[v].attempt = worker[v].attempt
  <1>1. worker'[v].pc \in {"dispatch", "mark"}
    BY DEF ChildAttempt
  <1>2. ASSUME worker'[v] = worker[v] PROVE Same
    BY <1>1, <1>2 DEF ChildAttempt
  <1>3. ~MarkChildDispatched(v) /\ ~MarkChildFailed(v)
    BY <1>1, WorkerEnds
    DEF MarkChildDispatched, MarkChildFailed, ReportChildFailure, Resting
  <1>4. ASSUME NEW e \in Executions, NEW w \in Workers, Begin(w, e) PROVE Same
    BY <1>1, <1>2, <1>4, WorkerBegins
  <1>5. ASSUME NEW w \in Workers, Returned(w) \/ Threw(w) PROVE Same
    BY <1>1, <1>2, <1>5, WorkerEnds DEF Resting
  <1>6. ASSUME NEW w \in Workers, Dispatch(w) PROVE Same
    <2>1. CASE ClaimChildDispatch(w)
      BY <1>2, <2>1, ClaimEffect
    <2>2. ASSUME NEW answer \in ChildAnswers, NEW started \in BOOLEAN,
                 ProviderAnswers(w, answer, started)
          PROVE  Same
      BY <2>2 DEF ProviderAnswers, AtStep, HandoffTypeOK, WorkerStates, ChildAttempt
    <2>3. CASE ClaimDeclined(w) \/ ClaimDeadLetters(w) \/ MarkChild(w)
      BY <1>5, <2>3
      DEF ClaimDeclined, ClaimDeadLetters, MarkChild, MarkChildDispatched,
          MarkReplaysDispatched, MarkChildFailed, MarkReplaysChildFailure,
          MarkChildConflicts, ReportChildFailure
    <2> QED BY <1>6, <2>1, <2>2, <2>3 DEF Dispatch, ClaimChild
  <1>7. ASSUME NEW w \in Workers, CutOff(w) PROVE Same
    BY <1>5, <1>7 DEF CutOff
  <1>8. ASSUME NEW e \in Executions,
               \/ ReconcileTakes(e)
               \/ \E w \in Triggers : DeliverAccepted(w, e)
        PROVE  Same
    BY <1>4, <1>8 DEF ReconcileTakes, DeliverAccepted, Workers
  <1>9. ASSUME \/ \E e \in Executions :
                    \/ ExecutionMoves(e) \/ ResultArrives(e) \/ Elapses(e)
                    \/ \E due \in {"past", "future"} : AcceptHandoff(e, due)
               \/ ReconcileLists \/ UNCHANGED handoffVars
        PROVE  Same
    BY <1>2, <1>9, ZenonT(30)
    DEF ExecutionMoves, ResultArrives, ResultCreates, ResultReplays, Elapses,
        AcceptHandoff, ReconcileLists, handoffVars
  <1> QED
    BY <1>3, <1>6, <1>7, <1>8, <1>9 DEF HandoffNext, Reconcile, Workers

\* A claim takes a number larger than every other attempt on its handoff.
LEMMA FenceClaimed ==
  ASSUME HandoffTypeOK, Fence, [HandoffNext]_handoffVars,
         NEW w \in Workers, ClaimChildDispatch(w)
  PROVE  Fence'
  <1> DEFINE e == worker[w].execution
             n == handoff[e].attemptCount
  <1>1. /\ e \in Executions /\ n \in Nat
        /\ handoff'[e].state = "child_dispatching"
        /\ handoff'[e].attemptCount = n + 1
        /\ worker'[w].execution = e /\ worker'[w].attempt = n + 1
        /\ \A f \in Executions \ {e} : handoff'[f] = handoff[f]
        /\ \A v \in Workers \ {w} : worker'[v] = worker[v]
    BY ClaimEffect DEF HandoffTypeOK, HandoffDocuments
  <1> HIDE DEF e, n
  <1>2. ASSUME NEW v \in Workers, ChildAttempt(v)', v # w
        PROVE  /\ ChildAttempt(v) /\ worker'[v] = worker[v]
               /\ worker[v].execution \in Executions
               /\ worker[v].attempt \in 1..handoff[worker[v].execution].attemptCount
               /\ worker[v].execution = e => worker[v].attempt \in 1..n
    <2>1. ChildAttempt(v) /\ worker'[v] = worker[v]
      BY <1>1, <1>2 DEF ChildAttempt
    <2>2. worker[v].execution \in Executions
      BY <2>1 DEF HandoffTypeOK, WorkerStates, ChildAttempt
    <2> QED BY <2>1, <2>2 DEF Fence, AttemptsCounted, Current, n, e
  <1>3. AttemptsCounted'
    <2> SUFFICES ASSUME NEW v \in Workers, ChildAttempt(v)'
                 PROVE  worker'[v].attempt
                          \in 1..handoff'[worker'[v].execution].attemptCount
      BY DEF AttemptsCounted, Current
    <2>1. CASE v = w
      BY <1>1, <2>1
    <2>2. CASE v # w /\ worker[v].execution = e
      BY <1>1, <1>2, <2>2
    <2>3. CASE v # w /\ worker[v].execution # e
      BY <1>1, <1>2, <2>3
    <2> QED BY <2>1, <2>2, <2>3
  <1>4. AttemptsDistinct'
    BY <1>1, <1>2 DEF Fence, AttemptsDistinct
  <1>5. NewestHolds'
    <2> SUFFICES ASSUME NEW v \in Workers, ChildAttempt(v)',
                        worker'[v].attempt
                          = handoff'[worker'[v].execution].attemptCount
                 PROVE  HeldByNewest(worker[v].execution)'
      BY <1>1 DEF NewestHolds, Newest, Current, HeldByNewest
    <2>1. CASE v = w
      BY <1>1, <2>1 DEF HeldByNewest, e
    <2>2. CASE v # w /\ worker[v].execution = e
      BY <1>1, <1>2, <2>2
    <2>3. CASE v # w /\ worker[v].execution # e
      <3>1. Newest(v)
        BY <1>1, <1>2, <2>3 DEF Newest, Current
      <3> QED
        BY <1>1, <1>2, <2>3, <3>1 DEF Fence, NewestHolds, HeldByNewest
    <2> QED BY <2>1, <2>2, <2>3
  <1> QED BY <1>3, <1>4, <1>5 DEF Fence

\* Without a claim the attempts stay as they are, and only the worker of the
\* newest one can report.
LEMMA FencePreserved ==
  ASSUME HandoffTypeOK, Fence, [HandoffNext]_handoffVars
  PROVE  Fence'
  <1>1. CASE \E w \in Workers : ClaimChildDispatch(w)
    BY <1>1, FenceClaimed
  <1>2. CASE \A w \in Workers : ~ClaimChildDispatch(w)
    <2>1. ASSUME NEW v \in Workers, ChildAttempt(v)'
          PROVE  /\ ChildAttempt(v)
                 /\ worker'[v].execution = worker[v].execution
                 /\ worker'[v].attempt = worker[v].attempt
                 /\ ~MarkChildDispatched(v) /\ ~MarkChildFailed(v)
                 /\ worker[v].execution \in Executions
      BY <1>2, <2>1, AttemptsQuiet
      DEF HandoffTypeOK, WorkerStates, ChildAttempt
    <2>2. ASSUME NEW e \in Executions
          PROVE  handoff'[e].attemptCount = handoff[e].attemptCount
      BY <1>2, HandoffSteps
      DEF Written, ClaimOf, Completed, Accepted, Exhausted, Reported, Elapsed
    <2>3. AttemptsCounted'
      BY <2>1, <2>2 DEF Fence, AttemptsCounted, Current
    <2>4. AttemptsDistinct'
      BY <2>1 DEF Fence, AttemptsDistinct
    <2>5. ASSUME NEW v \in Workers, Newest(v)'
          PROVE  HeldByNewest(worker[v].execution)'
      <3> DEFINE e == worker[v].execution
      <3>1. Newest(v) /\ HeldByNewest(e) /\ e \in Executions
        BY <2>1, <2>2, <2>5 DEF Newest, Current, Fence, NewestHolds
      <3>2. ~\E w \in Workers : ReportOf(w, e)
        <4> SUFFICES ASSUME NEW w \in Workers, ReportOf(w, e) PROVE FALSE
          OBVIOUS
        <4>1. /\ ChildAttempt(w) /\ worker[w].execution = e
              /\ worker[w].attempt = handoff[e].attemptCount
          BY DEF ReportOf, MarkChildDispatched, MarkChildFailed, Answered, AtStep,
                 ChildLeaseMatches, ChildAttempt, Current
        <4>2. v # w
          BY <2>1, <2>5 DEF ReportOf, Newest
        <4> QED
          BY <3>1, <4>1, <4>2 DEF Fence, AttemptsDistinct, Newest, Current
      <3>3. Written(e)
        BY <3>1, HandoffSteps
      <3>4. worker'[v].execution = e
        BY <2>1, <2>5 DEF Newest
      <3> HIDE DEF e
      <3> QED
        BY <1>2, <3>1, <3>2, <3>3, <3>4
        DEF Written, ClaimOf, Completed, Accepted, Exhausted, Elapsed, HeldByNewest
    <2>6. NewestHolds'
      BY <2>1, <2>5 DEF NewestHolds, Newest, HeldByNewest
    <2> QED BY <2>3, <2>4, <2>6 DEF Fence
  <1> QED BY <1>1, <1>2

-----------------------------------------------------------------------------
(* The theorems.                                                           *)

\* The invariant the others follow from.
HandoffInductive == ChildFence /\ DueWhileUnsettled /\ ResultsAgree

THEOREM HandoffInvariant == HandoffSpec => []HandoffInductive
  <1>1. HandoffInit => HandoffInductive
    BY HandoffInitTypes, DueInit, FenceInit, ResultsInit, FenceParts
    DEF HandoffInductive
  <1>2. HandoffInductive /\ [HandoffNext]_handoffVars => HandoffInductive'
    <2> SUFFICES ASSUME HandoffInductive, [HandoffNext]_handoffVars
                 PROVE  HandoffInductive'
      OBVIOUS
    <2>1. HandoffTypeOK /\ AttemptsLeft /\ Fence
      BY FenceParts DEF HandoffInductive
    <2>2. HandoffTypeOK' /\ AttemptsLeft' /\ Fence'
      BY <2>1, HandoffTypesPreserved, AttemptsLeftPreserved, FencePreserved
    <2>3. ChildFence'
      BY <2>2
      DEF ChildFence, Fence, AttemptsCounted, AttemptsDistinct, NewestHolds,
          Newest, HeldByNewest, Current
    <2>4. DueWhileUnsettled' /\ ResultsAgree'
      BY <2>1, DuePreserved, ResultsPreserved DEF HandoffInductive
    <2> QED BY <2>3, <2>4 DEF HandoffInductive
  <1> QED BY <1>1, <1>2, PTL DEF HandoffSpec

\* A handoff can be found by listDueHandoffs exactly while it still needs a
\* dispatch (assertPublicLiteProviderHandoffRecord never rejects a document).
THEOREM DueFound == HandoffSpec => []DueWhileUnsettled
  BY HandoffInvariant, PTL DEF HandoffInductive

\* The attempt fences triggers and reconciler against each other
\* (assertChildLease, public_lite_provider_handoff_firestore_port.js).
THEOREM ChildrenFenced == HandoffSpec => []ChildFence
  BY HandoffInvariant, PTL DEF HandoffInductive

\* Results of several provider events and child runs agree with each other and
\* with the handoff (public_lite_result_receipt_firestore_port.js).
THEOREM ResultsOfOneTime == HandoffSpec => []ResultsAgree
  BY HandoffInvariant, PTL DEF HandoffInductive

-----------------------------------------------------------------------------
(* Refinement of the dispatch ledger.                                      *)

\* A handoff that does not exist yet is a ledger that is not open yet.
LEMMA ChildLedgerInit ==
  HandoffInit => \A e \in Executions : ChildLedger(e)!LedgerInit
  BY DEF HandoffInit, Unaccepted, ChildLedger!LedgerInit, HandoffPhase

\* What happens to a handoff is a step of its ledger and follows the table.
LEMMA ChildLedgerStep ==
  ASSUME HandoffInductive, [HandoffNext]_handoffVars, NEW e \in Executions
  PROVE  /\ [ChildLedger(e)!LedgerNext]_(ChildLedger(e)!ledger)
         /\ handoff[e].state # "absent" =>
              Follows(handoffTransitions, handoff[e].state, handoff'[e].state)
  <1>1. /\ handoff[e] \in HandoffDocuments /\ Written(e)
        /\ handoff[e].state \in {"absent", "accepted"}
             => handoff[e].attemptCount = 0
        /\ handoff[e].state = "failed" => handoff[e].attemptCount < MaxAttempts
    BY HandoffSteps
    DEF HandoffInductive, ChildFence, HandoffTypeOK, AttemptsLeft
  <1>2. /\ {"child_dispatching", "dead_letter"} \subseteq handoffTransitions["accepted"]
        /\ {"child_dispatching", "child_dispatched", "failed", "completed",
            "dead_letter"} \subseteq handoffTransitions["child_dispatching"]
        /\ "completed" \in handoffTransitions["child_dispatched"]
        /\ {"child_dispatching", "dead_letter"} \subseteq handoffTransitions["failed"]
    BY DEF handoffTransitions, HandoffStates
  <1> DEFINE Goal ==
        /\ [ChildLedger(e)!LedgerNext]_(ChildLedger(e)!ledger)
        /\ handoff[e].state # "absent" =>
             Follows(handoffTransitions, handoff[e].state, handoff'[e].state)
  <1>3. CASE UNCHANGED <<handoff[e].state, handoff[e].attemptCount>>
    BY <1>3 DEF ChildLedger!ledger, HandoffPhase, Follows
  <1>4. CASE Accepted(handoff[e], handoff'[e])
    BY <1>4 DEF Accepted, ChildLedger!ledger, HandoffPhase
  <1>5. CASE Claimed(handoff[e], handoff'[e])
    <2>1. ChildLedger(e)!Acquire
      BY <1>5 DEF Claimed, ChildLedger!Acquire, HandoffPhase
    <2> QED BY <1>2, <1>5, <2>1 DEF Claimed, Follows, ChildLedger!LedgerNext
  <1>6. CASE Exhausted(handoff[e], handoff'[e])
    <2>1. handoff[e].state = "child_dispatching"
      BY <1>1, <1>6, HandoffAssumption DEF Exhausted, HandoffDocuments
    <2>2. ChildLedger(e)!Abandon
      BY <1>6, <2>1 DEF Exhausted, ChildLedger!Abandon, HandoffPhase
    <2> QED BY <1>2, <1>6, <2>1, <2>2 DEF Exhausted, Follows, ChildLedger!LedgerNext
  <1>7. CASE Reported(handoff[e], handoff'[e])
    <2>1. \/ ChildLedger(e)!Accept \/ ChildLedger(e)!Release
          \/ ChildLedger(e)!Abandon
      BY <1>7
      DEF Reported, ChildLedger!Accept, ChildLedger!Release, ChildLedger!Abandon,
          HandoffPhase
    <2> QED BY <1>2, <1>7, <2>1 DEF Reported, Follows, ChildLedger!LedgerNext
  <1>8. CASE Completed(handoff[e], handoff'[e])
    <2>1. CASE handoff[e].state = "child_dispatching"
      <3>1. ChildLedger(e)!Accept
        BY <1>8, <2>1 DEF Completed, ChildLedger!Accept, HandoffPhase
      <3> QED BY <1>2, <1>8, <2>1, <3>1 DEF Completed, Follows, ChildLedger!LedgerNext
    <2>2. CASE handoff[e].state \in {"child_dispatched", "completed"}
      BY <1>2, <1>8, <2>2 DEF Completed, ChildLedger!ledger, HandoffPhase, Follows
    <2> QED BY <1>8, <2>1, <2>2 DEF Completed, ResultReady
  <1> QED
    BY <1>1, <1>3, <1>4, <1>5, <1>6, <1>7, <1>8 DEF Written, Elapsed

\* Every handoff is a dispatch ledger, and no transaction is aborted by
\* assertPublicLiteProviderHandoffTransition.
THEOREM HandoffsAreLedgers == HandoffSpec => HandoffsImplementLedger
  <1>1. HandoffInit => \A e \in Executions : ChildLedger(e)!LedgerInit
    BY ChildLedgerInit
  <1>2. HandoffInductive /\ [HandoffNext]_handoffVars
          => [\A e \in Executions : [ChildLedger(e)!LedgerNext]_(
                ChildLedger(e)!ledger)]_handoffVars
    BY ChildLedgerStep
  <1>3. HandoffInductive /\ [HandoffNext]_handoffVars
          => [\A e \in Executions : handoff[e].state # "absent" =>
                Follows(handoffTransitions, handoff[e].state, handoff'[e].state)
             ]_handoffVars
    BY ChildLedgerStep
  <1> QED
    BY <1>1, <1>2, <1>3, HandoffInvariant, PTL
    DEF HandoffSpec, HandoffsImplementLedger
=============================================================================
