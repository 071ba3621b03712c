--------------------------- MODULE DigitalDetective ---------------------------
(***************************************************************************)
(* The digital detective: tasks that clients create or that a trigger      *)
(* bridges from an AI field operation, their dispatch to the n8n webhook,  *)
(* and the results that its agents post back, in any order and more than   *)
(* once.                                                                   *)
(*                                                                         *)
(* The dispatch claims the task in a transaction, awaits the webhook, and  *)
(* writes the answer without a transaction; results do not wait for it.    *)
(* n8n is external: an execution belongs to each attempt of a dispatch.    *)
(***************************************************************************)
EXTENDS DocumentStore

CONSTANT Agents  \* the twelve of the code, or fewer

NoExecution == 0

\* What a task was created from; an operation lends it its id.
Submission(s) == <<"submission", s>>
Operation(o) == <<"operation", o>>
DetectiveTask(origin) == <<"detectiveTask", origin>>
AgentTask(operation, a) == <<"agentTask", operation, a>>
Execution(t, x) == <<"execution", t, x>>
AgentResult(t, x, a) == <<"agentResult", t, x, a>>

DetectiveTasks == Kind("detectiveTask")
SourceOperation(t) == t[2]

\* version is the document's update time.
TaskDocument ==
    [status |-> "queued", dispatch |-> "none", attemptCount |-> 0,
     processed |-> 0, execution |-> NoExecution, version |-> 1]

Updated(t) == [document[t] EXCEPT !.version = @ + 1]

\* The receipt of a submission is its idempotency: a known one is answered.
CreateDigitalDetectiveTask(s) ==
    /\ ~Exists(Submission(s))
    /\ Transact(Submission(s) :> [task |-> DetectiveTask(Submission(s))]
                @@ DetectiveTask(Submission(s)) :> TaskDocument)

\* The operation, its receipt and one task per agent.
CreateAiFieldOperation(o) ==
    /\ ~Exists(Operation(o))
    /\ Transact(
         Operation(o) :> [status |-> "queued", processed |-> 0,
                          execution |-> NoExecution]
         @@ [d \in {AgentTask(Operation(o), a) : a \in Agents} |->
               [status |-> "pending"]])

\* The trigger is repeated until it has run: one that is repeated finds the
\* task.
AiFieldOperationBridge(o) ==
    /\ Exists(Operation(o))
    /\ ~Exists(DetectiveTask(Operation(o)))
    /\ Transact(DetectiveTask(Operation(o)) :> TaskDocument)

-----------------------------------------------------------------------------
\* The trigger of a new task.  Its event may be delivered more than once.

Claimable(t) ==
    /\ document[t].dispatch \notin {"dispatching", "dispatched"}
    /\ document[t].status \in {"queued", "failed"}

ClaimDispatch(c, t) ==
    /\ Claimable(t)
    /\ document[t].attemptCount < Bound("dispatch")
    /\ Claim(c, t :> [Updated(t) EXCEPT
                        !.status = "running", !.dispatch = "dispatching",
                        !.attemptCount = @ + 1],
             [pc |-> "dispatch", task |-> t])

\* Whatever the results have made of the task meanwhile.
WebhookAnswered(c) ==
    LET t == call[c].task IN
    /\ call[c].pc = "dispatch"
    /\ Commit(c, t :> [Updated(t) EXCEPT !.status = "running",
                                         !.dispatch = "dispatched"])

Failed(t) == t :> [Updated(t) EXCEPT !.status = "failed",
                                     !.dispatch = "failed"]

NoToken(c) == call[c].pc = "dispatch" /\ Commit(c, Failed(call[c].task))

\* An error answer is written down and then caught, as no answer is.
WebhookFailed(c) ==
    /\ call[c].pc = "dispatch"
    /\ \E writes \in {Failed(call[c].task), <<>>} :
         Step(c, writes, [call[c] EXCEPT !.pc = "caught"])

\* What is caught is written down unless the task says so already, which is
\* read before: it may say so of a dispatch that began meanwhile.
CatchFailure(c) ==
    /\ call[c].pc = "caught"
    /\ IF document[call[c].task].dispatch = "failed" THEN Commit(c, <<>>)
       ELSE Step(c, <<>>, [call[c] EXCEPT !.pc = "record"])

RecordFailure(c) == call[c].pc = "record" /\ Commit(c, Failed(call[c].task))

-----------------------------------------------------------------------------
\* Results.

\* Mutant of calculateExecutionStatus: one failed agent is enough.
calculateExecutionStatusEarly(completed, failed) ==
    IF failed # {} THEN "failed"
    ELSE IF completed # Agents THEN "running" ELSE "completed"

calculateExecutionStatus(completed, failed) ==
    IF completed \cup failed # Agents THEN "running"
    ELSE IF failed # {} THEN "failed" ELSE "completed"

Reported(t, x) ==
    IF Exists(Execution(t, x)) THEN document[Execution(t, x)]
    ELSE [completed |-> {}, failed |-> {}]

\* A known result is answered as a duplicate.  A new one counts for its
\* execution, and the task and its operation take what the execution says.
PersistDigitalDetectiveResult(t, x, a, status) ==
    LET before == Reported(t, x)
        completed == IF status = "completed" THEN before.completed \cup {a}
                     ELSE before.completed \ {a}
        failed == IF status = "failed" THEN before.failed \cup {a}
                  ELSE before.failed \ {a}
        executionStatus == calculateExecutionStatus(completed, failed)
        processed == Cardinality(completed \cup failed)
        o == SourceOperation(t) IN
    /\ ~Exists(AgentResult(t, x, a))
    /\ Transact(
         AgentResult(t, x, a) :> [status |-> status]
         @@ Execution(t, x) :> [completed |-> completed, failed |-> failed,
                                status |-> executionStatus]
         @@ t :> [Updated(t) EXCEPT
                    !.status = executionStatus, !.processed = processed,
                    !.execution = x]
         @@ IF o[1] # "operation" THEN <<>>
            ELSE AgentTask(o, a) :> [status |-> status]
                 @@ o :> [status |-> executionStatus, execution |-> x,
                          processed |-> processed])

DetectiveNext(c) ==
    \/ Room("submission") /\
         CreateDigitalDetectiveTask(Cardinality(Kind("submission")) + 1)
    \/ Room("operation") /\
         CreateAiFieldOperation(Cardinality(Kind("operation")) + 1)
    \/ \E o \in 1 .. Cardinality(Kind("operation")) :
         AiFieldOperationBridge(o)
    \/ \E t \in DetectiveTasks : ClaimDispatch(c, t)
    \/ WebhookAnswered(c)
    \/ NoToken(c)
    \/ WebhookFailed(c)
    \/ CatchFailure(c)
    \/ RecordFailure(c)
    \/ \E t \in DetectiveTasks, a \in Agents,
          status \in {"completed", "failed"} :
         \E x \in 1 .. document[t].attemptCount :
           PersistDigitalDetectiveResult(t, x, a, status)

-----------------------------------------------------------------------------
ResultsOf(t, x, status) ==
    {a \in Agents : Exists(AgentResult(t, x, a))
                    /\ document[AgentResult(t, x, a)].status = status}

\* Every result counts once, for its own execution, whatever the order and
\* however the executions of one task interleave: an execution is over when
\* all agents have reported and failed when one has failed; the task counts
\* the results of the execution that reported last, and its operation says
\* the same, whatever a dispatch has written over the status of the task.
ResultsCounted ==
    /\ \A e \in Kind("execution") :
         LET done == ResultsOf(e[2], e[3], "completed")
             failed == ResultsOf(e[2], e[3], "failed") IN
         /\ document[e].completed = done /\ document[e].failed = failed
         /\ document[e].status = "running" <=> done \cup failed # Agents
         /\ document[e].status = "completed" <=> done = Agents
    /\ \A t \in DetectiveTasks :
         LET x == document[t].execution
             o == SourceOperation(t)
             reported == ResultsOf(t, x, "completed")
                           \cup ResultsOf(t, x, "failed") IN
         /\ document[t].processed = Cardinality(reported)
         /\ o[1] = "operation" =>
              /\ document[o].execution = x
              /\ document[o].processed = document[t].processed
              /\ x # NoExecution =>
                   document[o].status = document[Execution(t, x)].status

\* A task that all agents have reported on is over, as after the twelve
\* results of the test.
ReportedTaskIsOver ==
    \A t \in DetectiveTasks :
        document[t].processed = Cardinality(Agents) =>
            document[t].status # "running"
=============================================================================
