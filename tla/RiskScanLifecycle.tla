-------------------------- MODULE RiskScanLifecycle --------------------------
(***************************************************************************)
(* The status transition tables of the risk-scan pipeline, as functions    *)
(* from a status to the statuses it may change to.  Every Firestore port   *)
(* asserts the matching table before it writes a changed status; the       *)
(* modules that model the ports do not build that assertion into their     *)
(* actions but state, as a property, that it can never fail.               *)
(***************************************************************************)

RunStatuses ==
    {"created", "validatingTarget", "queued", "acquiring", "assessing",
     "reporting", "failedRetryable", "completed", "completedWithLimits",
     "failedTerminal", "cancelled", "expired"}

\* Where a run in flight may always end up.
RunExits == {"cancelled", "expired"}

runTransitions ==
    [s \in RunStatuses |->
       CASE s = "created"          -> RunExits \cup {"validatingTarget"}
         [] s = "validatingTarget" -> RunExits \cup {"queued", "failedTerminal"}
         [] s = "queued"           -> RunExits \cup
              {"acquiring", "failedRetryable", "failedTerminal"}
         [] s = "acquiring"        -> RunExits \cup
              {"assessing", "completedWithLimits", "failedRetryable",
               "failedTerminal"}
         [] s = "assessing"        -> RunExits \cup
              {"reporting", "completedWithLimits", "failedRetryable",
               "failedTerminal"}
         [] s = "reporting"        -> RunExits \cup
              {"completed", "completedWithLimits", "failedRetryable",
               "failedTerminal"}
         [] s = "failedRetryable"  -> RunExits \cup {"queued"}
         [] OTHER                  -> {}]

ChannelStatuses ==
    {"queued", "acquiring", "assessing", "completed", "completedWithLimits",
     "failedRetryable", "failedTerminal", "skipped"}

channelTransitions ==
    [s \in ChannelStatuses |->
       CASE s = "queued"          ->
              {"acquiring", "skipped", "failedRetryable", "failedTerminal"}
         [] s = "acquiring"       ->
              {"assessing", "completedWithLimits", "failedRetryable",
               "failedTerminal"}
         [] s = "assessing"       ->
              {"completed", "completedWithLimits", "failedRetryable",
               "failedTerminal"}
         [] s = "failedRetryable" -> {"queued"}
         [] OTHER                 -> {}]

ExecutionStatuses ==
    {"prepared", "dispatching", "dispatched", "retryableFailure",
     "terminalFailure", "completed"}

executionTransitions ==
    [s \in ExecutionStatuses |->
       CASE s = "prepared"         -> {"dispatching", "terminalFailure"}
         [] s = "dispatching"      ->
              {"dispatched", "retryableFailure", "terminalFailure"}
         [] s = "retryableFailure" -> {"dispatching", "terminalFailure"}
         [] s = "dispatched"       -> {"completed", "terminalFailure"}
         [] OTHER                  -> {}]

HandoffStates ==
    {"accepted", "child_dispatching", "child_dispatched", "failed",
     "completed", "dead_letter"}

\* The states listDueHandoffs looks for; exactly these carry a due time.
HandoffDueStates == {"accepted", "failed", "child_dispatching"}

handoffTransitions ==
    [s \in HandoffStates |->
       CASE s = "accepted"          -> {"child_dispatching", "dead_letter"}
         [] s = "child_dispatching" ->
              {"child_dispatching", "child_dispatched", "failed",
               "completed", "dead_letter"}
         [] s = "child_dispatched"  -> {"completed"}
         [] s = "failed"            -> {"child_dispatching", "dead_letter"}
         [] OTHER                   -> {}]

\* A write that leaves the status alone is not checked against the table.
Follows(table, from, to) == from = to \/ to \in table[from]
=============================================================================
