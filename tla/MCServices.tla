----------------------------- MODULE MCServices -----------------------------
(* CommandServices on small instances: see the .cfg files.  Every budget    *)
(* gives the requests to one kind of aggregate and to what it needs.       *)
EXTENDS CommandServices, TLC

Budget(request, tasks, task, matter, calls) ==
    "request" :> request @@ "tasks" :> tasks @@ "task" :> task
      @@ "matter" :> matter @@ "calls" :> calls

\* One call at a time reaches far, two race.
MCBudgets ==
    {Budget(8, 0, 0, 0, 1), Budget(4, 0, 0, 0, 2), Budget(2, 1, 5, 0, 1),
     Budget(1, 1, 4, 0, 2), Budget(0, 0, 0, 6, 1), Budget(0, 0, 0, 4, 2)}

\* One caller after the other, and tasks long enough to be sent back.
MCRerunBudgets == {Budget(1, 1, 4, 0, 1)}

MCSymmetry == Permutations(Calls)
=============================================================================
