-------------------------- MODULE RiskScanRetention --------------------------
(***************************************************************************)
(* Start of a public-lite run with its rate limits, and the scheduled      *)
(* cleanup of expired runs.                                                *)
(*                                                                         *)
(* createPublicLiteRun writes a run and its channels in one transaction    *)
(* and charges two hourly buckets, one of the network and one of the       *)
(* client.  The identity of a run is derived from the request, so that a   *)
(* replay finds the run, and a replay after its cleanup creates it again.  *)
(* Every tick of the scheduler a cleaner queries the expired runs and      *)
(* takes each terminal one a step further: delete its channels in a batch, *)
(* or, when none is left, its root.  Queries and batches are no            *)
(* transactions; only the deletion of the root is.                         *)
(*                                                                         *)
(* Time is counted in ticks of the scheduler.  Of the status of a run only *)
(* matters whether it is one of terminalCleanupStatuses.  findings and     *)
(* observations, which the cleanup deletes before the channels, are always *)
(* empty: their writers have no caller outside the tests.                  *)
(***************************************************************************)
EXTENDS Naturals, FiniteSets

CONSTANTS
    Runs,          \* requests, ordered as their document ids
    Channels,      \* channelCodes
    Networks,      \* network scopes of rate-limit buckets
    Clients,       \* client scopes of rate-limit buckets
    ClientOf,      \* the client nonce is part of the request
    Cleaners,      \* scheduled invocations that can run at the same time
    Limit,         \* PUBLIC_LITE_RATE_LIMIT_DEFAULT
    Window,        \* PUBLIC_LITE_RATE_LIMIT_WINDOW_MS, in ticks
    Lifetime,      \* PUBLIC_LITE_RUN_LIFETIME_MS, in ticks
    ScanLimit,     \* DEFAULT_SCAN_LIMIT
    ProcessLimit,  \* DEFAULT_PROCESS_LIMIT
    BatchSize,     \* DEFAULT_CLEANUP_BATCH_SIZE
    Horizon,       \* bound: the clock stops here
    MaxCommands,   \* bound: start requests handled at the same time
    MaxCutOffs     \* bound: how often a cleaner is cut off

ASSUME RetentionAssumption ==
    /\ Runs \subseteq Nat /\ IsFiniteSet(Runs)
    /\ IsFiniteSet(Channels) /\ Channels # {}
    /\ ClientOf \in [Runs -> Clients] /\ Networks \cap Clients = {}
    /\ {Limit, Window, Lifetime, ScanLimit, ProcessLimit, BatchSize}
         \subseteq Nat \ {0}
    /\ {Horizon, MaxCommands, MaxCutOffs} \subseteq Nat

VARIABLES
    now,       \* the clock
    run,       \* the run documents
    channels,  \* the channel documents of every run
    settled,   \* runs whose execution document is a terminal failure
    commands,  \* start commands that were built but not yet committed
    count,     \* the rate-limit documents; 0 when absent
    admitted,  \* history: runs created under a bucket
    cleaner,   \* the scheduled invocations
    due,       \* invocations the scheduler still owes this tick
    cutOffs    \* how often a cleaner was cut off

startVars == <<commands, count, admitted>>
cleanerVars == <<cleaner, due, cutOffs>>
retentionVars == <<now, run, channels, settled, startVars, cleanerVars>>

-----------------------------------------------------------------------------
Scopes == Networks \cup Clients
Windows == 0 .. Horizon \div Window
Times == 0 .. Horizon + Lifetime

RunDocuments == [state : {"absent", "open", "terminal"}, expiresAt : Times]
NoRun == [state |-> "absent", expiresAt |-> 0]

Commands == [run : Runs, network : Networks, at : 0 .. Horizon]

CleanerStates ==
    [pc : {"idle", "next", "list", "delete", "recheck", "root"},
     at : 0 .. Horizon, todo : SUBSET (Times \X Runs),
     plan : RunDocuments, batch : SUBSET Channels]
IdleCleaner ==
    [pc |-> "idle", at |-> 0, todo |-> {}, plan |-> NoRun, batch |-> {}]

RetentionTypeOK ==
    /\ now \in 0 .. Horizon
    /\ run \in [Runs -> RunDocuments]
    /\ channels \in [Runs -> SUBSET Channels]
    /\ settled \subseteq Runs
    /\ commands \subseteq Commands
    /\ count \in [Scopes \X Windows -> 0 .. Limit]
    /\ admitted \in [Scopes \X Windows -> Nat]
    /\ cleaner \in [Cleaners -> CleanerStates]
    /\ due \subseteq Cleaners
    /\ cutOffs \in 0 .. MaxCutOffs

RetentionInit ==
    /\ now = 0
    /\ run = [r \in Runs |-> NoRun]
    /\ channels = [r \in Runs |-> {}]
    /\ settled = {}
    /\ commands = {}
    /\ count = [b \in Scopes \X Windows |-> 0]
    /\ admitted = [b \in Scopes \X Windows |-> 0]
    /\ cleaner = [c \in Cleaners |-> IdleCleaner]
    /\ due = Cleaners
    /\ cutOffs = 0

-----------------------------------------------------------------------------
(* Starting a run.                                                         *)

\* buildPublicLiteStartCommand reads the clock; the transaction comes later.
BuildCommand(r, n) ==
    /\ Cardinality(commands) < MaxCommands
    /\ commands' = commands \cup {[run |-> r, network |-> n, at |-> now]}
    /\ UNCHANGED <<now, run, channels, settled, count, admitted, cleanerVars>>

\* The two buckets of a command, in the window of its own time.
Buckets(cmd) == {cmd.network, ClientOf[cmd.run]} \X {cmd.at \div Window}

Whole(r) == run[r].state # "absent" /\ channels[r] = Channels

\* Mutant of Absent: a partial bundle is written again instead of refused.
AbsentOrPartial(r) == ~Whole(r)

Absent(r) == run[r].state = "absent" /\ channels[r] = {}

Charge(ledger, cmd) ==
    [b \in DOMAIN ledger |->
       IF b \in Buckets(cmd) THEN ledger[b] + 1 ELSE ledger[b]]

Admissible(cmd) == \A b \in Buckets(cmd) : count[b] < Limit

StartCreates(cmd) ==
    /\ cmd \in commands
    /\ Absent(cmd.run)
    /\ Admissible(cmd)
    /\ count' = Charge(count, cmd)
    /\ admitted' = Charge(admitted, cmd)
    /\ run' = [run EXCEPT ![cmd.run] =
                 [state |-> "open", expiresAt |-> cmd.at + Lifetime]]
    /\ channels' = [channels EXCEPT ![cmd.run] = Channels]
    /\ commands' = commands \ {cmd}
    /\ UNCHANGED <<now, settled, cleanerVars>>

\* The other ways out write nothing: an idempotent replay, the conflict of a
\* partial bundle, an exhausted bucket.
StartWritesNothing(cmd) ==
    /\ cmd \in commands
    /\ ~Absent(cmd.run) \/ ~Admissible(cmd)
    /\ commands' = commands \ {cmd}
    /\ UNCHANGED <<now, run, channels, settled, count, admitted, cleanerVars>>

\* The invocation ends before its transaction.
StartIsCutOff(cmd) ==
    /\ cmd \in commands
    /\ commands' = commands \ {cmd}
    /\ UNCHANGED <<now, run, channels, settled, count, admitted, cleanerVars>>

\* The dispatch gives a run up for good (claimDispatch, markDispatchFailed).
\* Execution documents are a collection of their own, which no cleanup touches,
\* and prepareExecution refuses one that another creation event left behind: a
\* run that was created again is never dispatched.
RunFails(r) ==
    /\ run[r].state = "open" /\ Whole(r)
    /\ r \notin settled
    /\ run' = [run EXCEPT ![r].state = "terminal"]
    /\ settled' = settled \cup {r}
    /\ UNCHANGED <<now, channels, startVars, cleanerVars>>

\* Mutant of PurgeBucket: purged as soon as the window has ended.
PurgeBucketAtOnce(b) ==
    /\ count[b] # 0
    /\ now >= (b[2] + 1) * Window
    /\ count' = [count EXCEPT ![b] = 0]
    /\ UNCHANGED <<now, run, channels, settled, commands, admitted, cleanerVars>>

\* Time-to-live of a bucket: two windows after its window began.
PurgeBucket(b) ==
    /\ count[b] # 0
    /\ now >= (b[2] + 2) * Window
    /\ count' = [count EXCEPT ![b] = 0]
    /\ UNCHANGED <<now, run, channels, settled, commands, admitted, cleanerVars>>

-----------------------------------------------------------------------------
(* The scheduled cleanup.                                                  *)

At(c, pc) == cleaner[c].pc = pc

\* The order of the query: by expiry, then by document id.
Precedes(x, y) == x[1] < y[1] \/ (x[1] = y[1] /\ x[2] < y[2])

First(k, S) == {x \in S : Cardinality({y \in S : Precedes(y, x)}) < k}

Expired(time) ==
    {<<run[r].expiresAt, r>> :
       r \in {q \in Runs : run[q].state # "absent" /\ run[q].expiresAt <= time}}

IsTerminal(x) == run[x[2]].state = "terminal"

\* Mutant of Worklist: skipped runs count against the process limit.
WorklistOfFirst(time) ==
    {x \in First(ProcessLimit, First(ScanLimit, Expired(time))) : IsTerminal(x)}

\* Non-terminal runs are skipped, yet they count against the scan limit.
Worklist(time) ==
    First(ProcessLimit, {x \in First(ScanLimit, Expired(time)) : IsTerminal(x)})

\* The query of a cycle.
CycleScans(c) ==
    /\ c \in due /\ At(c, "idle")
    /\ due' = due \ {c}
    /\ cleaner' = [cleaner EXCEPT
         ![c] = [IdleCleaner EXCEPT !.pc = "next", !.at = now,
                                    !.todo = Worklist(now)]]
    /\ UNCHANGED <<now, run, channels, settled, startVars, cutOffs>>

Candidate(c) == CHOOSE x \in First(1, cleaner[c].todo) : TRUE
Target(c) == Candidate(c)[2]

Goto(c, pc) ==
    /\ cleaner' = [cleaner EXCEPT ![c].pc = pc]
    /\ UNCHANGED <<due, cutOffs>>

\* The step of this run is over, whatever came of it.
NextCandidate(c) ==
    /\ cleaner' = [cleaner EXCEPT
         ![c] = [IdleCleaner EXCEPT
                   !.pc = "next", !.at = cleaner[c].at,
                   !.todo = cleaner[c].todo \ {Candidate(c)}]]
    /\ UNCHANGED <<due, cutOffs>>

\* assertCleanupCandidate, against the time of the cycle.
Cleanable(c, r) == run[r].state = "terminal" /\ run[r].expiresAt <= cleaner[c].at

StepLoadsPlan(c) ==
    /\ At(c, "next") /\ cleaner[c].todo # {}
    /\ Cleanable(c, Target(c))
    /\ cleaner' = [cleaner EXCEPT ![c].pc = "list", ![c].plan = run[Target(c)]]
    /\ UNCHANGED <<now, run, channels, settled, startVars, due, cutOffs>>

\* The run is gone already, or it is no candidate any more.
StepSkips(c) ==
    /\ At(c, "next") /\ cleaner[c].todo # {}
    /\ ~Cleanable(c, Target(c))
    /\ NextCandidate(c)
    /\ UNCHANGED <<now, run, channels, settled, startVars>>

\* A page of the collection, in the order of the document ids.
StepLists(c) ==
    /\ At(c, "list")
    /\ channels[Target(c)] # {}
    /\ \E batch \in SUBSET channels[Target(c)] :
         /\ \/ Cardinality(batch) = BatchSize
            \/ batch = channels[Target(c)] /\ Cardinality(batch) < BatchSize
         /\ cleaner' = [cleaner EXCEPT ![c].pc = "delete", ![c].batch = batch]
    /\ UNCHANGED <<now, run, channels, settled, startVars, due, cutOffs>>

\* Mutant of StepDeletesBatch: one batch is taken for the whole collection.
StepDeletesOneBatch(c) ==
    /\ At(c, "delete")
    /\ channels' = [channels EXCEPT ![Target(c)] = @ \ cleaner[c].batch]
    /\ Goto(c, "root")
    /\ UNCHANGED <<now, run, settled, startVars>>

StepDeletesBatch(c) ==
    /\ At(c, "delete")
    /\ channels' = [channels EXCEPT ![Target(c)] = @ \ cleaner[c].batch]
    /\ NextCandidate(c)
    /\ UNCHANGED <<now, run, settled, startVars>>

StepFindsNothing(c) ==
    /\ At(c, "list")
    /\ channels[Target(c)] = {}
    /\ Goto(c, "recheck")
    /\ UNCHANGED <<now, run, channels, settled, startVars>>

\* retry_required: the collection has documents again.
StepRechecks(c) ==
    /\ At(c, "recheck")
    /\ IF channels[Target(c)] = {} THEN Goto(c, "root") ELSE NextCandidate(c)
    /\ UNCHANGED <<now, run, channels, settled, startVars>>

\* Mutant of StepDeletesRoot: the plan is not validated again.
StepDeletesRootBlindly(c) ==
    /\ At(c, "root")
    /\ run' = [run EXCEPT ![Target(c)] = NoRun]
    /\ NextCandidate(c)
    /\ UNCHANGED <<now, channels, settled, startVars>>

\* deleteRootTransaction: the plan must still be the same.
StepDeletesRoot(c) ==
    /\ At(c, "root")
    /\ IF Cleanable(c, Target(c)) /\ run[Target(c)] = cleaner[c].plan
       THEN run' = [run EXCEPT ![Target(c)] = NoRun]
       ELSE run' = run
    /\ NextCandidate(c)
    /\ UNCHANGED <<now, channels, settled, startVars>>

CycleEnds(c) ==
    /\ At(c, "next") /\ cleaner[c].todo = {}
    /\ cleaner' = [cleaner EXCEPT ![c] = IdleCleaner]
    /\ UNCHANGED <<now, run, channels, settled, startVars, due, cutOffs>>

\* The time limit of the function, or the end of its instance.
CycleIsCutOff(c) ==
    /\ ~At(c, "idle") /\ cutOffs < MaxCutOffs
    /\ cutOffs' = cutOffs + 1
    /\ cleaner' = [cleaner EXCEPT ![c] = IdleCleaner]
    /\ UNCHANGED <<now, run, channels, settled, startVars, due>>

\* Every invocation ends within a tick: a callable after 60 seconds, a cleaner
\* after 540.  A start may still commit in the tick after the one it began in.
Tick ==
    /\ \A c \in Cleaners : At(c, "idle")
    /\ \A cmd \in commands : cmd.at = now
    /\ now' = IF now < Horizon THEN now + 1 ELSE now
    /\ due' = Cleaners
    /\ UNCHANGED <<run, channels, settled, startVars, cleaner, cutOffs>>

-----------------------------------------------------------------------------
CleanerStep(c) ==
    \/ CycleScans(c) \/ StepLoadsPlan(c) \/ StepSkips(c) \/ StepLists(c)
    \/ StepDeletesBatch(c) \/ StepFindsNothing(c) \/ StepRechecks(c)
    \/ StepDeletesRoot(c) \/ CycleEnds(c)

StartStep(cmd) == StartCreates(cmd) \/ StartWritesNothing(cmd)

RetentionNext ==
    \/ \E r \in Runs, n \in Networks : BuildCommand(r, n)
    \/ \E cmd \in commands : StartStep(cmd) \/ StartIsCutOff(cmd)
    \/ \E r \in Runs : RunFails(r)
    \/ \E b \in Scopes \X Windows : PurgeBucket(b)
    \/ \E c \in Cleaners : CleanerStep(c) \/ CycleIsCutOff(c)
    \/ Tick

RetentionSpec == RetentionInit /\ [][RetentionNext]_retentionVars

\* The scheduler fires every tick, and an invocation that is not cut off
\* proceeds.  Nobody has to start a run, and no bucket has to be purged.
FairRetentionSpec ==
    /\ RetentionSpec
    /\ WF_retentionVars(Tick)
    /\ WF_retentionVars(\E cmd \in commands : StartStep(cmd))
    /\ \A c \in Cleaners : WF_retentionVars(CleanerStep(c))

-----------------------------------------------------------------------------
(* Properties.                                                             *)

\* No window admits more runs of a network or of a client than its limit, even
\* though a start commits after its window has ended and buckets are purged;
\* the state is of its type, so that no bucket counts past it either.
WindowLimit ==
    /\ RetentionTypeOK
    /\ \A b \in Scopes \X Windows : admitted[b] <= Limit

\* A run that is open or has not expired keeps all its channels: the stale
\* reads and batches of a cleaner never hit a run that was created again.  True
\* of one cleaner (scheduledCleanupOptions: maxInstances 1, concurrency 1); two
\* that overlap can list the channels of a run after it was created again.
RetainedRunsAreWhole ==
    \A r \in Runs :
      run[r].state = "open" \/ (run[r].state = "terminal" /\ now < run[r].expiresAt)
        => channels[r] = Channels

\* A cleanup leaves no channel behind without its run, where no query for
\* expired runs would ever find it.
ChannelsHaveTheirRun ==
    \A r \in Runs : run[r].state = "absent" => channels[r] = {}

\* A run is only deleted once it is terminal and expired, although the root is
\* deleted on behalf of a plan made of an earlier read.
OnlyExpiredRunsGo ==
    [][\A r \in Runs :
         run[r].state # "absent" /\ run'[r].state = "absent"
           => run[r].state = "terminal" /\ run[r].expiresAt <= now]_retentionVars

\* Expired runs that a cycle scans and skips.
Blocking == {x \in Expired(now) : ~IsTerminal(x)}

\* While fewer open runs have expired than a cycle scans, every terminal run
\* that expires is deleted in the end, for all the cut-offs and limits.
TerminalRunsGo ==
    <>[](Cardinality(Blocking) < ScanLimit)
      => \A r \in Runs :
           (run[r].state = "terminal" /\ run[r].expiresAt <= Horizon)
             ~> run[r].state = "absent"
=============================================================================
