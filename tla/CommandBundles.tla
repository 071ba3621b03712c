--------------------------- MODULE CommandBundles ---------------------------
(***************************************************************************)
(* How professional_services and intervention_legal execute a command.     *)
(*                                                                         *)
(* A service function reads its receipt and the documents it needs one by  *)
(* one and outside of any transaction, checks the versions the client      *)
(* expects and its guards, and prepares a bundle: documents to write, a    *)
(* domain event and a command receipt.  The adapter then commits the       *)
(* bundle in one transaction, which looks again for the receipt and the    *)
(* event and compares the versions.  Other commands may commit in between. *)
(*                                                                         *)
(* Every document has a version, 0 while it does not exist; immutable ones *)
(* are created with version 1 and named in a bundle as expected to be      *)
(* absent.                                                                 *)
(***************************************************************************)
EXTENDS Naturals, FiniteSets

CONSTANTS
    Calls,   \* invocations of the callables
    Budgets  \* bounds: how many events an aggregate of each kind is to
             \* have, how many tasks a request has, and how many calls are open

VARIABLES
    document,  \* the documents of all collections, by <<kind, ...>>
    event,     \* domain events, by <<aggregate, request, type>>
    receipt,   \* command receipts, by <<scope type, scope, key>>
    call,      \* the bundle each call has prepared
    budget     \* the bound of this behaviour, one of Budgets

storeVars == <<document, event, receipt, call, budget>>

Idle == [pc |-> "idle"]

Version(d) ==
    IF d \in DOMAIN document THEN document[d].version ELSE 0
Exists(d) == d \in DOMAIN document

\* A bundle that names one document, or two.
One(d, x) == [i \in {d} |-> x]
Two(d1, x1, d2, x2) == [i \in {d1, d2} |-> IF i = d1 THEN x1 ELSE x2]

StoreTypeOK ==
    /\ \A d \in DOMAIN document : document[d].version \in Nat \ {0}
    /\ \A c \in Calls : call[c].pc \in {"idle", "prepared", "collided"}
    /\ budget \in Budgets

StoreInit ==
    /\ document = [d \in {} |-> Idle]
    /\ event = {}
    /\ receipt = {}
    /\ call = [c \in Calls |-> Idle]
    /\ budget \in Budgets

-----------------------------------------------------------------------------
EventsOf(aggregate) == {e \in event : e[1] = aggregate}

\* Clients send the last request again, or a new one each.  A request bears
\* its idempotency key; the second key of a request makes it a new command
\* with the request id of another.
SentTo(aggregate) ==
    LET sent == Cardinality({e[2] : e \in EventsOf(aggregate)}) IN
    IF Cardinality(EventsOf(aggregate)) < budget[aggregate[1]]
    THEN (sent .. sent + budget["calls"]) \ {0} ELSE {}
Keys == {1, 2}

\* The call takes its bundle along when its receipt is not there yet: a
\* receipt is answered as a replay or as a conflict without a write.
Prepare(c, op, expects, writes, e, r) ==
    /\ call[c].pc = "idle"
    /\ Cardinality({d \in Calls : call[d].pc = "prepared"}) < budget["calls"]
    /\ r \notin receipt
    /\ call' = [call EXCEPT ![c] =
         [pc |-> "prepared", op |-> op, expects |-> expects,
          writes |-> writes, event |-> e, receipt |-> r]]
    /\ UNCHANGED <<document, event, receipt, budget>>

\* Mutant of AsExpected: the versions are compared before only.
AsExpectedBefore(c) == TRUE

\* The versions the transaction finds are those the service read.
AsExpected(c) ==
    \A d \in DOMAIN call[c].expects : Version(d) = call[c].expects[d]

Written(c) ==
    LET w == call[c].writes IN
    [d \in DOMAIN document \cup DOMAIN w |->
       IF d \in DOMAIN w THEN w[d] ELSE document[d]]

Commit(c, op) ==
    /\ call[c].pc = "prepared" /\ call[c].op = op
    /\ call[c].receipt \notin receipt
    /\ AsExpected(c)
    /\ call[c].event \notin event
    /\ document' = Written(c)
    /\ event' = event \cup {call[c].event}
    /\ receipt' = receipt \cup {call[c].receipt}
    /\ call' = [call EXCEPT ![c] = Idle]
    /\ UNCHANGED budget

\* Nothing is written: the receipt is there, a version has changed, or the
\* request id has an event already.  The last is kept for the properties.
Refuse(c) ==
    /\ call[c].pc = "prepared"
    /\ \/ call[c].receipt \in receipt
       \/ ~AsExpected(c)
       \/ call[c].event \in event
    /\ call' = [call EXCEPT ![c] =
         IF call[c].receipt \notin receipt /\ AsExpected(c)
         THEN [call[c] EXCEPT !.pc = "collided"] ELSE Idle]
    /\ UNCHANGED <<document, event, receipt, budget>>

\* The call ends, answered with its refusal, or cut off with its bundle.
End(c) ==
    /\ call[c].pc \in {"collided", "prepared"}
    /\ call' = [call EXCEPT ![c] = Idle]
    /\ UNCHANGED <<document, event, receipt, budget>>
=============================================================================
