--------------------------- MODULE DocumentStore ---------------------------
(***************************************************************************)
(* The documents that the callables of several services keep, by           *)
(* <<kind, ...>>, and the calls that have read some of them and not yet    *)
(* written.  A transaction is one step; a handler that reads before its    *)
(* transaction is two, and other calls may come between them.              *)
(***************************************************************************)
EXTENDS Naturals, FiniteSets

CONSTANTS
    Calls,   \* invocations of the callables that are open at a time
    Budgets  \* bounds: how many documents of a kind there are to be, how
             \* many calls are open, and which operations are on

ASSUME BudgetAssumption == \A b \in Budgets : \A k \in DOMAIN b : b[k] \in Nat

VARIABLES
    document,  \* the documents of all collections
    call,      \* what each open call has read and decided
    budget     \* the bound of this behaviour, one of Budgets

documentVars == <<document, call, budget>>

\* One entry, and one function over another.  They are those of module TLC,
\* which the prover does not know.
d :> x == [e \in {d} |-> x]
f @@ g == [d \in DOMAIN f \cup DOMAIN g |-> IF d \in DOMAIN f THEN f[d] ELSE g[d]]

Idle == [pc |-> "idle"]

DocumentsInit ==
    /\ document = <<>>
    /\ call = [c \in Calls |-> Idle]
    /\ budget \in Budgets

\* What a budget does not name has no room.
Bound(k) == IF k \in DOMAIN budget THEN budget[k] ELSE 0

Exists(d) == d \in DOMAIN document
Kind(k) == {d \in DOMAIN document : d[1] = k}
Room(k) == Cardinality(Kind(k)) < Bound(k)

\* The next of the kinds that are only ever added to.
NextOf(k) == Cardinality(Kind(k)) + 1

\* Identities that clients choose: those that are known, and the next one.
Chosen(k) == 1 .. (IF Room(k) THEN Cardinality(Kind(k)) + 1
                              ELSE Cardinality(Kind(k)))

-----------------------------------------------------------------------------
\* A handler that is one transaction, or reads what does not change.
Transact(writes) ==
    /\ document' = writes @@ document
    /\ UNCHANGED <<call, budget>>

\* One that also deletes a document.
TransactDeleting(d, writes) ==
    /\ document' = writes @@ [x \in DOMAIN document \ {d} |-> document[x]]
    /\ UNCHANGED <<call, budget>>

\* A handler that goes on after its first transaction.
Claim(c, writes, next) ==
    /\ call[c].pc = "idle"
    /\ Cardinality({d \in Calls : call[d].pc # "idle"}) < Bound("calls")
    /\ document' = writes @@ document
    /\ call' = [call EXCEPT ![c] = next]
    /\ UNCHANGED budget

\* What a handler does before its transaction.
Read(c, next) == Claim(c, <<>>, next)

Step(c, writes, next) ==
    /\ document' = writes @@ document
    /\ call' = [call EXCEPT ![c] = next]
    /\ UNCHANGED budget

Commit(c, writes) == Step(c, writes, Idle)

\* The call is refused by its transaction, or cut off before it.
GiveUp(c) ==
    /\ call[c].pc # "idle"
    /\ call' = [call EXCEPT ![c] = Idle]
    /\ UNCHANGED <<document, budget>>
=============================================================================
