-------------------------- MODULE CounterfeitTwins --------------------------
(***************************************************************************)
(* The counterfeit twin radar: reports of the public, their review, the    *)
(* public comparison that a published one becomes, and their deletion; and *)
(* the twin records that a brand keeps for itself.                         *)
(***************************************************************************)
EXTENDS DocumentStore

CONSTANTS
    Images,    \* pictures of the original and of the suspected product
    TwinCodes  \* normalized record codes

Report(i) == <<"twinReport", i>>
Comparison(i) == <<"comparison", i>>
Deletion(i) == <<"reportDeletion", i>>
TwinRecord(i) == <<"twinRecord", i>>

-----------------------------------------------------------------------------
\* Reports.  A deleted one is never there again: the next is another.
NewReport ==
    Report(Cardinality(Kind("twinReport"))
             + Cardinality(Kind("reportDeletion")) + 1)

\* Evidence may be a link: there need be no image.
SubmitCounterfeitTwinReport(images) ==
    Transact(NewReport :> [status |-> "submitted", images |-> images,
                           approved |-> {}, comparison |-> <<>>])

\* Mutant of Undecided: what was published is decided again.
UndecidedOrPublished(r) ==
    document[r].status \in {"submitted", "under_review", "published"}

Undecided(r) == document[r].status \in {"submitted", "under_review"}

\* The reviewer approves some of the report's images; one that publishes
\* creates the public comparison of them.
ReviewCounterfeitTwinReport(r, decision, approved) ==
    LET comparison == Comparison(NextOf("comparison"))
        reviewed == [document[r] EXCEPT !.status = decision,
                                        !.approved = approved]
    IN
    /\ Undecided(r) /\ approved \subseteq document[r].images
    /\ \/ /\ decision # "published"
          /\ Transact(r :> reviewed)
       \/ /\ decision = "published"
          /\ Transact(comparison :> [report |-> r, images |-> approved]
                      @@ r :> [reviewed EXCEPT !.comparison = comparison])

Deletable(r) ==
    /\ document[r].comparison = <<>>
    /\ document[r].status \in {"submitted", "under_review", "rejected"}

DeleteCounterfeitTwinReport(r) ==
    /\ Deletable(r)
    /\ TransactDeleting(r, Deletion(NextOf("reportDeletion")) :>
         [report |-> r, previousStatus |-> document[r].status])

-----------------------------------------------------------------------------
\* Twin records: any status may follow any other until one is archived.  The
\* draft stands for the statuses that bear no date.
Dated == {"confirmed", "dismissed", "archived"}
TwinStatus == {"draft"} \cup Dated

CodeTaken(code) == \E d \in Kind("twinRecord") : document[d].code = code

\* Since when a record has the dated status it has.  The time is the count of
\* its updates.
lifecycleFields(status, existing, now) ==
    IF status \notin Dated THEN 0
    ELSE IF existing.status = status THEN existing.since ELSE now

CreateCounterfeitTwinRecord(code, status) ==
    /\ ~CodeTaken(code)
    /\ Transact(TwinRecord(NextOf("twinRecord")) :>
         [code |-> code, status |-> status, updates |-> 1,
          since |-> IF status \in Dated THEN 1 ELSE 0])

UpdateCounterfeitTwinRecord(d, status) ==
    LET now == document[d].updates + 1 IN
    /\ document[d].status # "archived"
    /\ Transact(d :> [document[d] EXCEPT
         !.status = status, !.updates = now,
         !.since = lifecycleFields(status, document[d], now)])

CounterfeitTwinsNext ==
    \/ /\ Cardinality(Kind("twinReport")) + Cardinality(Kind("reportDeletion"))
            < Bound("twinReport")
       /\ \E images \in SUBSET Images : SubmitCounterfeitTwinReport(images)
    \/ \E r \in Kind("twinReport") :
         \/ \E decision \in {"under_review", "rejected", "published"},
               approved \in SUBSET Images :
              ReviewCounterfeitTwinReport(r, decision, approved)
         \/ DeleteCounterfeitTwinReport(r)
    \/ \E code \in TwinCodes, status \in TwinStatus :
         Room("twinRecord") /\ CreateCounterfeitTwinRecord(code, status)
    \/ \E d \in Kind("twinRecord"), status \in TwinStatus :
         /\ document[d].updates < Bound("twinUpdate")
         /\ UpdateCounterfeitTwinRecord(d, status)

-----------------------------------------------------------------------------
\* The public sees of a report what was approved, once, for as long as the
\* report is there: every comparison is that of a published report, which
\* names it; and of a report that was deleted nothing was ever published.
ComparisonsTold ==
    /\ \A x \in Kind("comparison") :
         LET r == document[x].report IN
         /\ Exists(r) /\ document[r].status = "published"
         /\ document[r].comparison = x
         /\ document[x].images = document[r].approved
    /\ \A r \in Kind("twinReport") :
         /\ document[r].status = "published" <=> Exists(document[r].comparison)
         /\ document[r].approved \subseteq document[r].images
    /\ \A x, y \in Kind("reportDeletion") :
         document[x].report = document[y].report => x = y
    /\ \A x \in Kind("reportDeletion") : ~Exists(document[x].report)
=============================================================================
