---------------------------- MODULE Traceability ----------------------------
(***************************************************************************)
(* Product verification: whoever scans a public product code gets its      *)
(* status and a risk score, and the code counts the scan.  The owner of a  *)
(* code reviews its suspicious scans and opens cases of them.  Codes are   *)
(* issued, blocked and revoked elsewhere.                                  *)
(***************************************************************************)
EXTENDS DocumentStore

ProductCode(i) == <<"productCode", i>>
Scan(i) == <<"scan", i>>
TraceabilityCase(i) == <<"traceabilityCase", i>>

CodeStatus == {"active", "inactive", "blocked", "revoked"}
Platforms == {"web", "android"}
ScanSources == {"qr", "manual"}

-----------------------------------------------------------------------------
\* External: the codes and their status.
IssueProductCode(i) ==
    /\ ~Exists(ProductCode(i))
    /\ Transact(ProductCode(i) :>
         [status |-> "active", scanCount |-> 0, suspiciousScanCount |-> 0,
          platform |-> "", source |-> ""])

SetCodeStatus(d, status) ==
    Transact(d :> [document[d] EXCEPT !.status = status])

-----------------------------------------------------------------------------
StatusPoints(status) ==
    CASE status = "revoked" -> 100
      [] status = "blocked" -> 90
      [] status = "inactive" -> 60
      [] OTHER -> 0

VolumePoints(count) ==
    IF count >= 10 THEN 55
    ELSE IF count >= 5 THEN 40
    ELSE IF count >= 3 THEN 25
    ELSE IF count >= 2 THEN 10
    ELSE 0

\* rapid: within ten minutes of the scan before.
riskScore(code, count, platform, source, rapid) ==
    LET changed == IF count > 1 /\ code.platform # platform THEN 10 ELSE 0
        moved == IF count > 1 /\ code.source # source THEN 5 ELSE 0
        repeated == IF count > 1 /\ rapid THEN 25 ELSE 0
        points == StatusPoints(code.status) + VolumePoints(count)
                    + repeated + changed + moved
    IN IF points > 100 THEN 100 ELSE points

Suspicious(status, score) ==
    status \in {"blocked", "revoked"} \/ score >= 20

\* A scan of no code has no owner, who could review it.
VerifyUnknownCode ==
    Transact(Scan(NextOf("scan")) :>
      [found |-> FALSE, code |-> <<>>, number |-> 0, suspicious |-> TRUE,
       review |-> "pending", case |-> <<>>, version |-> 1])

VerifyProductCode(d, platform, source, rapid) ==
    LET code == document[d]
        count == code.scanCount + 1
        suspicious == Suspicious(code.status,
                                 riskScore(code, count, platform, source,
                                           rapid))
    IN Transact(
         d :> [code EXCEPT !.scanCount = count,
                           !.suspiciousScanCount =
                             @ + IF suspicious THEN 1 ELSE 0,
                           !.platform = platform, !.source = source]
         @@ Scan(NextOf("scan")) :>
              [found |-> TRUE, code |-> d, number |-> count,
               suspicious |-> suspicious,
               review |-> IF suspicious THEN "pending" ELSE "not_required",
               case |-> <<>>, version |-> 1])

-----------------------------------------------------------------------------
\* What the owner may look into.  Neither part of it ever changes, so that
\* the review, which reads it before it writes, is one step.
Reviewable(d) == document[d].found /\ document[d].suspicious

Reviewed(d, review, case) ==
    d :> [document[d] EXCEPT !.review = review, !.case = case,
                             !.version = @ + 1]

\* Any decision may replace any other, that of an open case too.
ReviewSuspiciousVerificationScan(d, review) ==
    /\ Reviewable(d)
    /\ Transact(Reviewed(d, review, document[d].case))

\* Mutant of Uncased: the case that a scan has is not looked for.
UncasedUnchecked(d) == Reviewable(d)

\* A scan that has a case is answered with it.
Uncased(d) == Reviewable(d) /\ ~Exists(document[d].case)

CreateTraceabilityCaseFromScan(d) ==
    LET case == TraceabilityCase(NextOf("traceabilityCase")) IN
    /\ Uncased(d)
    /\ Transact(case :> [scan |-> d, status |-> "open"]
                @@ Reviewed(d, "escalated", case))

TraceabilityNext ==
    \/ Room("productCode") /\ IssueProductCode(NextOf("productCode"))
    \/ \E d \in Kind("productCode"), status \in CodeStatus :
         Bound("codeStatus") = 1 /\ SetCodeStatus(d, status)
    \/ Room("scan") /\
         \/ VerifyUnknownCode
         \/ \E d \in Kind("productCode"), platform \in Platforms,
               source \in ScanSources, rapid \in BOOLEAN :
              VerifyProductCode(d, platform, source, rapid)
    \/ \E d \in Kind("scan") :
         /\ document[d].version <= Bound("scanReview")
         /\ \/ \E review \in {"reviewed", "dismissed", "escalated"} :
                 ReviewSuspiciousVerificationScan(d, review)
            \/ CreateTraceabilityCaseFromScan(d)

-----------------------------------------------------------------------------
ScansOf(d) == {x \in Kind("scan") : document[x].code = d}

\* A code's counters are its scans, numbered without a gap; from the third
\* scan on every scan is suspicious; and a scan has one case at most, that
\* names it.
ScansCounted ==
    /\ \A d \in Kind("productCode") :
         /\ Cardinality(ScansOf(d)) = document[d].scanCount
         /\ {document[x].number : x \in ScansOf(d)}
              = 1 .. document[d].scanCount
         /\ Cardinality({x \in ScansOf(d) : document[x].suspicious})
              = document[d].suspiciousScanCount
    /\ \A d \in Kind("scan") : document[d].number >= 3 => document[d].suspicious
    /\ \A x \in Kind("traceabilityCase") : document[document[x].scan].case = x
=============================================================================
