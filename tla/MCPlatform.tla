----------------------------- MODULE MCPlatform -----------------------------
\* Platform over a few documents at a time: each budget turns some of the
\* callables on.
EXTENDS Platform

LOCAL Tools == INSTANCE TLC

\* Laboratory authority: custody of one sample or of two, appends that race;
\* findings and their appeals; the registry.
AuthorityBudgets ==
    {[case |-> 1, event |-> 2, calls |-> 2],
     [case |-> 1, event |-> 4, calls |-> 1],
     [case |-> 1, request |-> 2, result |-> 1, finding |-> 1, appeal |-> 1,
      calls |-> 1],
     [case |-> 1, request |-> 2, finding |-> 1, appeal |-> 1, calls |-> 2],
     [case |-> 1, request |-> 1, finding |-> 2, appeal |-> 1, calls |-> 1],
     [laboratory |-> 2, accreditation |-> 2, registryAudit |-> 6]}

\* Detective tasks, their dispatches and answers, and the risk signals made of
\* them, of scans and of monitoring signals.
RiskBudgets ==
    {[operation |-> 1, dispatch |-> 2, riskSignal |-> 2, calls |-> 2],
     [submission |-> 1, dispatch |-> 2, riskSignal |-> 1, calls |-> 2],
     [source |-> 3, riskSignal |-> 2, calls |-> 2],
     [productCode |-> 1, scan |-> 2, scanReview |-> 2, codeStatus |-> 1,
      riskSignal |-> 1, calls |-> 1],
     [productCode |-> 2, scan |-> 4]}

\* Cases of one monitoring signal.
CaseOf(bounds) == [source |-> 1, caseFile |-> 1] @@ bounds

CaseBudgets ==
    {CaseOf(x) : x \in
      {[hold |-> 2, recordEvent |-> 4, retention |-> 1, close |-> 1,
        calls |-> 1],
       [hold |-> 2, recordEvent |-> 3, package |-> 1, calls |-> 2],
       [reviewTask |-> 1, recordEvent |-> 5, close |-> 1, calls |-> 1],
       [party |-> 1, relationship |-> 1, recordEvent |-> 4, calls |-> 1],
       [chain |-> 1, recordEvent |-> 5, package |-> 1, calls |-> 1],
       [uploadSession |-> 2, generation |-> 1, issues |-> 2, window |-> 1,
        calls |-> 2],
       [uploadSession |-> 2, generation |-> 1, issues |-> 1, window |-> 2,
        calls |-> 2],
       [uploadSession |-> 1, generation |-> 2, issues |-> 1, window |-> 1,
        removal |-> 1, calls |-> 2]}}

\* What the public and the brands see.
PublicBudgets ==
    {[twinReport |-> 2],
     [twinRecord |-> 2, twinUpdate |-> 2],
     [creation |-> 1, creationVersion |-> 3, archive |-> 1],
     [creation |-> 2, creationVersion |-> 2, registryOwner |-> 2],
     [sponsor |-> 2, logo |-> 2, sponsorEvent |-> 2, calls |-> 2],
     [sponsor |-> 1, logo |-> 2, sponsorEvent |-> 3, calls |-> 2],
     [partner |-> 1, facility |-> 1, control |-> 1, asset |-> 1],
     [partner |-> 2, facility |-> 2, asset |-> 1],
     [brandApplication |-> 2, tenant |-> 1],
     [subscription |-> 1, entry |-> 1]}

MCBudgets == AuthorityBudgets \cup RiskBudgets \cup CaseBudgets
               \cup PublicBudgets

MCSymmetry ==
    UNION {Tools!Permutations(s) : s \in {Calls, Samples, Laboratories, Agents}}
=============================================================================
