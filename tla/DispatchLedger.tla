--------------------------- MODULE DispatchLedger ---------------------------
(***************************************************************************)
(* What a lease-guarded dispatch ledger promises.  One job is attempted at *)
(* most MaxAttempts times; an attempt is taken by acquiring the lease,     *)
(* which may also be taken over from a holder that went silent; the job is *)
(* accepted at most once, by the attempt that holds the lease, and an      *)
(* accepted or an abandoned job is never touched again.                    *)
(*                                                                         *)
(* PublicLiteExecution (gateway dispatch) and PublicLiteHandoff (child     *)
(* dispatch) are each shown to implement this module.                      *)
(***************************************************************************)
EXTENDS Naturals

CONSTANT MaxAttempts

VARIABLES phase, attempt

ledger == <<phase, attempt>>

LedgerInit == phase = "open" /\ attempt = 0

Acquire ==
    /\ phase \in {"open", "held"}
    /\ attempt < MaxAttempts
    /\ phase' = "held"
    /\ attempt' = attempt + 1

Accept ==
    /\ phase = "held"
    /\ phase' = "accepted"
    /\ UNCHANGED attempt

\* A failed attempt reopens the job only while attempts are left.
Release ==
    /\ phase = "held"
    /\ attempt < MaxAttempts
    /\ phase' = "open"
    /\ UNCHANGED attempt

\* The job is given up by the failing holder, or by a successor that finds
\* the attempts used up.
Abandon ==
    /\ phase = "held"
    /\ phase' = "abandoned"
    /\ UNCHANGED attempt

LedgerNext == Acquire \/ Accept \/ Release \/ Abandon

LedgerSpec == LedgerInit /\ [][LedgerNext]_ledger
=============================================================================
