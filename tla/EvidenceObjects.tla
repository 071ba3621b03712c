--------------------------- MODULE EvidenceObjects ---------------------------
(***************************************************************************)
(* The files of evidence: a session lets the client upload a file to       *)
(* staging; finalizing the upload hashes the staged generation, reserves   *)
(* its promotion, copies it to its permanent place and binds it to the     *)
(* evidence.  Calls may be cut off between these steps and repeated, and a *)
(* session expires meanwhile.                                              *)
(*                                                                         *)
(* The storage is external: uploads, and the removal of staged objects.  A *)
(* generation stands for its bytes and their digest.                       *)
(***************************************************************************)
EXTENDS CaseFiles

NoGeneration == 0

\* Sessions of a client's requests on the evidence of case s, each with one
\* staging object, one permanent object and one binding.
UploadSession(s, r) == <<"uploadSession", s, r>>
Uploads(s) == <<"uploads", s>>
Staged(u) == <<"staged", u>>
Permanent(u) == <<"permanent", u>>
EvidenceObject(u) == <<"evidenceObject", u[2], u>>

Sessions(s) == RecordsOf(s, "uploadSession")

\* objectBindingSummary of the evidence: window counts the windows of the
\* issue quota so far.
Summary(s) ==
    IF Exists(Uploads(s)) THEN document[Uploads(s)]
    ELSE [active |-> <<>>, activeStatus |-> "", objectCount |-> 0,
          issued |-> 0, window |-> 1]

\* What a call takes for over when it reads the clock.
Expired(s) == {u \in Sessions(s) : document[u].expired}

\* The client may go on with a promotion, whose reservation has no end.
activeSessionAvailable(s, u, expired) ==
    LET summary == Summary(s) IN
    /\ summary.active \notin {<<>>, u}
    /\ \/ summary.activeStatus = "promotion_pending"
       \/ summary.active \notin expired

\* The window that was over when the call read the clock starts anew.
uploadWindow(s, over) ==
    IF Summary(s).window = over THEN [window |-> over + 1, issued |-> 0]
    ELSE [window |-> Summary(s).window, issued |-> Summary(s).issued]

Issuable(s, u, expired, over) ==
    /\ CaseOpen(s)
    /\ ~Exists(u)
    /\ ~activeSessionAvailable(s, u, expired)
    /\ uploadWindow(s, over).issued < Bound("issues")

\* over: whether the window ends before this call.
ReadUploadSession(c, s, r, over) ==
    LET window == IF over THEN Summary(s).window ELSE 0
        u == UploadSession(s, r) IN
    /\ Issuable(s, u, Expired(s), window)
    /\ Read(c, [pc |-> "upload", session |-> u, ended |-> Expired(s),
                over |-> window])

CreateUploadSession(c) ==
    LET x == call[c]
        u == x.session
        s == u[2]
        window == uploadWindow(s, x.over) IN
    /\ x.pc = "upload"
    /\ Issuable(s, u, x.ended, x.over)
    /\ Commit(c,
         u :> [status |-> "upload_pending", expired |-> FALSE,
               generation |-> NoGeneration, window |-> window.window]
         @@ Uploads(s) :>
              [Summary(s) EXCEPT !.active = u,
                                 !.activeStatus = "upload_pending",
                                 !.issued = window.issued + 1,
                                 !.window = window.window])

-----------------------------------------------------------------------------
\* The storage and the clock.

StagedGeneration(u) ==
    IF Exists(Staged(u)) THEN document[Staged(u)].generation ELSE NoGeneration

\* Only where there is no object: two calls that race for one session hold an
\* upload URI each.
StageObject(u) ==
    /\ ~ (Exists(Staged(u)) /\ document[Staged(u)].present)
    /\ StagedGeneration(u) < Bound("generation")
    /\ Transact(Staged(u) :> [generation |-> StagedGeneration(u) + 1,
                              present |-> TRUE])

RemoveStaged(u) ==
    /\ Exists(Staged(u)) /\ document[Staged(u)].present
    /\ Transact(Staged(u) :> [document[Staged(u)] EXCEPT !.present = FALSE])

SessionExpires(u) ==
    /\ ~document[u].expired
    /\ Transact(u :> [document[u] EXCEPT !.expired = TRUE])

-----------------------------------------------------------------------------
\* Finalizing.  A session that is finalized is answered so.

\* A reserved promotion is for one generation.
Finalizable(u, generation, expired) ==
    \/ document[u].status = "upload_pending" /\ ~expired
    \/ /\ document[u].status = "promotion_pending"
       /\ document[u].generation = generation

\* The generation that the client names, and what its bytes hash to.
ReadStagedObject(c, u) ==
    LET generation == StagedGeneration(u) IN
    /\ Exists(Staged(u)) /\ document[Staged(u)].present
    /\ Finalizable(u, generation, document[u].expired)
    /\ document[u].status = "upload_pending" => CaseOpen(u[2])
    /\ Read(c, [pc |-> "reserve", session |-> u, generation |-> generation,
                expired |-> document[u].expired])

\* Mutant of ActiveUnchanged: the session is the caller's own.
ActiveUnchangedUnchecked(u) == TRUE

ActiveUnchanged(u) == Summary(u[2]).active \in {<<>>, u}

\* Reserved once: another call, or this one again, finds the reservation.
ReservePromotion(c) ==
    LET x == call[c]
        u == x.session
        s == u[2]
        next == [x EXCEPT !.pc = "promote_object"] IN
    /\ x.pc = "reserve"
    /\ Finalizable(u, x.generation, x.expired)
    /\ \/ /\ document[u].status = "upload_pending"
          /\ CaseOpen(s)
          /\ ActiveUnchanged(u)
          /\ Step(c, u :> [document[u] EXCEPT !.status = "promotion_pending",
                                              !.generation = x.generation]
                     @@ Uploads(s) :>
                          [Summary(s) EXCEPT
                             !.active = u,
                             !.activeStatus = "promotion_pending"],
                  next)
       \/ document[u].status = "promotion_pending" /\ Step(c, <<>>, next)

\* The copy is refused where an object is, whose metadata must tell the same.
PromoteObject(c) ==
    LET x == call[c]
        u == x.session
        next == [x EXCEPT !.pc = "bind"] IN
    /\ x.pc = "promote_object"
    /\ \/ /\ ~Exists(Permanent(u))
          /\ document[Staged(u)].present
          /\ StagedGeneration(u) = x.generation
          /\ Step(c, Permanent(u) :> [generation |-> x.generation], next)
       \/ /\ Exists(Permanent(u))
          /\ document[Permanent(u)].generation = x.generation
          /\ Step(c, <<>>, next)

\* Of a closed case too.
BindObject(c) ==
    LET x == call[c]
        u == x.session
        s == u[2] IN
    /\ x.pc = "bind"
    /\ document[u].status = "promotion_pending"
    /\ document[u].generation = x.generation
    /\ ActiveUnchanged(u)
    /\ ~Exists(EvidenceObject(u))
    /\ Commit(c,
         EvidenceObject(u) :> [generation |-> x.generation]
         @@ CaseEvent(s, EvidenceObject(u)) :>
              [type |-> "evidence_object_bound"]
         @@ u :> [document[u] EXCEPT !.status = "finalized"]
         @@ Uploads(s) :> [Summary(s) EXCEPT !.objectCount = @ + 1,
                                             !.active = <<>>,
                                             !.activeStatus = ""])

UploadsNext(c) ==
    \/ \E s \in Cases, over \in BOOLEAN :
         \E r \in 1 .. Bound("uploadSession") :
           /\ Summary(s).window + (IF over THEN 1 ELSE 0) <= Bound("window")
           /\ ReadUploadSession(c, s, r, over)
    \/ CreateUploadSession(c)
    \/ \E u \in Kind("uploadSession") :
         \/ StageObject(u)
         \/ Bound("removal") = 1 /\ RemoveStaged(u)
         \/ SessionExpires(u)
         \/ ReadStagedObject(c, u)
    \/ ReservePromotion(c)
    \/ PromoteObject(c)
    \/ BindObject(c)

-----------------------------------------------------------------------------
\* However finalizers of several sessions interleave and are cut off: at most
\* one promotion of an evidence is under way, that of the active session; a
\* session that is finalized has one object, a copy of the bytes that were
\* hashed; the evidence counts its objects, and no window issues more sessions
\* than the quota.
UploadsBound ==
    \A s \in Cases :
        LET summary == Summary(s)
            finalized == {u \in Sessions(s) : document[u].status = "finalized"}
        IN
        /\ \A u \in Sessions(s) :
             /\ document[u].status = "promotion_pending" =>
                  summary.active = u
                    /\ summary.activeStatus = "promotion_pending"
             /\ Exists(Permanent(u)) =>
                  document[u].generation = document[Permanent(u)].generation
             /\ document[u].status = "finalized" <=> Exists(EvidenceObject(u))
             /\ Exists(EvidenceObject(u)) =>
                  document[EvidenceObject(u)] = document[Permanent(u)]
        /\ summary.objectCount = Cardinality(finalized)
        /\ \A w \in 1 .. summary.window :
             Cardinality({u \in Sessions(s) : document[u].window = w})
               <= Bound("issues")
=============================================================================
