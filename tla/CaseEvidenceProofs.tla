------------------------- MODULE CaseEvidenceProofs -------------------------
(***************************************************************************)
(* What the centre of case files and evidence keeps, proved as in          *)
(* PlatformProofs: the files under upload and what is bound of them, and   *)
(* the chain, the holds, the retention and the packages of a case file;    *)
(* and, of the whole platform, that what has ended stays as it is.         *)
(***************************************************************************)
EXTENDS PlatformProofs

-----------------------------------------------------------------------------
(* The files of evidence.                                                  *)

SummaryFields ==
    {"active", "activeStatus", "objectCount", "issued", "window"}
SessionFields == {"status", "expired", "generation", "window"}

Finalized(s) == {u \in Sessions(s) : document[u].status = "finalized"}
IssuedIn(s, w) == {u \in Sessions(s) : document[u].window = w}

\* The permanent object is a copy of the generation that was reserved, and the
\* binding one of the object.
SessionIs(u) ==
    LET x == document[u]
        s == u[2] IN
    /\ u = UploadSession(s, u[3])
    /\ x = [f \in SessionFields |-> x[f]]
    /\ x.window \in 1 .. Summary(s).window
    /\ x.status = "promotion_pending" =>
         Summary(s).active = u /\ Summary(s).activeStatus = "promotion_pending"
    /\ Permanent(u) \in DOMAIN document =>
         /\ document[Permanent(u)] = [generation |-> x.generation]
         /\ x.status # "upload_pending"
    /\ x.status = "finalized" <=> EvidenceObject(u) \in DOMAIN document
    /\ EvidenceObject(u) \in DOMAIN document =>
         /\ Permanent(u) \in DOMAIN document
         /\ document[EvidenceObject(u)] = document[Permanent(u)]

\* Objects are those of sessions.
ObjectOf(u) ==
    Permanent(u) \in DOMAIN document \/ EvidenceObject(u) \in DOMAIN document =>
      u \in Kind("uploadSession")

SummaryIs(s) ==
    LET m == Summary(s) IN
    /\ m = [f \in SummaryFields |-> m[f]]
    /\ m.window \in Nat \ {0}
    /\ IsFiniteSet(Sessions(s))
    /\ m.objectCount = Cardinality(Finalized(s))
    /\ m.issued = Cardinality(IssuedIn(s, m.window))
    /\ \A w \in Nat : Cardinality(IssuedIn(s, w)) <= Bound("issues")

\* A call that has reserved its promotion goes on with the generation that is
\* reserved, and one that has promoted it with the object.
FinalizeIs(c) ==
    LET x == call[c]
        u == x.session IN
    /\ x.pc = "upload" => u = UploadSession(u[2], u[3])
    /\ x.pc \in {"reserve", "promote_object", "bind"} =>
         u \in Kind("uploadSession")
    /\ x.pc \in {"promote_object", "bind"} =>
         /\ document[u].status # "upload_pending"
         /\ document[u].generation = x.generation
    /\ x.pc = "bind" => Permanent(u) \in DOMAIN document

UploadsInv ==
    /\ budget \in Budgets
    /\ \A u \in Kind("uploadSession") : SessionIs(u)
    /\ \A u : ObjectOf(u)
    /\ \A s : SummaryIs(s)
    /\ \A c \in Calls : FinalizeIs(c)

LEMMA UploadsIds ==
  /\ \A s, i : /\ UploadSession(s, i)[2] = s /\ UploadSession(s, i)[3] = i
               /\ UploadSession(s, i) # <<>>
  /\ \A s, t : Uploads(s) = Uploads(t) => s = t
  /\ \A u, v : Permanent(u) = Permanent(v) => u = v
  /\ \A u, v : EvidenceObject(u) = EvidenceObject(v) => u = v
  /\ SummaryFields = {"active", "activeStatus", "objectCount", "issued",
                      "window"}
  /\ SessionFields = {"status", "expired", "generation", "window"}
  BY DEF UploadSession, Uploads, Permanent, EvidenceObject, SummaryFields,
     SessionFields

LEMMA SummarySame ==
  ASSUME NEW s, Same(Uploads(s))
  PROVE  Summary(s)' = Summary(s)
  BY DEF Summary, Same, Exists

LEMMA SummaryNow ==
  ASSUME NEW s, NEW m, Uploads(s) \in DOMAIN document',
         document'[Uploads(s)] = m
  PROVE  Summary(s)' = m
  BY DEF Summary, Exists

LEMMA BoundIs ==
  ASSUME budget \in Budgets, NEW k
  PROVE  Bound(k) \in Nat
  BY BudgetAssumption DEF Bound

LEMMA UploadsMean ==
  ASSUME UploadsInv
  PROVE  UploadsBound
  <1> SUFFICES ASSUME NEW s \in Cases
               PROVE  /\ \A u \in Sessions(s) :
                           /\ document[u].status = "promotion_pending" =>
                                /\ Summary(s).active = u
                                /\ Summary(s).activeStatus = "promotion_pending"
                           /\ Permanent(u) \in DOMAIN document =>
                                document[u].generation
                                  = document[Permanent(u)].generation
                           /\ document[u].status = "finalized"
                                <=> EvidenceObject(u) \in DOMAIN document
                           /\ EvidenceObject(u) \in DOMAIN document =>
                                document[EvidenceObject(u)]
                                  = document[Permanent(u)]
                      /\ Summary(s).objectCount = Cardinality(Finalized(s))
                      /\ \A w \in 1 .. Summary(s).window :
                           Cardinality(IssuedIn(s, w)) <= Bound("issues")
    BY Zenon DEF UploadsBound, Exists, Finalized, IssuedIn
  <1>1. ASSUME NEW u \in Sessions(s)
        PROVE  SessionIs(u) /\ u[2] = s
    BY DEF UploadsInv, Sessions, RecordsOf
  <1>2. ASSUME NEW u \in Sessions(s)
        PROVE  /\ document[u].status = "promotion_pending" =>
                    /\ Summary(s).active = u
                    /\ Summary(s).activeStatus = "promotion_pending"
               /\ Permanent(u) \in DOMAIN document =>
                    document[u].generation = document[Permanent(u)].generation
               /\ document[u].status = "finalized"
                    <=> EvidenceObject(u) \in DOMAIN document
               /\ EvidenceObject(u) \in DOMAIN document =>
                    document[EvidenceObject(u)] = document[Permanent(u)]
    <2>1. SessionIs(u) /\ u[2] = s
      BY <1>1
    <2>2. Permanent(u) \in DOMAIN document =>
            document[u].generation = document[Permanent(u)].generation
      BY <2>1 DEF SessionIs
    <2> QED BY <2>1, <2>2, Zenon DEF SessionIs
  <1>3. SummaryIs(s)
    BY DEF UploadsInv
  <1>4. \A w \in 1 .. Summary(s).window : w \in Nat
    BY <1>3 DEF SummaryIs
  <1> QED BY <1>2, <1>3, <1>4, Zenon DEF SummaryIs

\* The counts of the sessions of s.
LEMMA CountsStay ==
  ASSUME NEW s, SummaryIs(s), UNCHANGED budget, Sessions(s)' = Sessions(s),
         \A u \in Sessions(s) : document'[u].window = document[u].window,
         NEW m, Summary(s)' = m, m = [f \in SummaryFields |-> m[f]],
         m.window = Summary(s).window, m.issued = Summary(s).issued,
         m.objectCount = Cardinality(Finalized(s)')
  PROVE  SummaryIs(s)'
  <1>1. \A w : IssuedIn(s, w)' = IssuedIn(s, w)
    BY DEF IssuedIn
  <1>2. Bound("issues")' = Bound("issues")
    BY DEF Bound
  <1> QED BY <1>1, <1>2 DEF SummaryIs

LEMMA SummaryStays ==
  ASSUME NEW s, SummaryIs(s), UNCHANGED budget, Sessions(s)' = Sessions(s),
         \A u \in Sessions(s) : document'[u] = document[u],
         Summary(s)' = Summary(s)
  PROVE  SummaryIs(s)'
  <1>1. Finalized(s)' = Finalized(s)
    BY DEF Finalized
  <1>2. PICK m : m = Summary(s)
    OBVIOUS
  <1>3. /\ m = [f \in SummaryFields |-> m[f]]
        /\ m.objectCount = Cardinality(Finalized(s)')
    BY <1>1, <1>2 DEF SummaryIs
  <1> QED BY <1>2, <1>3, CountsStay

LEMMA SessionStays ==
  ASSUME NEW v, SessionIs(v), document'[v] = document[v],
         Same(Permanent(v)), Same(EvidenceObject(v)),
         NEW m, Summary(v[2])' = m, m.window \in Nat,
         Summary(v[2]).window \in Nat, m.window >= Summary(v[2]).window,
         document[v].status = "promotion_pending" =>
           m.active = v /\ m.activeStatus = "promotion_pending"
  PROVE  SessionIs(v)'
  BY DEF SessionIs, Same

\* The calls that finalize go on with what there is.
LEMMA CallsGoOn ==
  ASSUME UploadsInv,
         \A u \in Kind("uploadSession") :
           /\ u \in Kind("uploadSession")'
           /\ document[u].status # "upload_pending" =>
                /\ document'[u].status # "upload_pending"
                /\ document'[u].generation = document[u].generation
           /\ Permanent(u) \in DOMAIN document =>
                Permanent(u) \in DOMAIN document',
         \A c \in Calls :
           call'[c].pc \in {"upload", "reserve", "promote_object", "bind"} =>
             call'[c] = call[c] \/ FinalizeIs(c)'
  PROVE  \A c \in Calls : FinalizeIs(c)'
  <1> SUFFICES ASSUME NEW c \in Calls, call'[c] = call[c]
               PROVE  FinalizeIs(c)'
    BY DEF FinalizeIs
  <1>1. FinalizeIs(c)
    BY DEF UploadsInv
  <1> QED BY <1>1 DEF FinalizeIs

UploadsMine == {"uploadSession", "uploads", "permanent", "evidenceObject"}

LEMMA UploadsFramed ==
  ASSUME Shapes, Shapes', UploadsInv, UNCHANGED budget,
         \A d : KindOf(d) \in UploadsMine => Same(d),
         \A c \in Calls :
           call'[c].pc \in UploadsPcs => call'[c] = call[c] \/ FinalizeIs(c)'
  PROVE  UploadsInv'
  <1>1. /\ Kind("uploadSession")' = Kind("uploadSession")
        /\ \A u \in Kind("uploadSession") : document'[u] = document[u]
    BY KindKept DEF UploadsMine
  <1>2. \A u, s : /\ Same(Permanent(u)) /\ Same(EvidenceObject(u))
                  /\ Summary(s)' = Summary(s) /\ Sessions(s)' = Sessions(s)
    BY <1>1, UploadsNames, SummarySame DEF UploadsMine, Sessions, RecordsOf
  <1>3. \A s : SummaryIs(s)'
    BY <1>1, <1>2, SummaryStays DEF UploadsInv, Sessions, RecordsOf
  <1>4. \A u \in Kind("uploadSession") : SessionIs(u)'
    BY <1>1, <1>2 DEF UploadsInv, SessionIs, Same
  <1>5. \A u : ObjectOf(u)'
    BY <1>1, <1>2 DEF UploadsInv, ObjectOf, Same
  <1>6. \A c \in Calls : FinalizeIs(c)'
    BY <1>1, <1>2, CallsGoOn, UploadsNames DEF Same
  <1> QED BY <1>1, <1>3, <1>4, <1>5, <1>6 DEF UploadsInv

\* One session changes, what its evidence says of it, and its objects.
SessionChanged(u, s, m) ==
    /\ s = u[2] /\ u \in DOMAIN document'
    /\ \A d : /\ KindOf(d) \in UploadsMine
             /\ d \notin {u, Uploads(s), Permanent(u), EvidenceObject(u)}
             => Same(d)
    /\ Summary(s)' = m /\ m = [f \in SummaryFields |-> m[f]]
    /\ m.window = Summary(s).window /\ m.issued = Summary(s).issued
    /\ m.objectCount = Cardinality(Finalized(s)')
    /\ document'[u].window = document[u].window
    /\ \A v \in Sessions(s) :
         v # u /\ document[v].status = "promotion_pending" =>
           m.active = v /\ m.activeStatus = "promotion_pending"
    /\ document[u].status # "upload_pending" =>
         /\ document'[u].status # "upload_pending"
         /\ document'[u].generation = document[u].generation
    /\ Permanent(u) \in DOMAIN document => Permanent(u) \in DOMAIN document'
    /\ \A c \in Calls :
         call'[c].pc \in UploadsPcs => call'[c] = call[c] \/ FinalizeIs(c)'
    /\ SessionIs(u)'

LEMMA SessionChanges ==
  ASSUME Shapes, Shapes', UploadsInv, UNCHANGED budget,
         NEW u \in Kind("uploadSession"), NEW s, NEW m, SessionChanged(u, s, m)
  PROVE  UploadsInv'
  <1> USE DEF SessionChanged
  <1>1. KindOf(u) = "uploadSession"
    BY KindIs
  <1>2. Kind("uploadSession")' = Kind("uploadSession")
    <2>1. Kind("uploadSession")' = Kind("uploadSession") \cup {u}
      BY <1>1, KindWith, UploadsNames DEF UploadsMine
    <2> QED BY <2>1
  <1>3. ASSUME NEW v \in Kind("uploadSession"), v # u
        PROVE  /\ document'[v] = document[v]
               /\ Same(Permanent(v)) /\ Same(EvidenceObject(v))
    <2>1. KindOf(v) = "uploadSession" /\ v \in DOMAIN document
      BY KindIs DEF Kind
    <2>2. Same(v)
      BY <1>3, <2>1, UploadsNames DEF UploadsMine
    <2>3. Same(Permanent(v))
      BY <1>1, <1>3, UploadsNames, UploadsIds DEF UploadsMine
    <2>4. Same(EvidenceObject(v))
      BY <1>1, <1>3, UploadsNames, UploadsIds DEF UploadsMine
    <2> QED BY <2>1, <2>2, <2>3, <2>4 DEF Same
  <1>4. ASSUME NEW t, t # s
        PROVE  Summary(t)' = Summary(t)
    <2>1. Same(Uploads(t))
      BY <1>1, <1>4, UploadsNames, UploadsIds DEF UploadsMine
    <2> QED BY <2>1, SummarySame
  <1>5. \A t : Sessions(t)' = Sessions(t)
    BY <1>2 DEF Sessions, RecordsOf
  <1>6. ASSUME NEW t
        PROVE  SummaryIs(t)'
    <2>1. SummaryIs(t)
      BY DEF UploadsInv
    <2>2. CASE t = s
      <3>1. \A v \in Sessions(s) : document'[v].window = document[v].window
        BY <1>3 DEF Sessions, RecordsOf
      <3> QED BY <1>5, <2>1, <2>2, <3>1, CountsStay
    <2>3. CASE t # s
      <3>1. \A v \in Sessions(t) : document'[v] = document[v]
        BY <1>3, <2>3 DEF Sessions, RecordsOf
      <3> QED BY <1>4, <1>5, <2>1, <2>3, <3>1, SummaryStays
    <2> QED BY <2>2, <2>3
  <1>7. ASSUME NEW v \in Kind("uploadSession")
        PROVE  SessionIs(v)'
    <2>1. CASE v = u
      BY <2>1
    <2>2. CASE v # u
      <3>1. PICK n : n = Summary(v[2])'
        OBVIOUS
      <3>2. SessionIs(v) /\ SummaryIs(v[2])
        BY DEF UploadsInv
      <3>3. Summary(v[2]).window \in Nat
        BY <3>2 DEF SummaryIs
      <3>4. n.window = Summary(v[2]).window
        BY <1>4, <3>1
      <3>5. document[v].status = "promotion_pending" =>
              n.active = v /\ n.activeStatus = "promotion_pending"
        <4>1. CASE v[2] = s
          <5>1. v \in Sessions(s)
            BY <4>1 DEF Sessions, RecordsOf
          <5> QED BY <2>2, <3>1, <4>1, <5>1
        <4>2. CASE v[2] # s
          BY <1>4, <3>1, <3>2, <4>2 DEF SessionIs
        <4> QED BY <4>1, <4>2
      <3>6. n.window \in Nat /\ n.window >= Summary(v[2]).window
        BY <3>3, <3>4
      <3> QED BY <1>3, <2>2, <3>1, <3>2, <3>3, <3>5, <3>6, SessionStays
    <2> QED BY <2>1, <2>2
  <1>8. ASSUME NEW v
        PROVE  ObjectOf(v)'
    <2>1. CASE v = u
      BY <1>2, <2>1 DEF ObjectOf
    <2>2. CASE v # u
      <3>1. Same(Permanent(v)) /\ Same(EvidenceObject(v))
        BY <1>1, <2>2, UploadsNames, UploadsIds DEF UploadsMine
      <3> QED BY <1>2, <3>1 DEF UploadsInv, ObjectOf, Same
    <2> QED BY <2>1, <2>2
  <1>9. \A c \in Calls : FinalizeIs(c)'
    <2>1. \A v \in Kind("uploadSession") :
            /\ v \in Kind("uploadSession")'
            /\ document[v].status # "upload_pending" =>
                 /\ document'[v].status # "upload_pending"
                 /\ document'[v].generation = document[v].generation
            /\ Permanent(v) \in DOMAIN document =>
                 Permanent(v) \in DOMAIN document'
      BY <1>2, <1>3 DEF Same
    <2> QED BY <2>1, CallsGoOn, UploadsNames
  <1> QED BY <1>2, <1>6, <1>7, <1>8, <1>9 DEF UploadsInv

LEMMA UploadRead ==
  ASSUME Shapes, Shapes', UploadsInv, UNCHANGED budget, NEW c \in Calls,
         NEW s, NEW r, NEW over, ReadUploadSession(c, s, r, over)
  PROVE  UploadsInv'
  <1>1. PICK next : /\ Read(c, next) /\ next.pc = "upload"
                    /\ next.session = UploadSession(s, r)
    BY DEF ReadUploadSession
  <1>2. (\A d : Same(d)) /\ Moved(c, next)
    BY <1>1, ReadIs DEF Shapes
  <1>3. FinalizeIs(c)'
    BY <1>1, <1>2, UploadsIds DEF FinalizeIs, Moved
  <1> QED BY <1>2, <1>3, UploadsFramed DEF Moved

LEMMA StagedRead ==
  ASSUME Shapes, Shapes', UploadsInv, UNCHANGED budget, NEW c \in Calls,
         NEW u \in Kind("uploadSession"), ReadStagedObject(c, u)
  PROVE  UploadsInv'
  <1>1. PICK next : Read(c, next) /\ next.pc = "reserve" /\ next.session = u
    BY DEF ReadStagedObject
  <1>2. (\A d : Same(d)) /\ Moved(c, next)
    BY <1>1, ReadIs DEF Shapes
  <1>3. u \in Kind("uploadSession")'
    BY <1>2 DEF Kind, Same
  <1>4. FinalizeIs(c)'
    BY <1>1, <1>2, <1>3 DEF FinalizeIs, Moved
  <1> QED BY <1>2, <1>4, UploadsFramed DEF Moved

LEMMA StagedChanges ==
  ASSUME Shapes, Shapes', UploadsInv, UNCHANGED budget, NEW u,
         StageObject(u) \/ RemoveStaged(u)
  PROVE  UploadsInv'
  <1>1. PICK d, x : d = Staged(u) /\ Transact(d :> x)
    BY DEF StageObject, RemoveStaged
  <1>2. KindOf(d) = "staged" /\ (\A e : e # d => Same(e)) /\ UNCHANGED call
    BY <1>1, Write1, UploadsNames DEF Transact
  <1>3. \A e : KindOf(e) \in UploadsMine => Same(e)
    BY <1>2 DEF UploadsMine
  <1> QED BY <1>2, <1>3, UploadsFramed

LEMMA SessionFacts ==
  ASSUME Shapes, UploadsInv, NEW u \in Kind("uploadSession")
  PROVE  /\ SessionIs(u) /\ SummaryIs(u[2]) /\ KindOf(u) = "uploadSession"
         /\ u \in DOMAIN document /\ u \in Sessions(u[2]) /\ u # <<>>
         /\ u # Uploads(u[2]) /\ u # Permanent(u) /\ u # EvidenceObject(u)
         /\ Uploads(u[2]) # Permanent(u) /\ Uploads(u[2]) # EvidenceObject(u)
         /\ Permanent(u) # EvidenceObject(u)
         /\ Summary(u[2]) = [f \in SummaryFields |-> Summary(u[2])[f]]
         /\ document[u] = [f \in SessionFields |-> document[u][f]]
  <1>1. SessionIs(u) /\ SummaryIs(u[2])
    BY DEF UploadsInv
  <1>2. KindOf(u) = "uploadSession"
    BY KindIs
  <1>3. u \in DOMAIN document /\ u \in Sessions(u[2])
    BY DEF Kind, Sessions, RecordsOf
  <1>4. u # <<>>
    BY <1>1, UploadsIds DEF SessionIs
  <1> QED BY <1>1, <1>2, <1>3, <1>4, UploadsNames DEF SessionIs, SummaryIs

LEMMA Promoting ==
  ASSUME UploadsInv, NEW v \in Kind("uploadSession"),
         document[v].status = "promotion_pending"
  PROVE  /\ Summary(v[2]).active = v /\ v # <<>>
         /\ Summary(v[2]).activeStatus = "promotion_pending"
  <1>1. SessionIs(v)
    BY DEF UploadsInv
  <1>2. v = UploadSession(v[2], v[3])
    BY <1>1, Zenon DEF SessionIs
  <1>3. /\ Summary(v[2]).active = v
        /\ Summary(v[2]).activeStatus = "promotion_pending"
    BY <1>1, Zenon DEF SessionIs
  <1> QED BY <1>2, <1>3, UploadsIds

\* While no session but u is being promoted, no other is the active one.
LEMMA OnlyActive ==
  ASSUME Shapes, UploadsInv, NEW u, ActiveUnchanged(u),
         NEW v \in Sessions(u[2]), document[v].status = "promotion_pending"
  PROVE  v = u
  <1>1. v \in Kind("uploadSession") /\ v[2] = u[2]
    BY DEF Sessions, RecordsOf
  <1>2. Summary(u[2]).active = v /\ v # <<>>
    BY <1>1, Promoting
  <1> QED BY <1>2 DEF ActiveUnchanged

LEMMA Expires ==
  ASSUME Shapes, Shapes', UploadsInv, UNCHANGED budget,
         NEW u \in Kind("uploadSession"), SessionExpires(u)
  PROVE  UploadsInv'
  <1>1. PICK s, x, y : /\ s = u[2] /\ x = document[u]
                       /\ y = [x EXCEPT !.expired = TRUE]
    OBVIOUS
  <1>2. document' = u :> y @@ document /\ UNCHANGED call
    BY <1>1 DEF SessionExpires, Transact
  <1>3. /\ u \in DOMAIN document' /\ document'[u] = y
        /\ \A d : d # u => Same(d)
    BY <1>2, Write1
  <1>4. /\ y = [f \in SessionFields |-> y[f]]
        /\ y.status = x.status /\ y.generation = x.generation
        /\ y.window = x.window
    <2>1. x = [f \in SessionFields |-> x[f]]
      BY <1>1, SessionFacts
    <2> QED BY <1>1, <2>1 DEF SessionFields
  <1>5. PICK m : m = Summary(s)
    OBVIOUS
  <1>6. Summary(s)' = m
    BY <1>1, <1>3, <1>5, SessionFacts, SummarySame
  <1>7. Sessions(s)' = Sessions(s) /\ Finalized(s)' = Finalized(s)
    <2>1. Kind("uploadSession")' = Kind("uploadSession") \cup {u}
      BY <1>3, SessionFacts, KindWith
    <2>2. Sessions(s)' = Sessions(s)
      BY <2>1 DEF Sessions, RecordsOf
    <2>3. \A v \in Sessions(s) : document'[v].status = document[v].status
      BY <1>1, <1>3, <1>4 DEF Same, Sessions, RecordsOf, Kind
    <2> QED BY <2>2, <2>3 DEF Finalized
  <1>8. m = [f \in SummaryFields |-> m[f]] /\ m.objectCount = Cardinality(Finalized(s)')
    BY <1>1, <1>5, <1>7, SessionFacts DEF SummaryIs
  <1>9. SessionIs(u)'
    <2>1. SessionIs(u) /\ Same(Permanent(u)) /\ Same(EvidenceObject(u))
      BY <1>3, SessionFacts
    <2>2. PICK p, e : p = Permanent(u) /\ e = EvidenceObject(u)
      OBVIOUS
    <2>3. Summary(u[2])' = m /\ Summary(u[2]) = m
      BY <1>1, <1>5, <1>6
    <2> QED BY <1>1, <1>3, <1>4, <2>1, <2>3 DEF SessionIs, Same
  <1>10. \A v \in Sessions(s) :
           v # u /\ document[v].status = "promotion_pending" =>
             m.active = v /\ m.activeStatus = "promotion_pending"
    BY <1>5, Promoting DEF Sessions, RecordsOf
  <1>11. Permanent(u) \in DOMAIN document => Permanent(u) \in DOMAIN document'
    BY <1>3, SessionFacts DEF Same
  <1>12. \A d : d \notin {u, Uploads(s), Permanent(u), EvidenceObject(u)} => Same(d)
    BY <1>3
  <1>13. /\ m.window = Summary(s).window /\ m.issued = Summary(s).issued
         /\ document'[u].window = document[u].window
         /\ document[u].status # "upload_pending" =>
              /\ document'[u].status # "upload_pending"
              /\ document'[u].generation = document[u].generation
         /\ \A c \in Calls : call'[c] = call[c]
    BY <1>1, <1>2, <1>3, <1>4, <1>5
  <1>14. SessionChanged(u, s, m)
    BY <1>1, <1>3, <1>6, <1>8, <1>9, <1>10, <1>11, <1>12, <1>13, Zenon
    DEF SessionChanged
  <1> QED BY <1>14, SessionChanges

\* What a step of a finalizing call knows of its session.
LEMMA FinalizeFacts ==
  ASSUME UploadsInv, NEW c \in Calls,
         call[c].pc \in {"reserve", "promote_object", "bind"}
  PROVE  /\ call[c].session \in Kind("uploadSession")
         /\ call[c].pc \in {"promote_object", "bind"} =>
              /\ document[call[c].session].status # "upload_pending"
              /\ document[call[c].session].generation = call[c].generation
         /\ call[c].pc = "bind" =>
              Permanent(call[c].session) \in DOMAIN document
  BY DEF UploadsInv, FinalizeIs

\* A finalizing call has nothing to write: it goes on, or it is done.
LEMMA FinalizeGoesOn ==
  ASSUME Shapes, Shapes', UploadsInv, UNCHANGED budget, NEW c \in Calls,
         NEW p \in {"promote_object", "bind"},
         call[c].pc \in {"reserve", "promote_object"},
         Step(c, <<>>, [call[c] EXCEPT !.pc = p]),
         document[call[c].session].status # "upload_pending",
         document[call[c].session].generation = call[c].generation,
         p = "bind" => Permanent(call[c].session) \in DOMAIN document
  PROVE  UploadsInv'
  <1>1. PICK u, g, next : /\ u = call[c].session /\ g = call[c].generation
                          /\ next = [call[c] EXCEPT !.pc = p]
    OBVIOUS
  <1>2. document' = <<>> @@ document /\ Moved(c, next)
    BY <1>1, StepIs DEF Shapes
  <1>3. \A d : Same(d)
    BY <1>2, WriteNone
  <1>4. next.pc = p /\ next.session = u /\ next.generation = g
    <2>1. PICK e, x : e = call[c].expired /\ x = call[c]
      OBVIOUS
    <2>2. x = [pc |-> x.pc, session |-> u, generation |-> g, expired |-> e]
      BY <1>1, <2>1, UploadsNames DEF Shapes, Shape, UploadsCall
    <2>3. next = [x EXCEPT !.pc = p]
      BY <1>1, <2>1
    <2> QED BY <2>2, <2>3
  <1>5. u \in Kind("uploadSession")
    BY <1>1, FinalizeFacts
  <1>6. u \in Kind("uploadSession")' /\ document'[u] = document[u]
    BY <1>3, <1>5 DEF Kind, Same
  <1>7. p = "bind" => Permanent(u) \in DOMAIN document'
    BY <1>1, <1>3 DEF Same
  <1>8. FinalizeIs(c)'
    BY <1>1, <1>2, <1>4, <1>6, <1>7 DEF FinalizeIs, Moved
  <1> QED BY <1>2, <1>3, <1>8, UploadsFramed DEF Moved

LEMMA FinalizeNext ==
  ASSUME Shapes, NEW c \in Calls, NEW p, NEW next,
         call[c].pc \in {"reserve", "promote_object", "bind"},
         next = [call[c] EXCEPT !.pc = p]
  PROVE  /\ next.pc = p /\ next.session = call[c].session
         /\ next.generation = call[c].generation
  <1>1. PICK x, u, g, e : /\ x = call[c] /\ u = x.session /\ g = x.generation
                          /\ e = x.expired
    OBVIOUS
  <1>2. x = [pc |-> x.pc, session |-> u, generation |-> g, expired |-> e]
    BY <1>1, UploadsNames DEF Shapes, Shape, UploadsCall
  <1>3. next = [x EXCEPT !.pc = p]
    BY <1>1
  <1> QED BY <1>1, <1>2, <1>3

\* The promotion is reserved for the generation that was hashed.
LEMMA Reserved ==
  ASSUME Shapes, Shapes', UploadsInv, UNCHANGED budget, NEW c \in Calls,
         NEW u, u = call[c].session, call[c].pc = "reserve",
         document[u].status = "upload_pending", ActiveUnchanged(u),
         Step(c, u :> [document[u] EXCEPT !.status = "promotion_pending",
                                          !.generation = call[c].generation]
                 @@ Uploads(u[2]) :>
                      [Summary(u[2]) EXCEPT
                         !.active = u, !.activeStatus = "promotion_pending"],
              [call[c] EXCEPT !.pc = "promote_object"])
  PROVE  UploadsInv'
  <1>1. PICK s, x, g, n, next :
          /\ s = u[2] /\ x = document[u] /\ g = call[c].generation
          /\ n = Summary(s) /\ next = [call[c] EXCEPT !.pc = "promote_object"]
    OBVIOUS
  <1>2. PICK y, m, a :
          /\ y = [x EXCEPT !.status = "promotion_pending", !.generation = g]
          /\ m = [n EXCEPT !.active = u, !.activeStatus = "promotion_pending"]
          /\ a = Uploads(s)
    OBVIOUS
  <1>3. Step(c, u :> y @@ a :> m, next)
    BY <1>1, <1>2
  <1>4. /\ u \in Kind("uploadSession") /\ SessionIs(u) /\ SummaryIs(s)
        /\ u \in Sessions(s) /\ KindOf(u) = "uploadSession" /\ u # a
        /\ Permanent(u) \notin {u, a} /\ EvidenceObject(u) \notin {u, a}
        /\ n = [f \in SummaryFields |-> n[f]]
        /\ x = [f \in SessionFields |-> x[f]]
    <2>1. u \in Kind("uploadSession")
      BY FinalizeFacts
    <2> QED BY <1>1, <1>2, <2>1, SessionFacts
  <1>5. document' = u :> y @@ a :> m @@ document /\ Moved(c, next)
    BY <1>3, StepIs DEF Shapes
  <1>6. /\ u \in DOMAIN document' /\ document'[u] = y
        /\ a \in DOMAIN document' /\ document'[a] = m
        /\ \A d : d # u /\ d # a => Same(d)
    BY <1>4, <1>5, Write2
  <1>7. /\ y = [f \in SessionFields |-> y[f]]
        /\ y.status = "promotion_pending" /\ y.generation = g
        /\ y.window = x.window
    BY <1>2, <1>4 DEF SessionFields
  <1>8. /\ m = [f \in SummaryFields |-> m[f]]
        /\ m.active = u /\ m.activeStatus = "promotion_pending"
        /\ m.window = n.window /\ m.issued = n.issued
        /\ m.objectCount = n.objectCount
    BY <1>2, <1>4 DEF SummaryFields
  <1>9. Summary(s)' = m
    BY <1>2, <1>6, SummaryNow
  <1>10. Finalized(s)' = Finalized(s)
    <2>1. Kind("uploadSession")' = Kind("uploadSession") \cup {u}
      BY <1>2, <1>4, <1>6, UploadsNames, KindWith
    <2>2. Sessions(s)' = Sessions(s)
      BY <1>4, <2>1 DEF Sessions, RecordsOf
    <2>3. ASSUME NEW v \in Sessions(s)
          PROVE  document'[v].status = "finalized"
                   <=> document[v].status = "finalized"
      <3>1. v \in DOMAIN document /\ KindOf(v) = "uploadSession"
        BY KindIs DEF Sessions, RecordsOf, Kind
      <3>2. CASE v = u
        BY <1>1, <1>6, <1>7, <3>2
      <3>3. CASE v # u
        BY <1>2, <1>6, <3>1, <3>3, UploadsNames DEF Same
      <3> QED BY <3>2, <3>3
    <2> QED BY <2>2, <2>3 DEF Finalized
  <1>11. m.objectCount = Cardinality(Finalized(s)')
    BY <1>1, <1>4, <1>8, <1>10 DEF SummaryIs
  <1>12. SessionIs(u)'
    <2>1. Permanent(u) \notin DOMAIN document'
      BY <1>4, <1>6 DEF SessionIs, Same
    <2>2. EvidenceObject(u) \notin DOMAIN document'
      BY <1>4, <1>6 DEF SessionIs, Same
    <2>3. u = UploadSession(u[2], u[3]) /\ y.window \in 1 .. m.window
      BY <1>1, <1>4, <1>7, <1>8 DEF SessionIs
    <2> QED BY <1>1, <1>6, <1>7, <1>8, <1>9, <2>1, <2>2, <2>3 DEF SessionIs
  <1>13. \A v \in Sessions(s) :
           v # u /\ document[v].status = "promotion_pending" =>
             m.active = v /\ m.activeStatus = "promotion_pending"
    BY <1>1, OnlyActive
  <1>14. FinalizeIs(c)'
    <2>1. next.pc = "promote_object" /\ next.session = u /\ next.generation = g
      BY <1>1, FinalizeNext
    <2>2. u \in Kind("uploadSession")'
      BY <1>4, <1>6 DEF Kind
    <2>3. y.status # "upload_pending"
      BY <1>7
    <2> QED BY <1>5, <1>6, <1>7, <2>1, <2>2, <2>3 DEF FinalizeIs, Moved
  <1>15. /\ m.window = Summary(s).window /\ m.issued = Summary(s).issued
         /\ document'[u].window = document[u].window
         /\ document[u].status # "upload_pending" =>
              /\ document'[u].status # "upload_pending"
              /\ document'[u].generation = document[u].generation
         /\ \A d \in Calls : call'[d] = call[d] \/ FinalizeIs(d)'
    BY <1>1, <1>5, <1>6, <1>7, <1>8, <1>14 DEF Moved
  <1>16. /\ Permanent(u) \in DOMAIN document => Permanent(u) \in DOMAIN document'
         /\ \A d : d \notin {u, Uploads(s), Permanent(u), EvidenceObject(u)}
                     => Same(d)
    BY <1>2, <1>4, <1>6 DEF Same
  <1>17. SessionChanged(u, s, m)
    BY <1>1, <1>6, <1>8, <1>9, <1>11, <1>12, <1>13, <1>15, <1>16, Zenon
    DEF SessionChanged
  <1> QED BY <1>4, <1>17, SessionChanges

\* The object is a copy of the generation that was reserved.
LEMMA Promoted ==
  ASSUME Shapes, Shapes', UploadsInv, UNCHANGED budget, NEW c \in Calls,
         NEW u, u = call[c].session, call[c].pc = "promote_object",
         Permanent(u) \notin DOMAIN document,
         Step(c, Permanent(u) :> [generation |-> call[c].generation],
              [call[c] EXCEPT !.pc = "bind"])
  PROVE  UploadsInv'
  <1>1. PICK s, x, g, m, next, p :
          /\ s = u[2] /\ x = document[u] /\ g = call[c].generation
          /\ m = Summary(s) /\ next = [call[c] EXCEPT !.pc = "bind"]
          /\ p = Permanent(u)
    OBVIOUS
  <1>2. /\ u \in Kind("uploadSession") /\ SessionIs(u) /\ SummaryIs(s)
        /\ u \in Sessions(s) /\ KindOf(u) = "uploadSession"
        /\ u \in DOMAIN document /\ p \notin {u, Uploads(s), EvidenceObject(u)}
        /\ x.status # "upload_pending" /\ x.generation = g
    <2>1. /\ u \in Kind("uploadSession")
          /\ document[u].status # "upload_pending"
          /\ document[u].generation = call[c].generation
      BY FinalizeFacts
    <2> QED BY <1>1, <2>1, SessionFacts
  <1>3. document' = p :> [generation |-> g] @@ document /\ Moved(c, next)
    BY <1>1, StepIs DEF Shapes
  <1>4. /\ p \in DOMAIN document' /\ document'[p] = [generation |-> g]
        /\ \A d : d # p => Same(d)
    BY <1>3, Write1
  <1>5. u \in DOMAIN document' /\ document'[u] = x
    BY <1>1, <1>2, <1>4 DEF Same
  <1>6. Summary(s)' = m
    BY <1>1, <1>2, <1>4, SummarySame
  <1>7. Finalized(s)' = Finalized(s)
    <2>1. Kind("uploadSession")' = Kind("uploadSession")
      BY <1>1, <1>4, UploadsNames, KindSame
    <2>2. \A v \in Sessions(s) : document'[v] = document[v]
      <3>1. \A v \in Sessions(s) : v \in DOMAIN document /\ KindOf(v) = "uploadSession"
        BY KindIs DEF Sessions, RecordsOf, Kind
      <3> QED BY <1>1, <1>4, <3>1, UploadsNames DEF Same
    <2>3. Sessions(s)' = Sessions(s)
      BY <2>1 DEF Sessions, RecordsOf
    <2> QED BY <2>2, <2>3 DEF Finalized
  <1>8. m = [f \in SummaryFields |-> m[f]] /\ m.objectCount = Cardinality(Finalized(s)')
    BY <1>1, <1>2, <1>7 DEF SummaryIs
  <1>9. SessionIs(u)'
    <2>1. Same(EvidenceObject(u)) /\ EvidenceObject(u) \notin DOMAIN document
      BY <1>1, <1>2, <1>4 DEF SessionIs
    <2>2. /\ u = UploadSession(s, u[3]) /\ x = [f \in SessionFields |-> x[f]]
          /\ x.window \in 1 .. m.window
          /\ x.status = "promotion_pending" =>
               m.active = u /\ m.activeStatus = "promotion_pending"
          /\ x.status # "finalized"
      BY <1>1, <1>2, <2>1 DEF SessionIs
    <2>3. EvidenceObject(u) \notin DOMAIN document'
      BY <2>1 DEF Same
    <2>4. document'[Permanent(u)] = [generation |-> x.generation]
      BY <1>1, <1>2, <1>4
    <2> QED BY <1>1, <1>2, <1>5, <1>6, <2>2, <2>3, <2>4 DEF SessionIs
  <1>10. \A v \in Sessions(s) :
           v # u /\ document[v].status = "promotion_pending" =>
             m.active = v /\ m.activeStatus = "promotion_pending"
    <2> TAKE v \in Sessions(s)
    <2>1. v \in Kind("uploadSession") /\ v[2] = s
      BY DEF Sessions, RecordsOf
    <2> QED BY <1>1, <2>1, Promoting
  <1>11. FinalizeIs(c)'
    <2>1. next.pc = "bind" /\ next.session = u /\ next.generation = g
      BY <1>1, FinalizeNext
    <2>2. u \in Kind("uploadSession")'
      BY <1>2, <1>5 DEF Kind
    <2> QED BY <1>1, <1>2, <1>3, <1>4, <1>5, <2>1, <2>2 DEF FinalizeIs, Moved
  <1>12. /\ m.window = Summary(s).window /\ m.issued = Summary(s).issued
         /\ document'[u].window = document[u].window
         /\ document[u].status # "upload_pending" =>
              /\ document'[u].status # "upload_pending"
              /\ document'[u].generation = document[u].generation
         /\ \A d \in Calls : call'[d] = call[d] \/ FinalizeIs(d)'
    BY <1>1, <1>3, <1>5, <1>11 DEF Moved
  <1>13. /\ Permanent(u) \in DOMAIN document'
         /\ \A d : d \notin {u, Uploads(s), Permanent(u), EvidenceObject(u)}
                     => Same(d)
    BY <1>1, <1>4
  <1>14. SessionChanged(u, s, m)
    BY <1>1, <1>5, <1>6, <1>8, <1>9, <1>10, <1>12, <1>13, Zenon
    DEF SessionChanged
  <1> QED BY <1>2, <1>14, SessionChanges

LEMMA Reserves ==
  ASSUME Shapes, Shapes', UploadsInv, UNCHANGED budget, NEW c \in Calls,
         ReservePromotion(c)
  PROVE  UploadsInv'
  <1>1. PICK u, g : u = call[c].session /\ g = call[c].generation
    OBVIOUS
  <1>2. call[c].pc = "reserve"
    BY DEF ReservePromotion
  <1>3. CASE document[u].status = "upload_pending"
    <2>1. /\ ActiveUnchanged(u)
          /\ Step(c, u :> [document[u] EXCEPT
                             !.status = "promotion_pending",
                             !.generation = call[c].generation]
                     @@ Uploads(u[2]) :>
                          [Summary(u[2]) EXCEPT
                             !.active = u,
                             !.activeStatus = "promotion_pending"],
                  [call[c] EXCEPT !.pc = "promote_object"])
      BY <1>1, <1>3, Zenon DEF ReservePromotion
    <2> QED BY <1>1, <1>2, <1>3, <2>1, Reserved
  <1>4. CASE document[u].status # "upload_pending"
    <2>1. /\ document[u].generation = g
          /\ Step(c, <<>>, [call[c] EXCEPT !.pc = "promote_object"])
      BY <1>1, <1>4 DEF ReservePromotion, Finalizable
    <2> QED BY <1>1, <1>2, <1>4, <2>1, FinalizeGoesOn
  <1> QED BY <1>3, <1>4

LEMMA Promotes ==
  ASSUME Shapes, Shapes', UploadsInv, UNCHANGED budget, NEW c \in Calls,
         PromoteObject(c)
  PROVE  UploadsInv'
  <1>1. PICK u : u = call[c].session
    OBVIOUS
  <1>2. call[c].pc = "promote_object"
    BY DEF PromoteObject
  <1>3. CASE Permanent(u) \notin DOMAIN document
    <2>1. Step(c, Permanent(u) :> [generation |-> call[c].generation],
               [call[c] EXCEPT !.pc = "bind"])
      BY <1>1, <1>3, Zenon DEF PromoteObject, Exists
    <2> QED BY <1>1, <1>2, <1>3, <2>1, Promoted
  <1>4. CASE Permanent(u) \in DOMAIN document
    <2>1. Step(c, <<>>, [call[c] EXCEPT !.pc = "bind"])
      BY <1>1, <1>4, Zenon DEF PromoteObject, Exists
    <2>2. /\ document[call[c].session].status # "upload_pending"
          /\ document[call[c].session].generation = call[c].generation
      BY <1>2, FinalizeFacts
    <2> QED BY <1>1, <1>2, <1>4, <2>1, <2>2, FinalizeGoesOn
  <1> QED BY <1>3, <1>4

LEMMA Binds ==
  ASSUME Shapes, Shapes', UploadsInv, UNCHANGED budget, NEW c \in Calls,
         BindObject(c)
  PROVE  UploadsInv'
  <1>1. PICK u, s, x, g, n :
          /\ u = call[c].session /\ s = u[2] /\ x = document[u]
          /\ g = call[c].generation /\ n = Summary(s)
    OBVIOUS
  <1>2. PICK y, m, a, e, f, z :
          /\ y = [x EXCEPT !.status = "finalized"]
          /\ m = [n EXCEPT !.objectCount = @ + 1, !.active = <<>>,
                           !.activeStatus = ""]
          /\ a = Uploads(s) /\ e = EvidenceObject(u) /\ f = CaseEvent(s, e)
          /\ z = [type |-> "evidence_object_bound"]
    OBVIOUS
  <1>3. /\ call[c].pc = "bind" /\ x.status = "promotion_pending"
        /\ x.generation = g /\ ActiveUnchanged(u) /\ e \notin DOMAIN document
        /\ Commit(c, e :> [generation |-> g] @@ f :> z @@ u :> y @@ a :> m)
    <2>1. Commit(c, e :> [generation |-> g] @@ f :> z @@ u :> y @@ a :> m)
      BY <1>1, <1>2, Zenon DEF BindObject
    <2> QED BY <1>1, <1>2, <2>1 DEF BindObject, Exists
  <1>4. /\ u \in Kind("uploadSession") /\ SessionIs(u) /\ SummaryIs(s)
        /\ u \in Sessions(s) /\ KindOf(u) = "uploadSession"
        /\ KindOf(f) = "caseEvent" /\ KindOf(a) = "uploads"
        /\ KindOf(e) = "evidenceObject"
        /\ Permanent(u) \in DOMAIN document
        /\ n = [i \in SummaryFields |-> n[i]]
        /\ x = [i \in SessionFields |-> x[i]]
    <2>1. u \in Kind("uploadSession") /\ Permanent(u) \in DOMAIN document
      BY <1>1, <1>3, FinalizeFacts
    <2> QED BY <1>1, <1>2, <2>1, SessionFacts, UploadsNames
  <1>5. e # f /\ e # u /\ e # a /\ f # u /\ f # a /\ u # a
    BY <1>4
  <1>6. /\ document' = e :> [generation |-> g] @@ f :> z @@ u :> y @@ a :> m
                         @@ document
        /\ Moved(c, Idle)
    BY <1>3, CommitIs DEF Shapes
  <1>7. /\ e \in DOMAIN document' /\ document'[e] = [generation |-> g]
        /\ u \in DOMAIN document' /\ document'[u] = y
        /\ a \in DOMAIN document' /\ document'[a] = m
        /\ \A d : d # e /\ d # f /\ d # u /\ d # a => Same(d)
    BY <1>5, <1>6, Write4
  <1>8. /\ y = [i \in SessionFields |-> y[i]]
        /\ y.status = "finalized" /\ y.generation = g /\ y.window = x.window
    BY <1>2, <1>3, <1>4 DEF SessionFields
  <1>9. /\ m = [i \in SummaryFields |-> m[i]]
        /\ m.window = n.window /\ m.issued = n.issued
        /\ m.objectCount = n.objectCount + 1
    BY <1>2, <1>4 DEF SummaryFields
  <1>10. Summary(s)' = m
    BY <1>2, <1>7, SummaryNow
  <1>11. Finalized(s)' = Finalized(s) \cup {u} /\ u \notin Finalized(s)
    <2>1. Kind("uploadSession")' = Kind("uploadSession") \cup {u}
      BY <1>4, <1>7, KindWith
    <2>2. Sessions(s)' = Sessions(s)
      BY <1>4, <2>1 DEF Sessions, RecordsOf
    <2>3. ASSUME NEW v \in Sessions(s), v # u
          PROVE  document'[v] = document[v]
      <3>1. v \in DOMAIN document /\ KindOf(v) = "uploadSession"
        BY KindIs DEF Sessions, RecordsOf, Kind
      <3> QED BY <1>4, <1>7, <2>3, <3>1 DEF Same
    <2>4. document'[u].status = "finalized" /\ document[u].status # "finalized"
      BY <1>1, <1>3, <1>7, <1>8
    <2> QED BY <1>4, <2>2, <2>3, <2>4 DEF Finalized
  <1>12. m.objectCount = Cardinality(Finalized(s)')
    <2>1. IsFiniteSet(Finalized(s))
      BY <1>4, FS_Subset DEF SummaryIs, Finalized
    <2>2. n.objectCount = Cardinality(Finalized(s))
      BY <1>1, <1>4 DEF SummaryIs
    <2> QED BY <1>9, <1>11, <2>1, <2>2, FS_AddElement
  <1>13. SessionIs(u)'
    <2>1. /\ Permanent(u) \in DOMAIN document'
          /\ document'[Permanent(u)] = [generation |-> g]
      <3>1. Same(Permanent(u))
        BY <1>4, <1>7, UploadsNames
      <3>2. document[Permanent(u)] = [generation |-> g]
        BY <1>1, <1>3, <1>4 DEF SessionIs
      <3> QED BY <1>4, <3>1, <3>2 DEF Same
    <2>2. u = UploadSession(u[2], u[3]) /\ y.window \in 1 .. m.window
      BY <1>1, <1>4, <1>8, <1>9 DEF SessionIs
    <2> QED BY <1>1, <1>2, <1>7, <1>8, <1>10, <2>1, <2>2 DEF SessionIs
  <1>14. \A v \in Sessions(s) :
           v # u /\ document[v].status = "promotion_pending" =>
             m.active = v /\ m.activeStatus = "promotion_pending"
    BY <1>1, <1>3, OnlyActive
  <1>15. /\ m.window = Summary(s).window /\ m.issued = Summary(s).issued
         /\ document'[u].window = document[u].window
         /\ document[u].status # "upload_pending" =>
              /\ document'[u].status # "upload_pending"
              /\ document'[u].generation = document[u].generation
    BY <1>1, <1>3, <1>7, <1>8, <1>9
  <1>16. \A d \in Calls :
           call'[d].pc \in UploadsPcs => call'[d] = call[d] \/ FinalizeIs(d)'
    BY <1>6, UploadsNames DEF Moved, Idle
  <1>17. Permanent(u) \in DOMAIN document => Permanent(u) \in DOMAIN document'
    BY <1>4, <1>7, UploadsNames DEF Same
  <1>18. \A d : /\ KindOf(d) \in UploadsMine
                /\ d \notin {u, Uploads(s), Permanent(u), EvidenceObject(u)}
                => Same(d)
    BY <1>2, <1>4, <1>7 DEF UploadsMine
  <1>19. SessionChanged(u, s, m)
    BY <1>1, <1>7, <1>9, <1>10, <1>12, <1>13, <1>14, <1>15, <1>16, <1>17,
       <1>18, Zenon DEF SessionChanged
  <1> QED BY <1>4, <1>19, SessionChanges

\* The window in which a session is issued has room for it.
LEMMA WindowIs ==
  ASSUME UploadsInv, NEW s, NEW over, NEW u, NEW expired,
         Issuable(s, u, expired, over)
  PROVE  /\ uploadWindow(s, over).window \in Nat \ {0}
         /\ uploadWindow(s, over).window >= Summary(s).window
         /\ uploadWindow(s, over).issued
              = Cardinality(IssuedIn(s, uploadWindow(s, over).window))
         /\ uploadWindow(s, over).issued < Bound("issues")
  <1>1. PICK n : n = Summary(s)
    OBVIOUS
  <1>2. /\ SummaryIs(s) /\ n.window \in Nat \ {0}
        /\ n.issued = Cardinality(IssuedIn(s, n.window))
    BY <1>1 DEF UploadsInv, SummaryIs
  <1>3. uploadWindow(s, over).issued < Bound("issues")
    BY DEF Issuable
  <1>4. CASE n.window = over
    <2>1. uploadWindow(s, over) = [window |-> over + 1, issued |-> 0]
      BY <1>1, <1>4 DEF uploadWindow
    <2>2. IssuedIn(s, over + 1) = {}
      <3>1. ASSUME NEW v \in Sessions(s)
            PROVE  document[v].window # over + 1
        <4>1. v \in Kind("uploadSession") /\ v[2] = s
          BY DEF Sessions, RecordsOf
        <4>2. document[v].window \in 1 .. n.window
          BY <1>1, <4>1 DEF UploadsInv, SessionIs
        <4> QED BY <1>2, <1>4, <4>2
      <3> QED BY <3>1 DEF IssuedIn
    <2>3. Cardinality({}) = 0
      BY FS_EmptySet
    <2> QED BY <1>1, <1>2, <1>3, <1>4, <2>1, <2>2, <2>3
  <1>5. CASE n.window # over
    <2>1. uploadWindow(s, over) = [window |-> n.window, issued |-> n.issued]
      BY <1>1, <1>5 DEF uploadWindow
    <2> QED BY <1>1, <1>2, <1>3, <2>1
  <1> QED BY <1>4, <1>5

LEMMA SessionCreated ==
  ASSUME Shapes, Shapes', UploadsInv, UNCHANGED budget, NEW c \in Calls,
         CreateUploadSession(c)
  PROVE  UploadsInv'
  <1>1. PICK u, s, n, o : /\ u = call[c].session /\ s = u[2]
                          /\ n = Summary(s) /\ o = call[c].over
    OBVIOUS
  <1>2. PICK w, y, m, a :
          /\ w = uploadWindow(s, o)
          /\ y = [status |-> "upload_pending", expired |-> FALSE,
                  generation |-> NoGeneration, window |-> w.window]
          /\ m = [n EXCEPT !.active = u, !.activeStatus = "upload_pending",
                           !.issued = w.issued + 1, !.window = w.window]
          /\ a = Uploads(s)
    OBVIOUS
  <1>3. /\ call[c].pc = "upload" /\ Issuable(s, u, call[c].ended, o)
        /\ Commit(c, u :> y @@ a :> m)
    BY <1>1, <1>2, Zenon DEF CreateUploadSession
  <1>4. /\ u = UploadSession(s, u[3]) /\ u \notin DOMAIN document
        /\ SummaryIs(s) /\ n = [f \in SummaryFields |-> n[f]]
        /\ n.window \in Nat
    <2>1. u = UploadSession(u[2], u[3])
      BY <1>1, <1>3 DEF UploadsInv, FinalizeIs
    <2>2. u \notin DOMAIN document
      BY <1>3 DEF Issuable, Exists
    <2> QED BY <1>1, <2>1, <2>2 DEF UploadsInv, SummaryIs
  <1>5. /\ w.window \in Nat \ {0} /\ w.window >= n.window
        /\ w.issued = Cardinality(IssuedIn(s, w.window))
        /\ w.issued < Bound("issues")
    BY <1>1, <1>2, <1>3, WindowIs
  <1>6. KindOf(u) = "uploadSession" /\ KindOf(a) = "uploads" /\ u # a
    BY <1>2, <1>4, UploadsNames
  <1>7. document' = u :> y @@ a :> m @@ document /\ Moved(c, Idle)
    BY <1>3, CommitIs DEF Shapes
  <1>8. /\ u \in DOMAIN document' /\ document'[u] = y
        /\ a \in DOMAIN document' /\ document'[a] = m
        /\ \A d : d # u /\ d # a => Same(d)
    BY <1>6, <1>7, Write2
  <1>9. /\ y = [f \in SessionFields |-> y[f]]
        /\ y.status = "upload_pending" /\ y.window = w.window
    BY <1>2 DEF SessionFields
  <1>10. /\ m = [f \in SummaryFields |-> m[f]]
         /\ m.window = w.window /\ m.issued = w.issued + 1
         /\ m.objectCount = n.objectCount
    BY <1>2, <1>4 DEF SummaryFields
  <1>11. Summary(s)' = m
    BY <1>2, <1>8, SummaryNow
  <1>12. /\ Kind("uploadSession")' = Kind("uploadSession") \cup {u}
         /\ u \notin Kind("uploadSession")
         /\ Sessions(s)' = Sessions(s) \cup {u} /\ u \notin Sessions(s)
         /\ \A t : t # s => Sessions(t)' = Sessions(t)
    <2>1. Kind("uploadSession")' = Kind("uploadSession") \cup {u}
      BY <1>6, <1>8, KindWith
    <2>2. u \notin Kind("uploadSession")
      BY <1>4 DEF Kind
    <2> QED BY <1>1, <2>1, <2>2 DEF Sessions, RecordsOf
  <1>13. \A v \in Kind("uploadSession") : document'[v] = document[v]
    BY <1>4, <1>6, <1>8, KindIs DEF Same, Kind
  <1>14. \A v \in Sessions(s) : document[v].status # "promotion_pending"
    <2> SUFFICES ASSUME NEW v \in Sessions(s),
                        document[v].status = "promotion_pending"
                 PROVE  FALSE
      OBVIOUS
    <2>1. v \in Kind("uploadSession") /\ v[2] = s
      BY DEF Sessions, RecordsOf
    <2>2. n.active = v /\ n.activeStatus = "promotion_pending"
      BY <1>1, <2>1, Promoting
    <2>3. v # <<>> /\ v # u
      BY <1>12, <2>1, SessionFacts
    <2> QED BY <1>1, <1>3, <2>2, <2>3 DEF Issuable, activeSessionAvailable
  <1>15. Finalized(s)' = Finalized(s)
    <2>1. \A v \in Sessions(s) : document'[v] = document[v]
      BY <1>13 DEF Sessions, RecordsOf
    <2>2. document'[u].status # "finalized"
      BY <1>8, <1>9
    <2> QED BY <1>12, <2>1, <2>2 DEF Finalized
  <1>16. \A i : IssuedIn(s, i)' = IF i = w.window THEN IssuedIn(s, i) \cup {u}
                                  ELSE IssuedIn(s, i)
    <2>1. \A v \in Sessions(s) : document'[v] = document[v]
      BY <1>13 DEF Sessions, RecordsOf
    <2>2. document'[u].window = w.window
      BY <1>8, <1>9
    <2> QED BY <1>12, <2>1, <2>2 DEF IssuedIn
  <1>17. /\ IsFiniteSet(Sessions(s))
         /\ \A i : IsFiniteSet(IssuedIn(s, i)) /\ u \notin IssuedIn(s, i)
    <2>1. \A i : IssuedIn(s, i) \subseteq Sessions(s)
      BY DEF IssuedIn
    <2>2. IsFiniteSet(Sessions(s))
      BY <1>4 DEF SummaryIs
    <2> QED BY <1>12, <2>1, <2>2, FS_Subset
  <1>18. SummaryIs(s)'
    <2>1. IsFiniteSet(Sessions(s)')
      BY <1>12, <1>17, FS_AddElement
    <2>2. PICK I, J : I = IssuedIn(s, w.window) /\ J = IssuedIn(s, w.window)'
      OBVIOUS
    <2>3. J = I \cup {u} /\ IsFiniteSet(I) /\ u \notin I
      BY <1>16, <1>17, <2>2
    <2>4. Cardinality(J) = Cardinality(I) + 1 /\ Cardinality(I) \in Nat
      BY <2>3, FS_AddElement, FS_CardinalityType
    <2>5. Bound("issues")' = Bound("issues") /\ Bound("issues") \in Nat
      BY BoundIs DEF Bound, UploadsInv
    <2>6. ASSUME NEW i \in Nat
          PROVE  Cardinality(IssuedIn(s, i)') <= Bound("issues")
      <3>1. CASE i = w.window
        BY <1>5, <2>2, <2>4, <2>5, <3>1
      <3>2. CASE i # w.window
        BY <1>4, <1>16, <3>2 DEF SummaryIs
      <3> QED BY <3>1, <3>2
    <2>7. m.issued = Cardinality(IssuedIn(s, m.window)')
      BY <1>5, <1>10, <2>2, <2>4
    <2>8. m.objectCount = Cardinality(Finalized(s)')
      BY <1>1, <1>4, <1>10, <1>15 DEF SummaryIs
    <2> QED
      BY <1>5, <1>10, <1>11, <2>1, <2>5, <2>6, <2>7, <2>8 DEF SummaryIs
  <1>19. ASSUME NEW t, t # s
         PROVE  SummaryIs(t)' /\ Summary(t)' = Summary(t)
    <2>1. Summary(t)' = Summary(t)
      <3>1. Same(Uploads(t))
        BY <1>2, <1>6, <1>8, <1>19, UploadsNames, UploadsIds
      <3> QED BY <3>1, SummarySame
    <2>2. \A v \in Sessions(t) : document'[v] = document[v]
      BY <1>13 DEF Sessions, RecordsOf
    <2>3. SummaryIs(t)
      BY DEF UploadsInv
    <2> QED BY <1>12, <1>19, <2>1, <2>2, <2>3, SummaryStays
  <1>20. ASSUME NEW v
         PROVE  Same(Permanent(v)) /\ Same(EvidenceObject(v))
    BY <1>6, <1>8, UploadsNames
  <1>21. ASSUME NEW v \in Kind("uploadSession")
         PROVE  SessionIs(v)'
    <2>1. PICK k : k = Summary(v[2])'
      OBVIOUS
    <2>2. SessionIs(v) /\ SummaryIs(v[2])
      BY DEF UploadsInv
    <2>3. Summary(v[2]).window \in Nat
      BY <2>2 DEF SummaryIs
    <2>4. k.window \in Nat /\ k.window >= Summary(v[2]).window
      BY <1>1, <1>5, <1>10, <1>11, <1>19, <2>1, <2>3
    <2>5. document[v].status = "promotion_pending" =>
            k.active = v /\ k.activeStatus = "promotion_pending"
      <3>1. CASE v[2] = s
        BY <1>14, <3>1 DEF Sessions, RecordsOf
      <3>2. CASE v[2] # s
        BY <1>19, <2>1, <2>2, <3>2 DEF SessionIs
      <3> QED BY <3>1, <3>2
    <2> QED
      BY <1>13, <1>20, <2>1, <2>2, <2>3, <2>4, <2>5, SessionStays
  <1>22. SessionIs(u)'
    <2>1. /\ Permanent(u) \notin DOMAIN document
          /\ EvidenceObject(u) \notin DOMAIN document
      BY <1>12 DEF UploadsInv, ObjectOf
    <2>2. /\ Permanent(u) \notin DOMAIN document'
          /\ EvidenceObject(u) \notin DOMAIN document'
      BY <1>20, <2>1 DEF Same
    <2>3. w.window \in 1 .. m.window
      BY <1>5, <1>10
    <2> QED BY <1>1, <1>4, <1>8, <1>9, <1>11, <2>2, <2>3 DEF SessionIs
  <1>23. \A v : ObjectOf(v)'
    BY <1>12, <1>20 DEF UploadsInv, ObjectOf, Same
  <1>24. \A d \in Calls : FinalizeIs(d)'
    <2>1. \A v \in Kind("uploadSession") :
            /\ v \in Kind("uploadSession")'
            /\ document[v].status # "upload_pending" =>
                 /\ document'[v].status # "upload_pending"
                 /\ document'[v].generation = document[v].generation
            /\ Permanent(v) \in DOMAIN document =>
                 Permanent(v) \in DOMAIN document'
      BY <1>12, <1>13, <1>20 DEF Same
    <2>2. \A d \in Calls :
            call'[d].pc \in {"upload", "reserve", "promote_object", "bind"} =>
              call'[d] = call[d]
      BY <1>7 DEF Moved, Idle
    <2> QED BY <2>1, <2>2, CallsGoOn
  <1> QED
    BY <1>12, <1>18, <1>19, <1>21, <1>22, <1>23, <1>24 DEF UploadsInv

LEMMA UploadsStepped ==
  ASSUME Shapes, Shapes', UploadsInv, UNCHANGED budget, NEW c \in Calls,
         UploadsNext(c)
  PROVE  UploadsInv'
  <1>1. \/ \E s, r, over : ReadUploadSession(c, s, r, over)
        \/ CreateUploadSession(c)
        \/ \E u \in Kind("uploadSession") :
             StageObject(u) \/ RemoveStaged(u)
        \/ \E u \in Kind("uploadSession") : SessionExpires(u)
        \/ \E u \in Kind("uploadSession") : ReadStagedObject(c, u)
        \/ ReservePromotion(c)
        \/ PromoteObject(c)
        \/ BindObject(c)
    BY Zenon DEF UploadsNext
  <1> QED
    BY <1>1, UploadRead, SessionCreated, StagedChanges, Expires, StagedRead,
       Reserves, Promotes, Binds, Zenon

LEMMA UploadsStep ==
  ASSUME Shapes, Shapes', UploadsInv, UNCHANGED budget,
         [PlatformNext]_documentVars
  PROVE  UploadsInv'
  <1>1. \/ \E c \in Calls : UploadsNext(c)
        \/ Frame(UploadsMine, UploadsPcs)
    <2> DEFINE Apart(kinds, pcs) ==
                 kinds \cap UploadsMine = {} /\ pcs \cap UploadsPcs = {}
    <2>1. /\ Apart(WorkspaceKinds, WorkspacePcs)
          /\ Apart(DetectiveKinds, DetectivePcs) /\ Apart(RiskKinds, RiskPcs)
          /\ Apart(CasesKinds, CasesPcs) /\ Apart(SponsorKinds, SponsorPcs)
          /\ Apart({}, {})
          /\ \A kinds \in {LaboratoriesKinds, TraceabilityKinds, TwinsKinds,
                           PriorityKinds, SupplyKinds, BrandKinds} :
               Apart(kinds, {})
      BY DEF WorkspaceKinds, DetectiveKinds, RiskKinds, CasesKinds, SponsorKinds,
         LaboratoriesKinds, TraceabilityKinds, TwinsKinds, PriorityKinds,
         SupplyKinds, BrandKinds, UploadsMine, WorkspacePcs, DetectivePcs,
         RiskPcs, CasesPcs, SponsorPcs, UploadsPcs
    <2> HIDE DEF Apart
    <2>2. \/ \E c \in Calls : UploadsNext(c)
          \/ \E kinds, pcs : Touches(kinds, pcs) /\ Apart(kinds, pcs)
      BY <2>1, Stepped
    <2>3. "idle" \notin UploadsPcs
      BY UploadsNames
    <2> QED BY <2>2, <2>3, Framed DEF Apart
  <1> QED BY <1>1, UploadsStepped, UploadsFramed DEF Frame

-----------------------------------------------------------------------------
(* No step changes its budget.                                             *)

LEMMA Store ==
  /\ \A w : Transact(w) => UNCHANGED budget
  /\ \A d, w : TransactDeleting(d, w) => UNCHANGED budget
  /\ \A c, w, next : Claim(c, w, next) => UNCHANGED budget
  /\ \A c, next : Read(c, next) => UNCHANGED budget
  /\ \A c, w, next : Step(c, w, next) => UNCHANGED budget
  /\ \A c, w : Commit(c, w) => UNCHANGED budget
  /\ \A c : GiveUp(c) => UNCHANGED budget
  BY DEF Transact, TransactDeleting, Claim, Read, Step, Commit, GiveUp

LEMMA UploadsBudget ==
  ASSUME NEW c, UploadsNext(c)
  PROVE  UNCHANGED budget
  BY Store, Zenon DEF UploadsNext, ReadUploadSession, CreateUploadSession,
     StageObject, RemoveStaged, SessionExpires, ReadStagedObject,
     ReservePromotion, PromoteObject, BindObject

LEMMA WorkspaceBudget ==
  ASSUME NEW c, WorkspaceNext(c)
  PROVE  UNCHANGED budget
    BY Store, Zenon DEF WorkspaceNext, WorkspaceReads,
     CreateOdlaVerificationCase, AppendOdlaChainOfCustodyEvent,
     AppendCustodyEvent, CreateOdlaTestRequest, CreateTestRequest,
     RecordOdlaTestResult, AdjudicateOdlaFinding, WriteFinding,
     OpenOdlaAppeal, ResolveOdlaAppeal, ResolveAppeal

LEMMA DetectiveBudget ==
  ASSUME NEW c, DetectiveNext(c)
  PROVE  UNCHANGED budget
  <1>1. ASSUME NEW t, NEW x, NEW a, NEW status,
               PersistDigitalDetectiveResult(t, x, a, status)
        PROVE  UNCHANGED budget
    <2>1. PICK w : Transact(w)
      BY <1>1, Zenon DEF PersistDigitalDetectiveResult
    <2> QED BY <2>1, Store
  <1>2. ASSUME NEW t, ClaimDispatch(c, t)
        PROVE  UNCHANGED budget
    BY <1>2, Store, Zenon DEF ClaimDispatch
  <1>3. ASSUME \/ WebhookAnswered(c) \/ NoToken(c) \/ RecordFailure(c)
               \/ WebhookFailed(c) \/ CatchFailure(c)
        PROVE  UNCHANGED budget
    <2>1. PICK w, next : Step(c, w, next)
      BY <1>3 DEF WebhookAnswered, NoToken, RecordFailure, WebhookFailed,
         CatchFailure, Commit
    <2> QED BY <2>1, Store
  <1>4. ASSUME NEW s, \/ CreateDigitalDetectiveTask(s)
                      \/ CreateAiFieldOperation(s)
                      \/ AiFieldOperationBridge(s)
        PROVE  UNCHANGED budget
    BY <1>4, Store, Zenon DEF CreateDigitalDetectiveTask,
       CreateAiFieldOperation, AiFieldOperationBridge
  <1> QED BY <1>1, <1>2, <1>3, <1>4, Zenon DEF DetectiveNext

LEMMA RiskBudget ==
  ASSUME NEW c, RiskNext(c)
  PROVE  UNCHANGED budget
    BY Store, Zenon DEF RiskNext, WriteSource, PromoteSharedRisk,
     PersistMonitoringRisk, ExecutePersistenceTransaction

LEMMA CasesBudget ==
  ASSUME NEW c, CasesNext(c)
  PROVE  UNCHANGED budget
    BY Store, Zenon DEF CasesNext, ReadCaseSource, CreateCase, CloseCase,
     AppendChainEvent, CreateReviewTask, AppendReviewTaskEvent, CreateParty,
     CreateRelationship, AppendCaseGraphEvent, UpdateCasePartyProfile,
     StartLegalHold, ReleaseLegalHold, SetRetentionPolicy, AssessDisposition,
     ExportReadiness, CreateCaseExportPackage

LEMMA SponsorBudget ==
  ASSUME NEW c, SponsorNext(c)
  PROVE  UNCHANGED budget
    BY Store, Zenon DEF SponsorNext, UploadSponsorLogo, NoUpload,
     WriteSponsor, RefuseSponsor, DeleteReplacedLogo

LEMMA LaboratoriesBudget ==
  ASSUME LaboratoriesNext
  PROVE  UNCHANGED budget
  <1>1. \A callable, k, e, version, x, type :
          Mutation(callable, k, e, version, x, type) => UNCHANGED budget
    BY DEF Mutation, Transact
  <1>2. /\ \A k, i, g : RegisterLaboratory(k, i, g) => UNCHANGED budget
        /\ \A k, i, l, g : SubmitAccreditation(k, i, l, g) => UNCHANGED budget
        /\ \A k, i, v, g : ReviewAccreditation(k, i, v, g) => UNCHANGED budget
        /\ \A k, i, v, g : ChangeLaboratoryStatus(k, i, v, g) => UNCHANGED budget
    BY <1>1, Zenon DEF RegisterLaboratory, SubmitAccreditation,
       ReviewAccreditation, ChangeLaboratoryStatus
  <1> QED BY <1>2, Zenon DEF LaboratoriesNext

LEMMA TraceabilityBudget ==
  ASSUME TraceabilityNext
  PROVE  UNCHANGED budget
  <1>1. \A d, p, v, rapid : VerifyProductCode(d, p, v, rapid) => UNCHANGED budget
    BY DEF VerifyProductCode, Transact
  <1>2. \/ \E i : IssueProductCode(i)
        \/ \E d, v : SetCodeStatus(d, v)
        \/ VerifyUnknownCode
        \/ \E d, p, v, rapid : VerifyProductCode(d, p, v, rapid)
        \/ \E d, v : ReviewSuspiciousVerificationScan(d, v)
        \/ \E d : CreateTraceabilityCaseFromScan(d)
    BY Zenon DEF TraceabilityNext
  <1>3. /\ \A i : IssueProductCode(i) => UNCHANGED budget
        /\ \A d, v : SetCodeStatus(d, v) => UNCHANGED budget
        /\ VerifyUnknownCode => UNCHANGED budget
        /\ \A d, v : ReviewSuspiciousVerificationScan(d, v) => UNCHANGED budget
        /\ \A d : CreateTraceabilityCaseFromScan(d) => UNCHANGED budget
    BY DEF IssueProductCode, SetCodeStatus, VerifyUnknownCode,
       ReviewSuspiciousVerificationScan, CreateTraceabilityCaseFromScan, Transact
  <1> QED BY <1>1, <1>2, <1>3, Zenon

LEMMA TwinsBudget ==
  ASSUME CounterfeitTwinsNext
  PROVE  UNCHANGED budget
    BY Store, Zenon DEF CounterfeitTwinsNext, SubmitCounterfeitTwinReport,
     ReviewCounterfeitTwinReport, DeleteCounterfeitTwinReport,
     CreateCounterfeitTwinRecord, UpdateCounterfeitTwinRecord

LEMMA PriorityBudget ==
  ASSUME IpPriorityNext
  PROVE  UNCHANGED budget
    BY Store, Zenon DEF IpPriorityNext, CreateIpCreationPriorityDraft,
     UpdateIpCreationPriorityDraft, SealIpCreationPriorityRecord,
     CreateIpCreationPriorityVersion, ArchiveCreation,
     EnsureIpCreationRegistryOwnerIdentity

LEMMA SupplyBudget ==
  ASSUME SupplySecurityNext
  PROVE  UNCHANGED budget
    BY Store, ZenonT(30) DEF SupplySecurityNext, CreateTarget, Withdraw,
     CreateSupplyProtectionControl, UpdateSupplyProtectionControl,
     CreateSupplyProductionAsset, UpdateSupplyProductionAsset

LEMMA BrandBudget ==
  ASSUME BrandOnboardingNext
  PROVE  UNCHANGED budget
    BY Store, Zenon DEF BrandOnboardingNext, Apply, ReviewBrandApplication,
     CreateSubscriptionRequest, ProvisionInternalTenant, VerifyAdminEntryGate,
     LockEnds

LEMMA BudgetStays ==
  ASSUME [PlatformNext]_documentVars
  PROVE  UNCHANGED budget
  <1>1. CASE UNCHANGED documentVars
    BY <1>1 DEF documentVars
  <1>2. CASE PlatformNext
    BY <1>2, Store, WorkspaceBudget, DetectiveBudget, RiskBudget, CasesBudget,
       UploadsBudget, SponsorBudget, LaboratoriesBudget, TraceabilityBudget,
       TwinsBudget, PriorityBudget, SupplyBudget, BrandBudget, Zenon
    DEF PlatformNext
  <1> QED BY <1>1, <1>2

LEMMA UploadsInit == DocumentsInit => Shapes /\ UploadsInv
  <1> SUFFICES ASSUME DocumentsInit
               PROVE  Shapes /\ UploadsInv
    OBVIOUS
  <1>1. /\ \A k : Kind(k) = {}
        /\ DOMAIN document = {}
        /\ \A c \in Calls : call[c].pc = "idle"
        /\ budget \in Budgets
    BY DEF DocumentsInit, Kind, Idle
  <1>2. ASSUME NEW s
        PROVE  SummaryIs(s)
    <2>1. Sessions(s) = {} /\ Finalized(s) = {} /\ \A w : IssuedIn(s, w) = {}
      BY <1>1 DEF Sessions, RecordsOf, Finalized, IssuedIn
    <2>2. IsFiniteSet({}) /\ Cardinality({}) = 0
      BY FS_EmptySet
    <2>3. PICK m : m = Summary(s)
      OBVIOUS
    <2>4. m = [active |-> <<>>, activeStatus |-> "", objectCount |-> 0,
               issued |-> 0, window |-> 1]
      BY <1>1, <2>3 DEF Summary, Exists
    <2>5. m = [f \in SummaryFields |-> m[f]] /\ m.window = 1 /\ m.issued = 0
          /\ m.objectCount = 0
      BY <2>4 DEF SummaryFields
    <2>6. Bound("issues") \in Nat
      BY <1>1, BoundIs
    <2> QED BY <2>1, <2>2, <2>3, <2>5, <2>6 DEF SummaryIs
  <1>3. UploadsInv
    BY <1>1, <1>2 DEF UploadsInv, ObjectOf, FinalizeIs
  <1> QED BY <1>1, <1>3, IdleShape DEF DocumentsInit, Shapes

\* However the finalizers of an evidence interleave, are cut off and repeated:
\* one promotion at a time, that of the active session; one object for a
\* session, of the generation that was reserved; no window over its quota.
THEOREM UploadsAreBound == PlatformSpec => []UploadsBound
  <1> DEFINE Inv == Shapes /\ UploadsInv
  <1>1. DocumentsInit => Inv
    BY UploadsInit
  <1>2. Inv /\ [PlatformNext]_documentVars => Inv'
    BY ShapesStep, BudgetStays, UploadsStep
  <1>3. Inv => UploadsBound
    BY UploadsMean
  <1> QED BY <1>1, <1>2, <1>3, PTL DEF PlatformSpec

-----------------------------------------------------------------------------
(* Case files.                                                             *)

ChainKinds == {"evidenceRef", "retention", "reviewTask", "party",
               "relationship", "hold"}
CaseMine == ChainKinds \cup {"caseFile", "recordEvent", "package"}

Count(d) == IF d \in DOMAIN document THEN document[d].eventCount ELSE 0
Told(d, type) == Happened(document, d, type)

\* The events of a record are one chain, up to the last; there are none of a
\* record that there is not.
ChainIs(d) ==
    LET events == EventsOf(document, d) IN
    /\ Count(d) \in Nat
    /\ IsFiniteSet(events) /\ Cardinality(events) = Count(d)
    /\ {document[e].sequence : e \in events} = 1 .. Count(d)
    /\ Count(d) > 0 => /\ document[d].last \in events
                       /\ document[document[d].last].sequence = Count(d)
    /\ \A e \in events : document[e].sequence > 1 =>
         /\ document[e].previous \in events
         /\ document[document[e].previous].sequence = document[e].sequence - 1
    /\ \A e \in events : CaseEvent(d[2], e) \in DOMAIN document

\* What the status of a record tells of its events.
ReviewTaskTold(d) ==
    LET x == document[d] IN
    /\ "status" \in DOMAIN x /\ x.eventCount > 0
    /\ Told(d, "review_completed") = IF x.status = "completed" THEN 1 ELSE 0
    /\ Told(d, "task_cancelled") = IF x.status = "cancelled" THEN 1 ELSE 0
    /\ x.status \in {"completed", "cancelled"} =>
         document[x.last].type \in {"review_completed", "task_cancelled"}

EvidenceTold(d) ==
    LET x == document[d] IN
    /\ {"review", "custody", "lastType"} \subseteq DOMAIN x
    /\ Told(d, "review_completed") = IF x.review = "verified" THEN 1 ELSE 0
    /\ Told(d, "sealed") = Told(d, "unsealed")
                             + IF x.custody = "sealed" THEN 1 ELSE 0

GraphTold(d) ==
    LET x == document[d] IN
    /\ "status" \in DOMAIN x /\ x.eventCount > 0
    /\ x.status = "inactive" <=> document[x.last].type = "deactivate"

HoldTold(d) ==
    LET x == document[d] IN
    /\ "status" \in DOMAIN x
    /\ \/ x.status = "active" /\ x.eventCount = 1
       \/ x.status = "released" /\ x.eventCount = 2

RetentionTold(d) ==
    /\ {"policyVersion", "disposition"} \subseteq DOMAIN document[d]
    /\ d = RetentionRecord(d[2])

CaseRecordIs(d) ==
    /\ CaseFile(d[2]) \in DOMAIN document
    /\ {"eventCount", "last"} \subseteq DOMAIN document[d]
    /\ KindOf(d) = "reviewTask" => ReviewTaskTold(d)
    /\ KindOf(d) = "evidenceRef" => EvidenceTold(d)
    /\ KindOf(d) \in {"party", "relationship"} => GraphTold(d)
    /\ KindOf(d) = "hold" => HoldTold(d)
    /\ KindOf(d) = "retention" => RetentionTold(d)

ActiveHolds(s) == {d \in RecordsOf(s, "hold") : document[d].status = "active"}

FileIs(s) ==
    LET x == document[CaseFile(s)] IN
    /\ DOMAIN x = {"status", "activeHolds", "held", "retention"}
    /\ EvidenceRef(s) \in DOMAIN document
    /\ IsFiniteSet(ActiveHolds(s))
    /\ x.activeHolds = Cardinality(ActiveHolds(s))
    /\ x.held <=> ActiveHolds(s) # {}
    /\ RetentionRecord(s) \in DOMAIN document =>
         /\ x.retention.disposition = document[RetentionRecord(s)].disposition
         /\ x.retention.policyVersion = document[RetentionRecord(s)].policyVersion
         /\ x.retention.disposition = "eligible_for_disposition" =>
              x.status = "closed"

ChainsAre == \A d : KindOf(d) \in ChainKinds => ChainIs(d)

CaseInv ==
    /\ ChainsAre
    /\ \A d \in DOMAIN document : KindOf(d) \in ChainKinds => CaseRecordIs(d)
    /\ \A d \in Kind("caseFile") : d = CaseFile(d[2]) /\ FileIs(d[2])
    /\ \A p \in Kind("package") : Whole(document[p].manifest, p[2])
    /\ \A c \in Calls : call[c].pc = "export" =>
         CaseFile(call[c].source) \in DOMAIN document

LEMMA ChainKindIs ==
  /\ \A d : KindOf(d) \in ChainKinds \cup {"recordEvent"} => d[1] = KindOf(d)
  /\ ChainKinds \cup {"caseFile"} = SectionKinds
  /\ \A k \in ChainKinds : k \notin {"caseFile", "recordEvent", "package", "caseEvent"}
  BY DEF KindOf, ChainKinds, SectionKinds

LEMMA ChainEvents ==
  ASSUME Shapes, NEW v
  PROVE  EventsOf(document, v) =
           {e \in DOMAIN document : KindOf(e) = "recordEvent" /\ e[2] = v}
  BY DEF Shapes, EventsOf, KindOf

LEMMA ChainEventsAfter ==
  ASSUME Shapes', NEW v
  PROVE  EventsOf(document', v) =
           {e \in DOMAIN document' : KindOf(e) = "recordEvent" /\ e[2] = v}
  BY DEF Shapes, EventsOf, KindOf

\* The events of record v are as they were, and so is what it says of them.
ChainSame(v) ==
    /\ \A e : KindOf(e) = "recordEvent" /\ e[2] = v => Same(e)
    /\ v \in DOMAIN document' <=> v \in DOMAIN document
    /\ v \in DOMAIN document =>
         /\ document'[v].eventCount = document[v].eventCount
         /\ document'[v].last = document[v].last

\* No case file goes, nor the evidence or the events of one.
CaseStays ==
    \A d \in DOMAIN document :
      KindOf(d) \in {"caseFile", "evidenceRef", "caseEvent"} => d \in DOMAIN document'

LEMMA ChainLeft ==
  ASSUME Shapes, Shapes', NEW v, ChainSame(v), ChainIs(v), CaseStays
  PROVE  /\ ChainIs(v)'
         /\ \A type : Told(v, type)' = Told(v, type)
         /\ v \in DOMAIN document /\ Count(v) > 0 =>
              document'[document'[v].last].type = document[document[v].last].type
  <1>1. PICK events : events = EventsOf(document, v)
    OBVIOUS
  <1>2. /\ EventsOf(document', v) = events
        /\ \A e \in events : document'[e] = document[e] /\ e \in DOMAIN document
    BY <1>1, ChainEvents, ChainEventsAfter DEF ChainSame, Same
  <1>3. Count(v)' = Count(v)
    BY DEF ChainSame, Count
  <1>4. \A e \in events : CaseEvent(v[2], e) \in DOMAIN document'
    BY <1>1, CasesNames DEF ChainIs, CaseStays
  <1>5. {document'[e].sequence : e \in events} = {document[e].sequence : e \in events}
    BY <1>2
  <1>6. /\ Count(v) \in Nat
        /\ IsFiniteSet(events) /\ Cardinality(events) = Count(v)
        /\ {document'[e].sequence : e \in events} = 1 .. Count(v)
        /\ Count(v) > 0 => /\ document[v].last \in events
                           /\ document'[document[v].last].sequence = Count(v)
        /\ \A e \in events : document'[e].sequence > 1 =>
             /\ document'[e].previous \in events
             /\ document'[document'[e].previous].sequence = document'[e].sequence - 1
    BY <1>1, <1>2, <1>5 DEF ChainIs
  <1>7. Count(v) > 0 => document'[v].last = document[v].last
    BY DEF ChainSame, Count
  <1>8. ChainIs(v)'
    BY <1>2, <1>3, <1>4, <1>6, <1>7 DEF ChainIs
  <1>9. ASSUME NEW type
        PROVE  Told(v, type)' = Told(v, type)
    <2>1. {e \in EventsOf(document', v) : document'[e].type = type}
            = {e \in events : document[e].type = type}
      BY <1>2
    <2> QED BY <1>1, <2>1 DEF Told, Happened
  <1>10. v \in DOMAIN document /\ Count(v) > 0 =>
           document'[document'[v].last].type = document[document[v].last].type
    BY <1>2, <1>6, <1>7
  <1> QED BY <1>8, <1>9, <1>10

\* Record d, with a further event e.
Gains(d, e, type) ==
    /\ KindOf(d) \in ChainKinds
    /\ KindOf(e) = "recordEvent" /\ e[2] = d
    /\ e \notin DOMAIN document /\ e \in DOMAIN document'
    /\ document'[e].sequence = Count(d) + 1
    /\ Count(d) > 0 => document'[e].previous = document[d].last
    /\ document'[e].type = type
    /\ d \in DOMAIN document'
    /\ document'[d].eventCount = Count(d) + 1 /\ document'[d].last = e
    /\ CaseEvent(d[2], e) \in DOMAIN document'
    /\ \A x : KindOf(x) \in ChainKinds \cup {"recordEvent", "package"}
              /\ x # d /\ x # e => Same(x)
    /\ Grows

LEMMA ChainGains ==
  ASSUME Shapes, Shapes', NEW d, NEW e, NEW type, Gains(d, e, type), ChainIs(d)
  PROVE  /\ ChainIs(d)'
         /\ \A t : /\ Told(d, t) \in Nat
                   /\ Told(d, t)' = Told(d, t) + IF t = type THEN 1 ELSE 0
         /\ document'[document'[d].last].type = type
         /\ Count(d) \in Nat
  <1>1. PICK events, n : events = EventsOf(document, d) /\ n = Count(d)
    OBVIOUS
  <1>2. e # d
    BY ChainKindIs DEF Gains
  <1>3. /\ EventsOf(document', d) = events \cup {e} /\ e \notin events
        /\ \A x \in events : document'[x] = document[x] /\ x \in DOMAIN document
    <2>1. \A x : KindOf(x) = "recordEvent" /\ x # e => Same(x)
      BY ChainKindIs DEF Gains
    <2>2. /\ events = {x \in DOMAIN document : KindOf(x) = "recordEvent" /\ x[2] = d}
          /\ EventsOf(document', d) =
               {x \in DOMAIN document' : KindOf(x) = "recordEvent" /\ x[2] = d}
      BY <1>1, ChainEvents, ChainEventsAfter
    <2> QED BY <2>1, <2>2 DEF Gains, Same
  <1>4. /\ n \in Nat /\ IsFiniteSet(events) /\ Cardinality(events) = n
        /\ {document[x].sequence : x \in events} = 1 .. n
        /\ n > 0 => /\ document[d].last \in events
                    /\ document[document[d].last].sequence = n
        /\ \A x \in events : document[x].sequence > 1 =>
             /\ document[x].previous \in events
             /\ document[document[x].previous].sequence = document[x].sequence - 1
        /\ \A x \in events : CaseEvent(d[2], x) \in DOMAIN document
    BY <1>1 DEF ChainIs
  <1>5. /\ Count(d)' = n + 1 /\ document'[d].last = e
        /\ document'[e].sequence = n + 1 /\ document'[e].type = type
        /\ n > 0 => document'[e].previous = document[d].last
        /\ CaseEvent(d[2], e) \in DOMAIN document'
        /\ DOMAIN document \subseteq DOMAIN document'
    BY <1>1 DEF Gains, Count, Grows
  <1>6. IsFiniteSet(events \cup {e}) /\ Cardinality(events \cup {e}) = n + 1
    BY <1>3, <1>4, FS_AddElement
  <1>7. {document'[x].sequence : x \in events \cup {e}} = 1 .. (n + 1)
    <2>1. {document'[x].sequence : x \in events \cup {e}}
            = {document[x].sequence : x \in events} \cup {n + 1}
      BY <1>3, <1>5
    <2>2. (1 .. n) \cup {n + 1} = 1 .. (n + 1)
      BY <1>4
    <2> QED BY <1>4, <2>1, <2>2
  <1>8. ASSUME NEW x \in events \cup {e}, document'[x].sequence > 1
        PROVE  /\ document'[x].previous \in events \cup {e}
               /\ document'[document'[x].previous].sequence = document'[x].sequence - 1
    <2>1. CASE x = e
      BY <1>3, <1>4, <1>5, <1>8, <2>1
    <2>2. CASE x \in events
      BY <1>3, <1>4, <1>8, <2>2
    <2> QED BY <1>8, <2>1, <2>2
  <1>9. \A x \in events \cup {e} : CaseEvent(d[2], x) \in DOMAIN document'
    BY <1>4, <1>5
  <1>10. ChainIs(d)'
    <2> DEFINE after == events \cup {e}
    <2>1. EventsOf(document', d) = after
      BY <1>3
    <2>2. /\ n + 1 \in Nat /\ IsFiniteSet(after) /\ Cardinality(after) = n + 1
          /\ {document'[x].sequence : x \in after} = 1 .. (n + 1)
          /\ e \in after
      BY <1>4, <1>6, <1>7
    <2>3. /\ \A x \in after : document'[x].sequence > 1 =>
               /\ document'[x].previous \in after
               /\ document'[document'[x].previous].sequence = document'[x].sequence - 1
          /\ \A x \in after : CaseEvent(d[2], x) \in DOMAIN document'
      BY <1>8, <1>9
    <2> HIDE DEF after
    <2> QED BY <1>5, <2>1, <2>2, <2>3 DEF ChainIs
  <1>11. ASSUME NEW t
         PROVE  /\ Told(d, t) \in Nat
                /\ Told(d, t)' = Told(d, t) + IF t = type THEN 1 ELSE 0
    <2>1. PICK told : told = {x \in events : document[x].type = t}
      OBVIOUS
    <2>2. IsFiniteSet(told) /\ Cardinality(told) \in Nat
      BY <1>4, <2>1, FS_Subset, FS_CardinalityType
    <2>3. {x \in EventsOf(document', d) : document'[x].type = t}
            = IF t = type THEN told \cup {e} ELSE told
      BY <1>3, <1>5, <2>1
    <2>4. Cardinality(told \cup {e}) = Cardinality(told) + 1
      BY <1>3, <2>1, <2>2, FS_AddElement
    <2>5. Told(d, t) = Cardinality(told)
      BY <1>1, <2>1 DEF Told, Happened
    <2>6. Told(d, t)' = Cardinality({x \in EventsOf(document', d) : document'[x].type = t})
      BY DEF Told, Happened
    <2>7. CASE t = type
      BY <2>2, <2>3, <2>4, <2>5, <2>6, <2>7
    <2>8. CASE t # type
      BY <2>2, <2>3, <2>5, <2>6, <2>8
    <2> QED BY <2>7, <2>8
  <1> QED BY <1>1, <1>4, <1>5, <1>10, <1>11

\* A record that no step writes tells what it told.
LEMMA RecordLeft ==
  ASSUME Shapes, Shapes', NEW v \in DOMAIN document, Same(v),
         ChainSame(v), ChainIs(v), CaseRecordIs(v), CaseStays
  PROVE  CaseRecordIs(v)'
  <1>2. /\ document'[v] = document[v]
        /\ \A type : Told(v, type)' = Told(v, type)
        /\ document[v].eventCount > 0 =>
             document'[document[v].last].type = document[document[v].last].type
    BY ChainLeft DEF Same, Count
  <1>3. CaseFile(v[2]) \in DOMAIN document'
    BY CasesNames DEF CaseRecordIs, CaseStays
  <1>4. ReviewTaskTold(v) => ReviewTaskTold(v)'
    BY <1>2 DEF ReviewTaskTold
  <1>5. EvidenceTold(v) => EvidenceTold(v)'
    BY <1>2 DEF EvidenceTold
  <1>6. GraphTold(v) => GraphTold(v)'
    BY <1>2 DEF GraphTold
  <1>7. HoldTold(v) => HoldTold(v)'
    BY <1>2 DEF HoldTold
  <1>8. RetentionTold(v) => RetentionTold(v)'
    BY <1>2 DEF RetentionTold
  <1> QED BY <1>2, <1>3, <1>4, <1>5, <1>6, <1>7, <1>8 DEF CaseRecordIs

LEMMA OthersLeft ==
  ASSUME Shapes, Shapes', CaseInv, NEW d, NEW e, NEW type, Gains(d, e, type)
  PROVE  /\ ChainsAre'
         /\ \A v \in DOMAIN document' :
              KindOf(v) \in ChainKinds /\ v # d => CaseRecordIs(v)'
  <1>1. CaseStays
    BY DEF CaseStays, Gains, Grows
  <1>2. ASSUME NEW v, KindOf(v) \in ChainKinds, v # d
        PROVE  ChainSame(v) /\ Same(v)
    <2>1. \A x : KindOf(x) = "recordEvent" /\ x[2] = v => Same(x)
      BY <1>2, ChainKindIs DEF Gains
    <2>2. Same(v)
      BY <1>2, ChainKindIs DEF Gains
    <2> QED BY <2>1, <2>2 DEF ChainSame, Same
  <1>3. ASSUME NEW v, KindOf(v) \in ChainKinds
        PROVE  ChainIs(v)'
    <2>1. ChainIs(v)
      BY <1>3 DEF CaseInv, ChainsAre
    <2>2. CASE v = d
      BY <2>1, <2>2, ChainGains
    <2>3. CASE v # d
      BY <1>1, <1>2, <1>3, <2>1, <2>3, ChainLeft
    <2> QED BY <2>2, <2>3
  <1>4. ASSUME NEW v \in DOMAIN document', KindOf(v) \in ChainKinds, v # d
        PROVE  CaseRecordIs(v)'
    <2>1. ChainSame(v) /\ Same(v) /\ v \in DOMAIN document
      BY <1>2, <1>4 DEF Same
    <2>2. ChainIs(v) /\ CaseRecordIs(v)
      BY <1>4, <2>1 DEF CaseInv, ChainsAre
    <2> QED BY <1>1, <2>1, <2>2, RecordLeft
  <1> QED BY <1>3, <1>4 DEF ChainsAre

\* What a callable writes of record d: it, event e of it and the case's event.
EventPut(d, e, y, z) ==
    /\ d \in DOMAIN document' /\ document'[d] = y
    /\ e \in DOMAIN document' /\ document'[e] = z
    /\ CaseEvent(d[2], e) \in DOMAIN document'

PutsEvent(d, r, y, z, u) ==
    document' = d :> y @@ RecordEvent(d, r) :> z
                @@ CaseEvent(d[2], RecordEvent(d, r)) :> u @@ document

PutsEventAnd(d, r, y, z, u, file, t) ==
    document' = d :> y @@ RecordEvent(d, r) :> z
                @@ CaseEvent(d[2], RecordEvent(d, r)) :> u
                @@ file :> t @@ document

LEMMA EventWritten ==
  ASSUME NEW d, KindOf(d) \in ChainKinds, NEW r, NEW y, NEW z, NEW u,
         PutsEvent(d, r, y, z, u)
  PROVE  /\ EventPut(d, RecordEvent(d, r), y, z) /\ Grows
         /\ \A v : v # d /\ v # RecordEvent(d, r) /\ KindOf(v) # "caseEvent" => Same(v)
         /\ \A v : KindOf(v) = "caseFile" => Same(v)
  <1>1. PICK e, g : e = RecordEvent(d, r) /\ g = CaseEvent(d[2], e)
    OBVIOUS
  <1>2. KindOf(e) = "recordEvent" /\ KindOf(g) = "caseEvent"
    BY <1>1, CasesNames
  <1>3. d # e /\ d # g /\ e # g /\ KindOf(d) # "caseFile"
    BY <1>2, ChainKindIs
  <1>4. document' = d :> y @@ e :> z @@ g :> u @@ document
    BY <1>1 DEF PutsEvent
  <1>5. /\ d \in DOMAIN document' /\ document'[d] = y
        /\ e \in DOMAIN document' /\ document'[e] = z
        /\ g \in DOMAIN document'
        /\ \A v : v # d /\ v # e /\ v # g => Same(v)
    BY <1>3, <1>4, Write3
  <1>6. Grows
    BY <1>4, OverGrows
  <1>7. /\ \A v : v # d /\ v # e /\ KindOf(v) # "caseEvent" => Same(v)
        /\ \A v : KindOf(v) = "caseFile" => Same(v)
    BY <1>2, <1>3, <1>5
  <1> QED BY <1>1, <1>5, <1>6, <1>7 DEF EventPut

LEMMA EventWrittenOfCase ==
  ASSUME NEW d, KindOf(d) \in ChainKinds, NEW r, NEW y, NEW z, NEW u,
         NEW file, NEW t, KindOf(file) = "caseFile",
         PutsEventAnd(d, r, y, z, u, file, t)
  PROVE  /\ EventPut(d, RecordEvent(d, r), y, z) /\ Grows
         /\ file \in DOMAIN document' /\ document'[file] = t
         /\ \A v : v # d /\ v # RecordEvent(d, r)
                   /\ KindOf(v) \notin {"caseEvent", "caseFile"} => Same(v)
         /\ \A v : KindOf(v) = "caseFile" /\ v # file => Same(v)
  <1>1. PICK e, g : e = RecordEvent(d, r) /\ g = CaseEvent(d[2], e)
    OBVIOUS
  <1>2. KindOf(e) = "recordEvent" /\ KindOf(g) = "caseEvent"
    BY <1>1, CasesNames
  <1>3. /\ d # e /\ d # g /\ e # g /\ KindOf(d) # "caseFile"
        /\ d # file /\ e # file /\ g # file
    BY <1>2, ChainKindIs
  <1>4. document' = d :> y @@ e :> z @@ g :> u @@ file :> t @@ document
    BY <1>1 DEF PutsEventAnd
  <1>5. /\ d \in DOMAIN document' /\ document'[d] = y
        /\ e \in DOMAIN document' /\ document'[e] = z
        /\ g \in DOMAIN document'
        /\ file \in DOMAIN document' /\ document'[file] = t
        /\ \A v : v # d /\ v # e /\ v # g /\ v # file => Same(v)
    BY <1>3, <1>4, Write4
  <1>6. Grows
    BY <1>4, OverGrows
  <1>7. /\ \A v : v # d /\ v # e /\ KindOf(v) \notin {"caseEvent", "caseFile"} => Same(v)
        /\ \A v : KindOf(v) = "caseFile" /\ v # file => Same(v)
    BY <1>2, <1>3, <1>5
  <1> QED BY <1>1, <1>5, <1>6, <1>7 DEF EventPut

LEMMA WrittenGains ==
  ASSUME NEW d, KindOf(d) \in ChainKinds, NEW r, NEW y, NEW z,
         RecordEvent(d, r) \notin DOMAIN document,
         EventPut(d, RecordEvent(d, r), y, z), Grows,
         y.eventCount = Count(d) + 1, y.last = RecordEvent(d, r),
         z.sequence = Count(d) + 1,
         Count(d) > 0 => z.previous = document[d].last,
         \A v : v # d /\ v # RecordEvent(d, r)
                /\ KindOf(v) \notin {"caseEvent", "caseFile"} => Same(v)
  PROVE  Gains(d, RecordEvent(d, r), z.type)
  <1>1. KindOf(RecordEvent(d, r)) = "recordEvent" /\ RecordEvent(d, r)[2] = d
    BY CasesNames DEF RecordEvent
  <1>2. \A x : KindOf(x) \in ChainKinds \cup {"recordEvent", "package"} =>
          KindOf(x) \notin {"caseFile", "caseEvent"}
    BY ChainKindIs
  <1> QED BY <1>1, <1>2 DEF Gains, EventPut

LEMMA NoEvents ==
  ASSUME Shapes, NEW d, ChainIs(d), d \notin DOMAIN document
  PROVE  Count(d) = 0 /\ \A r : RecordEvent(d, r) \notin DOMAIN document
  <1>1. PICK events : events = EventsOf(document, d)
    OBVIOUS
  <1>2. Count(d) = 0
    BY DEF Count
  <1>3. IsFiniteSet(events) /\ Cardinality(events) = 0
    BY <1>1, <1>2 DEF ChainIs
  <1>4. events = {}
    BY <1>3, FS_EmptySet
  <1>5. \A r : KindOf(RecordEvent(d, r)) = "recordEvent" /\ RecordEvent(d, r)[2] = d
    BY CasesNames DEF RecordEvent
  <1>6. \A e : KindOf(e) = "recordEvent" /\ e[2] = d => e \notin DOMAIN document
    <2>1. {e \in DOMAIN document : KindOf(e) = "recordEvent" /\ e[2] = d} = {}
      BY <1>1, <1>4, ChainEvents
    <2> QED BY <2>1
  <1> QED BY <1>2, <1>5, <1>6

\* The record with its first event.
FirstEvent(d, y, z, type, x) ==
    /\ y = x @@ [eventCount |-> 1, last |-> RecordEvent(d, 0)]
    /\ z = [sequence |-> 1, previous |-> <<>>, type |-> type]

LEMMA FirstEventGains ==
  ASSUME Shapes, NEW d, KindOf(d) \in ChainKinds, ChainIs(d),
         d \notin DOMAIN document, NEW type, NEW x, NEW y, NEW z,
         "eventCount" \notin DOMAIN x, "last" \notin DOMAIN x,
         FirstEvent(d, y, z, type, x),
         EventPut(d, RecordEvent(d, 0), y, z), Grows,
         \A v : v # d /\ v # RecordEvent(d, 0)
                /\ KindOf(v) \notin {"caseEvent", "caseFile"} => Same(v)
  PROVE  /\ Gains(d, RecordEvent(d, 0), type)
         /\ document'[d] = x @@ [eventCount |-> 1, last |-> RecordEvent(d, 0)]
  <1>1. y.eventCount = 1 /\ y.last = RecordEvent(d, 0)
    BY DEF FirstEvent, @@
  <1>2. z.sequence = 1 /\ z.type = type
    BY DEF FirstEvent
  <1>3. Gains(d, RecordEvent(d, 0), z.type)
    BY <1>1, <1>2, NoEvents, WrittenGains
  <1> QED BY <1>2, <1>3 DEF FirstEvent, EventPut

LEMMA OpenedGains ==
  ASSUME Shapes, NEW d, KindOf(d) \in ChainKinds, ChainIs(d),
         d \notin DOMAIN document, NEW type, NEW x,
         "eventCount" \notin DOMAIN x, "last" \notin DOMAIN x,
         document' = Opened(d, type, x) @@ document
  PROVE  \E e : /\ Gains(d, e, type)
                /\ document'[d] = x @@ [eventCount |-> 1, last |-> e]
                /\ \A v : KindOf(v) = "caseFile" => Same(v)
  <1>1. PICK y, z, u : FirstEvent(d, y, z, type, x) /\ PutsEvent(d, 0, y, z, u)
    BY Zenon DEF FirstEvent, PutsEvent, Opened
  <1>2. /\ EventPut(d, RecordEvent(d, 0), y, z) /\ Grows
        /\ \A v : v # d /\ v # RecordEvent(d, 0) /\ KindOf(v) # "caseEvent" => Same(v)
        /\ \A v : KindOf(v) = "caseFile" => Same(v)
    BY <1>1, EventWritten
  <1>3. \A v : v # d /\ v # RecordEvent(d, 0)
               /\ KindOf(v) \notin {"caseEvent", "caseFile"} => Same(v)
    BY <1>2
  <1>4. /\ Gains(d, RecordEvent(d, 0), type)
        /\ document'[d] = x @@ [eventCount |-> 1, last |-> RecordEvent(d, 0)]
    BY <1>1, <1>2, <1>3, FirstEventGains
  <1> QED BY <1>2, <1>4

LEMMA OpenedGainsOfCase ==
  ASSUME Shapes, NEW d, KindOf(d) \in ChainKinds, ChainIs(d),
         d \notin DOMAIN document, NEW type, NEW x,
         "eventCount" \notin DOMAIN x, "last" \notin DOMAIN x,
         NEW file, KindOf(file) = "caseFile", NEW t,
         document' = Opened(d, type, x) @@ file :> t @@ document
  PROVE  \E e : /\ Gains(d, e, type)
                /\ document'[d] = x @@ [eventCount |-> 1, last |-> e]
                /\ file \in DOMAIN document' /\ document'[file] = t
                /\ \A v : KindOf(v) = "caseFile" /\ v # file => Same(v)
  <1>1. PICK y, z, u : FirstEvent(d, y, z, type, x)
                       /\ PutsEventAnd(d, 0, y, z, u, file, t)
    BY Zenon DEF FirstEvent, PutsEventAnd, Opened
  <1>2. /\ EventPut(d, RecordEvent(d, 0), y, z) /\ Grows
        /\ file \in DOMAIN document' /\ document'[file] = t
        /\ \A v : v # d /\ v # RecordEvent(d, 0)
                  /\ KindOf(v) \notin {"caseEvent", "caseFile"} => Same(v)
        /\ \A v : KindOf(v) = "caseFile" /\ v # file => Same(v)
    BY <1>1, EventWrittenOfCase
  <1>3. /\ Gains(d, RecordEvent(d, 0), type)
        /\ document'[d] = x @@ [eventCount |-> 1, last |-> RecordEvent(d, 0)]
    BY <1>1, <1>2, FirstEventGains
  <1> QED BY <1>2, <1>3

\* The record, changed, with its next event.
NextEvent(d, r, y, z, type, x) ==
    /\ y = [x EXCEPT !.eventCount = @ + 1, !.last = RecordEvent(d, r)]
    /\ z = [sequence |-> document[d].eventCount + 1,
            previous |-> document[d].last, type |-> type]

\* What is changed of it is not what counts its events.
Keeps(d, x) ==
    /\ {"eventCount", "last"} \subseteq DOMAIN x
    /\ x.eventCount = document[d].eventCount

\* Record d says of itself, but for its events, what x says.
Says(d, x) ==
    /\ DOMAIN document'[d] = DOMAIN x
    /\ \A f : f \in DOMAIN x /\ f \notin {"eventCount", "last"}
                => document'[d][f] = x[f]

LEMMA NextEventGains ==
  ASSUME Shapes, NEW d \in DOMAIN document, KindOf(d) \in ChainKinds, ChainIs(d),
         NEW r, New(d, r), NEW type, NEW x, NEW y, NEW z, Keeps(d, x),
         NextEvent(d, r, y, z, type, x),
         EventPut(d, RecordEvent(d, r), y, z), Grows,
         \A v : v # d /\ v # RecordEvent(d, r)
                /\ KindOf(v) \notin {"caseEvent", "caseFile"} => Same(v)
  PROVE  Gains(d, RecordEvent(d, r), type) /\ Says(d, x)
  <1>1. /\ y.eventCount = Count(d) + 1 /\ y.last = RecordEvent(d, r)
        /\ DOMAIN y = DOMAIN x
        /\ \A f : f \in DOMAIN x /\ f \notin {"eventCount", "last"} => y[f] = x[f]
    BY DEF NextEvent, Keeps, Count
  <1>2. /\ z.sequence = Count(d) + 1 /\ z.type = type
        /\ z.previous = document[d].last
    BY DEF NextEvent, Count
  <1>3. RecordEvent(d, r) \notin DOMAIN document
    BY DEF New, Exists
  <1>4. Gains(d, RecordEvent(d, r), z.type)
    BY <1>1, <1>2, <1>3, WrittenGains
  <1> QED BY <1>1, <1>2, <1>4 DEF Says, EventPut

LEMMA AppendedGains ==
  ASSUME Shapes, NEW d \in DOMAIN document, KindOf(d) \in ChainKinds, ChainIs(d),
         NEW r, New(d, r), NEW type, NEW x, Keeps(d, x),
         document' = Appended(d, r, type, x) @@ document
  PROVE  \E e : /\ Gains(d, e, type) /\ Says(d, x)
                /\ \A v : KindOf(v) = "caseFile" => Same(v)
  <1>1. PICK y, z, u : NextEvent(d, r, y, z, type, x) /\ PutsEvent(d, r, y, z, u)
    BY Zenon DEF NextEvent, PutsEvent, Appended
  <1>2. /\ EventPut(d, RecordEvent(d, r), y, z) /\ Grows
        /\ \A v : v # d /\ v # RecordEvent(d, r) /\ KindOf(v) # "caseEvent" => Same(v)
        /\ \A v : KindOf(v) = "caseFile" => Same(v)
    BY <1>1, EventWritten
  <1>3. \A v : v # d /\ v # RecordEvent(d, r)
               /\ KindOf(v) \notin {"caseEvent", "caseFile"} => Same(v)
    BY <1>2
  <1>4. Gains(d, RecordEvent(d, r), type) /\ Says(d, x)
    BY <1>1, <1>2, <1>3, NextEventGains
  <1> QED BY <1>2, <1>4

LEMMA AppendedGainsOfCase ==
  ASSUME Shapes, NEW d \in DOMAIN document, KindOf(d) \in ChainKinds, ChainIs(d),
         NEW r, New(d, r), NEW type, NEW x, Keeps(d, x),
         NEW file, KindOf(file) = "caseFile", NEW t,
         document' = Appended(d, r, type, x) @@ file :> t @@ document
  PROVE  \E e : /\ Gains(d, e, type) /\ Says(d, x)
                /\ file \in DOMAIN document' /\ document'[file] = t
                /\ \A v : KindOf(v) = "caseFile" /\ v # file => Same(v)
  <1>1. PICK y, z, u : NextEvent(d, r, y, z, type, x)
                       /\ PutsEventAnd(d, r, y, z, u, file, t)
    BY Zenon DEF NextEvent, PutsEventAnd, Appended
  <1>2. /\ EventPut(d, RecordEvent(d, r), y, z) /\ Grows
        /\ file \in DOMAIN document' /\ document'[file] = t
        /\ \A v : v # d /\ v # RecordEvent(d, r)
                  /\ KindOf(v) \notin {"caseEvent", "caseFile"} => Same(v)
        /\ \A v : KindOf(v) = "caseFile" /\ v # file => Same(v)
    BY <1>1, EventWrittenOfCase
  <1>3. Gains(d, RecordEvent(d, r), type) /\ Says(d, x)
    BY <1>1, <1>2, NextEventGains
  <1> QED BY <1>2, <1>3

LEMMA GainsKeep ==
  ASSUME Shapes, Shapes', CaseInv, NEW d, NEW e, NEW type, Gains(d, e, type),
         CaseRecordIs(d)',
         \A v : KindOf(v) = "caseFile" =>
                  (v \in DOMAIN document' <=> v \in DOMAIN document),
         \A s : CaseFile(s) \in DOMAIN document => FileIs(s)',
         UNCHANGED call
  PROVE  CaseInv'
  <1>1. /\ ChainsAre'
        /\ \A v \in DOMAIN document' : KindOf(v) \in ChainKinds => CaseRecordIs(v)'
    BY OthersLeft
  <1>2. ASSUME NEW v \in Kind("caseFile")'
        PROVE  v = CaseFile(v[2]) /\ FileIs(v[2])'
    <2>1. KindOf(v) = "caseFile" /\ v[1] = "caseFile" /\ v \in DOMAIN document'
      BY <1>2 DEF Kind, Shapes, KindOf
    <2>2. v \in Kind("caseFile")
      BY <2>1 DEF Kind
    <2>3. v = CaseFile(v[2])
      BY <2>2 DEF CaseInv
    <2> QED BY <2>2, <2>3 DEF Kind
  <1>3. ASSUME NEW p \in Kind("package")'
        PROVE  Whole(document'[p].manifest, p[2])
    <2>1. \A x : KindOf(x) = "package" => Same(x)
      BY ChainKindIs DEF Gains
    <2>2. p \in Kind("package") /\ document'[p] = document[p]
      BY <1>3, <2>1, KindKept
    <2> QED BY <2>2 DEF CaseInv
  <1>4. \A c \in Calls : call'[c].pc = "export" =>
          CaseFile(call'[c].source) \in DOMAIN document'
    BY DEF CaseInv, Gains, Grows
  <1> QED BY <1>1, <1>2, <1>3, <1>4 DEF CaseInv

LEMMA HoldsLeft ==
  ASSUME Shapes, Shapes', \A d : KindOf(d) = "hold" => Same(d), NEW s
  PROVE  ActiveHolds(s)' = ActiveHolds(s)
  <1>1. /\ \A d : d \in Kind("hold")' <=> d \in Kind("hold")
        /\ \A d \in Kind("hold") : document'[d] = document[d]
    BY KindKept
  <1> QED BY <1>1 DEF ActiveHolds, RecordsOf

LEMMA FileLeft ==
  ASSUME NEW s, FileIs(s), Same(CaseFile(s)), CaseFile(s) \in DOMAIN document,
         ActiveHolds(s)' = ActiveHolds(s), Same(RetentionRecord(s)), CaseStays
  PROVE  FileIs(s)'
  <1>1. /\ document'[CaseFile(s)] = document[CaseFile(s)]
        /\ RetentionRecord(s) \in DOMAIN document' <=>
             RetentionRecord(s) \in DOMAIN document
        /\ RetentionRecord(s) \in DOMAIN document =>
             document'[RetentionRecord(s)] = document[RetentionRecord(s)]
        /\ EvidenceRef(s) \in DOMAIN document => EvidenceRef(s) \in DOMAIN document'
    BY CasesNames DEF Same, CaseStays
  <1>2. PICK x : x = document[CaseFile(s)]
    OBVIOUS
  <1> QED BY <1>1, <1>2 DEF FileIs

LEMMA FileOf ==
  ASSUME Shapes, CaseInv, NEW s, CaseFile(s) \in DOMAIN document
  PROVE  FileIs(s)
  <1>1. CaseFile(s)[1] = "caseFile" /\ CaseFile(s)[2] = s
    BY DEF CaseFile
  <1>2. CaseFile(s) \in Kind("caseFile")
    BY <1>1 DEF Kind
  <1> QED BY <1>1, <1>2 DEF CaseInv

\* A record that is neither a hold nor the retention leaves the case file
\* alone.
LEMMA UnfiledGains ==
  ASSUME Shapes, Shapes', CaseInv, NEW d, NEW e, NEW type, Gains(d, e, type),
         CaseRecordIs(d)', KindOf(d) \notin {"hold", "retention"},
         \A v : KindOf(v) = "caseFile" => Same(v), UNCHANGED call
  PROVE  CaseInv'
  <1>1. \A x : KindOf(x) \in {"hold", "retention"} => Same(x)
    BY DEF Gains, ChainKinds
  <1>2. ASSUME NEW s, CaseFile(s) \in DOMAIN document
        PROVE  FileIs(s)'
    <2>1. Same(CaseFile(s)) /\ Same(RetentionRecord(s))
      BY <1>1, CasesNames
    <2>2. FileIs(s)
      BY <1>2, FileOf
    <2>3. ActiveHolds(s)' = ActiveHolds(s)
      BY <1>1, HoldsLeft
    <2> QED BY <1>2, <2>1, <2>2, <2>3, FileLeft DEF Gains, Grows, CaseStays
  <1>3. \A v : KindOf(v) = "caseFile" =>
                 (v \in DOMAIN document' <=> v \in DOMAIN document)
    BY DEF Same
  <1> QED BY <1>2, <1>3, GainsKeep

\* Of a record that there was not, nothing was told.
LEMMA ToldNothing ==
  ASSUME Shapes, NEW d, ChainIs(d), d \notin DOMAIN document \/ Count(d) = 0
  PROVE  \A type : Told(d, type) = 0
  <1>1. PICK events : events = EventsOf(document, d)
    OBVIOUS
  <1>2. Count(d) = 0
    BY DEF Count
  <1>3. IsFiniteSet(events) /\ Cardinality(events) = 0
    BY <1>1, <1>2 DEF ChainIs
  <1>4. events = {}
    BY <1>3, FS_EmptySet
  <1>5. ASSUME NEW type
        PROVE  Told(d, type) = 0
    <2>1. {e \in EventsOf(document, d) : document[e].type = type} = {}
      BY <1>1, <1>4
    <2> QED BY <2>1, FS_EmptySet DEF Told, Happened
  <1> QED BY <1>5

\* Cases that there are: what the callables find by the record or by the case.
LEMMA CaseOfRecord ==
  ASSUME Shapes, CaseInv, NEW d \in DOMAIN document, KindOf(d) \in ChainKinds
  PROVE  /\ ChainIs(d) /\ CaseRecordIs(d)
         /\ CaseFile(d[2]) \in DOMAIN document /\ FileIs(d[2])
  <1>1. ChainIs(d) /\ CaseRecordIs(d)
    BY DEF CaseInv, ChainsAre
  <1> QED BY <1>1, FileOf DEF CaseRecordIs

-----------------------------------------------------------------------------
\* Review tasks, parties and relationships.

LEMMA TaskCreated ==
  ASSUME Shapes, Shapes', CaseInv, NEW s, NEW i, NEW assigned,
         CreateReviewTask(s, i, assigned)
  PROVE  CaseInv'
  <1>1. PICK d, x : /\ d = ReviewTask(s, i)
                    /\ x = [status |-> IF assigned THEN "assigned" ELSE "open"]
    OBVIOUS
  <1>2. /\ d \notin DOMAIN document /\ KindOf(d) = "reviewTask" /\ d[2] = s
        /\ CaseFile(s) \in DOMAIN document
    BY <1>1, CasesNames DEF CreateReviewTask, Exists, CaseOpen, ReviewTask
  <1>3. Transact(Opened(d, "task_created", x))
    BY <1>1 DEF CreateReviewTask
  <1>4. KindOf(d) \in ChainKinds /\ ChainIs(d)
    BY <1>2 DEF ChainKinds, CaseInv, ChainsAre
  <1>5. /\ "eventCount" \notin DOMAIN x /\ "last" \notin DOMAIN x
        /\ "status" \in DOMAIN x /\ x.status \notin {"completed", "cancelled"}
    BY <1>1
  <1>6. PICK e : /\ Gains(d, e, "task_created")
                 /\ document'[d] = x @@ [eventCount |-> 1, last |-> e]
                 /\ \A v : KindOf(v) = "caseFile" => Same(v)
    BY <1>2, <1>3, <1>4, <1>5, OpenedGains DEF Transact
  <1>7. /\ {"status", "eventCount", "last"} \subseteq DOMAIN document'[d]
        /\ document'[d].eventCount = 1 /\ document'[d].status = x.status
    BY <1>5, <1>6 DEF @@
  <1>8. /\ Told(d, "review_completed")' = 0
        /\ Told(d, "task_cancelled")' = 0
    BY <1>2, <1>4, <1>6, ToldNothing, ChainGains
  <1>9. ReviewTaskTold(d)'
    BY <1>5, <1>7, <1>8 DEF ReviewTaskTold
  <1>10. CaseRecordIs(d)'
    BY <1>2, <1>6, <1>7, <1>9 DEF CaseRecordIs, Gains, Grows
  <1> QED BY <1>2, <1>3, <1>6, <1>10, UnfiledGains DEF Transact

LEMMA GraphCreated ==
  ASSUME Shapes, Shapes', CaseInv, NEW d, KindOf(d) \in {"party", "relationship"},
         d \notin DOMAIN document, CaseFile(d[2]) \in DOMAIN document,
         NEW type, type # "deactivate", NEW x, x.status = "observed",
         "status" \in DOMAIN x,
         "eventCount" \notin DOMAIN x, "last" \notin DOMAIN x,
         Transact(Opened(d, type, x))
  PROVE  CaseInv'
  <1>1. KindOf(d) \in ChainKinds /\ ChainIs(d)
    BY DEF ChainKinds, CaseInv, ChainsAre
  <1>2. PICK e : /\ Gains(d, e, type)
                 /\ document'[d] = x @@ [eventCount |-> 1, last |-> e]
                 /\ \A v : KindOf(v) = "caseFile" => Same(v)
    BY <1>1, OpenedGains DEF Transact
  <1>3. /\ {"status", "eventCount", "last"} \subseteq DOMAIN document'[d]
        /\ document'[d].eventCount = 1 /\ document'[d].status = "observed"
    BY <1>2 DEF @@
  <1>4. document'[document'[d].last].type = type
    BY <1>1, <1>2, ChainGains
  <1>5. GraphTold(d)'
    BY <1>3, <1>4 DEF GraphTold
  <1>6. CaseRecordIs(d)'
    BY <1>2, <1>3, <1>5 DEF CaseRecordIs, Gains, Grows
  <1> QED BY <1>2, <1>6, UnfiledGains DEF Transact

LEMMA PartyCreated ==
  ASSUME Shapes, Shapes', CaseInv, NEW s, NEW i, CreateParty(s, i)
  PROVE  CaseInv'
  <1>1. PICK d, x : d = Party(s, i) /\ x = [status |-> "observed"]
    OBVIOUS
  <1>2. /\ d \notin DOMAIN document /\ KindOf(d) = "party" /\ d[2] = s
        /\ CaseFile(s) \in DOMAIN document
        /\ Transact(Opened(d, "party_created", x))
    BY <1>1, CasesNames DEF CreateParty, Exists, CaseOpen, Party
  <1>3. /\ x.status = "observed" /\ "status" \in DOMAIN x
        /\ "eventCount" \notin DOMAIN x /\ "last" \notin DOMAIN x
    BY <1>1
  <1> QED BY <1>2, <1>3, GraphCreated

LEMMA RelationshipCreated ==
  ASSUME Shapes, Shapes', CaseInv, NEW s, NEW i, NEW source, NEW target,
         CreateRelationship(s, i, source, target)
  PROVE  CaseInv'
  <1>1. PICK d, x :
          /\ d = Relationship(s, i)
          /\ x = [status |-> "observed", source |-> source, target |-> target]
    OBVIOUS
  <1>2. /\ d \notin DOMAIN document /\ KindOf(d) = "relationship" /\ d[2] = s
        /\ CaseFile(s) \in DOMAIN document
        /\ Transact(Opened(d, "relationship_created", x))
    BY <1>1, CasesNames DEF CreateRelationship, Exists, CaseOpen, Relationship
  <1>3. /\ x.status = "observed" /\ "status" \in DOMAIN x
        /\ "eventCount" \notin DOMAIN x /\ "last" \notin DOMAIN x
    BY <1>1
  <1> QED BY <1>2, <1>3, GraphCreated

LEMMA TaskAppended ==
  ASSUME Shapes, Shapes', CaseInv, NEW d \in DOMAIN document,
         KindOf(d) = "reviewTask", NEW r, NEW type \in DOMAIN ReviewTaskExpected,
         AppendReviewTaskEvent(d, r, type)
  PROVE  CaseInv'
  <1>1. PICK was, status, x :
          /\ was = document[d].status /\ status = ReviewTaskStatus(was, type)
          /\ x = [document[d] EXCEPT !.status = ReviewTaskStatus(@, type)]
    OBVIOUS
  <1>2. /\ New(d, r) /\ was \in ReviewTaskExpected[type]
        /\ Transact(Appended(d, r, type, x))
    BY <1>1 DEF AppendReviewTaskEvent
  <1>3. KindOf(d) \in ChainKinds
    BY DEF ChainKinds
  <1>4. /\ ChainIs(d) /\ CaseRecordIs(d) /\ ReviewTaskTold(d)
        /\ CaseFile(d[2]) \in DOMAIN document
    BY <1>3, CaseOfRecord DEF CaseRecordIs
  <1>5. /\ {"eventCount", "last", "status"} \subseteq DOMAIN x
        /\ x.eventCount = document[d].eventCount /\ x.status = status
    BY <1>1, <1>4 DEF CaseRecordIs, ReviewTaskTold
  <1>6. PICK e : /\ Gains(d, e, type) /\ Says(d, x)
                 /\ \A v : KindOf(v) = "caseFile" => Same(v)
    BY <1>2, <1>3, <1>4, <1>5, AppendedGains DEF Transact, Keeps
  <1>7. /\ {"eventCount", "last", "status"} \subseteq DOMAIN document'[d]
        /\ document'[d].status = status
        /\ document'[d].eventCount > 0
    BY <1>4, <1>5, <1>6 DEF Says, Gains, ChainIs
  <1>8. /\ \A t : Told(d, t)' = Told(d, t) + IF t = type THEN 1 ELSE 0
        /\ document'[document'[d].last].type = type
    BY <1>4, <1>6, ChainGains
  <1>9. /\ was \notin {"completed", "cancelled"}
        /\ status = "completed" <=> type = "review_completed"
        /\ status = "cancelled" <=> type = "task_cancelled"
    BY <1>1, <1>2 DEF ReviewTaskExpected, ReviewTaskStatus
  <1>10. /\ Told(d, "review_completed") = 0 /\ Told(d, "task_cancelled") = 0
    BY <1>1, <1>4, <1>9 DEF ReviewTaskTold
  <1>11. ReviewTaskTold(d)'
    BY <1>7, <1>8, <1>9, <1>10 DEF ReviewTaskTold
  <1>12. CaseRecordIs(d)'
    BY <1>4, <1>6, <1>7, <1>11 DEF CaseRecordIs, Gains, Grows
  <1> QED BY <1>2, <1>6, <1>12, UnfiledGains DEF Transact

LEMMA GraphAppended ==
  ASSUME Shapes, Shapes', CaseInv, NEW d \in DOMAIN document,
         KindOf(d) \in {"party", "relationship"}, NEW r, New(d, r), NEW type,
         NEW x, x.status = "inactive" <=> type = "deactivate",
         DOMAIN x = DOMAIN document[d], x.eventCount = document[d].eventCount,
         Transact(Appended(d, r, type, x))
  PROVE  CaseInv'
  <1>1. KindOf(d) \in ChainKinds
    BY DEF ChainKinds
  <1>2. /\ ChainIs(d) /\ CaseRecordIs(d) /\ GraphTold(d)
        /\ CaseFile(d[2]) \in DOMAIN document
    BY <1>1, CaseOfRecord DEF CaseRecordIs
  <1>3. /\ {"eventCount", "last", "status"} \subseteq DOMAIN x
    BY <1>2 DEF CaseRecordIs, GraphTold
  <1>4. PICK e : /\ Gains(d, e, type) /\ Says(d, x)
                 /\ \A v : KindOf(v) = "caseFile" => Same(v)
    BY <1>1, <1>2, <1>3, AppendedGains DEF Transact, Keeps
  <1>5. /\ {"eventCount", "last", "status"} \subseteq DOMAIN document'[d]
        /\ document'[d].status = x.status
        /\ document'[d].eventCount > 0
    BY <1>2, <1>3, <1>4 DEF Says, Gains, ChainIs
  <1>6. document'[document'[d].last].type = type
    BY <1>2, <1>4, ChainGains
  <1>7. GraphTold(d)'
    BY <1>5, <1>6 DEF GraphTold
  <1>8. CaseRecordIs(d)'
    BY <1>2, <1>4, <1>5, <1>7 DEF CaseRecordIs, Gains, Grows
  <1> QED BY <1>4, <1>8, UnfiledGains DEF Transact

LEMMA GraphEventAppended ==
  ASSUME Shapes, Shapes', CaseInv, NEW d \in DOMAIN document,
         KindOf(d) \in {"party", "relationship"}, NEW r,
         AppendCaseGraphEvent(d, r) \/ UpdateCasePartyProfile(d, r)
  PROVE  CaseInv'
  <1>1. CASE AppendCaseGraphEvent(d, r)
    <2>1. PICK action \in graphActions(document[d].status) :
            Transact(Appended(d, r, action,
              [document[d] EXCEPT !.status = nextStatus(@, action)]))
      BY <1>1 DEF AppendCaseGraphEvent
    <2>2. PICK was, status, x :
            /\ was = document[d].status /\ status = nextStatus(was, action)
            /\ x = [document[d] EXCEPT !.status = status]
      OBVIOUS
    <2>3. x = [document[d] EXCEPT !.status = nextStatus(@, action)]
      BY <2>2
    <2>4. Transact(Appended(d, r, action, x)) /\ New(d, r)
      BY <1>1, <2>1, <2>3 DEF AppendCaseGraphEvent
    <2>5. was # "inactive"
      BY <2>1, <2>2 DEF graphActions
    <2>6. status = "inactive" <=> action = "deactivate"
      BY <2>2, <2>5 DEF nextStatus
    <2>7. "status" \in DOMAIN document[d]
      BY CaseOfRecord DEF CaseRecordIs, GraphTold, ChainKinds
    <2>8. /\ DOMAIN x = DOMAIN document[d] /\ x.status = status
          /\ x.eventCount = document[d].eventCount
      BY <2>2, <2>7
    <2> QED BY <2>4, <2>6, <2>8, GraphAppended
  <1>2. CASE UpdateCasePartyProfile(d, r)
    <2>1. PICK type : type = "party_profile_updated"
      OBVIOUS
    <2>2. /\ Transact(Appended(d, r, type, document[d])) /\ New(d, r)
          /\ document[d].status # "inactive" /\ type # "deactivate"
      BY <1>2, <2>1 DEF UpdateCasePartyProfile
    <2>3. PICK x : x = document[d]
      OBVIOUS
    <2> QED BY <2>2, <2>3, GraphAppended
  <1> QED BY <1>1, <1>2

-----------------------------------------------------------------------------
\* Custody of the evidence.

LEMMA ChainAppended ==
  ASSUME Shapes, Shapes', CaseInv, NEW s, EvidenceRef(s) \in DOMAIN document,
         NEW r, AppendChainEvent(s, r)
  PROVE  CaseInv'
  <1>1. PICK d : d = EvidenceRef(s)
    OBVIOUS
  <1>2. PICK type \in chainActions(document[d]) :
          Transact(Appended(d, r, type, chainTransition(document[d], type)))
    BY <1>1 DEF AppendChainEvent
  <1>3. PICK old, x : old = document[d] /\ x = chainTransition(old, type)
    OBVIOUS
  <1>4. Transact(Appended(d, r, type, x)) /\ New(d, r)
    BY <1>1, <1>2, <1>3 DEF AppendChainEvent
  <1>5. KindOf(d) = "evidenceRef" /\ KindOf(d) \in ChainKinds /\ d \in DOMAIN document
    BY <1>1, CasesNames DEF ChainKinds
  <1>6. /\ ChainIs(d) /\ CaseRecordIs(d) /\ EvidenceTold(d)
        /\ CaseFile(d[2]) \in DOMAIN document
    BY <1>5, CaseOfRecord DEF CaseRecordIs
  <1>7. {"eventCount", "last", "review", "custody", "lastType"} \subseteq DOMAIN old
    BY <1>3, <1>6 DEF CaseRecordIs, EvidenceTold
  <1>8. /\ DOMAIN x = DOMAIN old /\ x.eventCount = old.eventCount
        /\ x.review = CASE type = "chain_started" -> "awaiting_review"
                        [] type = "review_started" -> "under_review"
                        [] type = "review_completed" -> "verified"
                        [] OTHER -> old.review
        /\ x.custody = CASE type \in {"chain_started", "unsealed"} -> "registered"
                         [] type = "sealed" -> "sealed"
                         [] OTHER -> old.custody
    BY <1>3, <1>7 DEF chainTransition
  <1>9. PICK e : /\ Gains(d, e, type) /\ Says(d, x)
                 /\ \A v : KindOf(v) = "caseFile" => Same(v)
    BY <1>3, <1>4, <1>5, <1>6, <1>7, <1>8, AppendedGains DEF Transact, Keeps
  <1>10. /\ {"eventCount", "last", "review", "custody", "lastType"}
              \subseteq DOMAIN document'[d]
         /\ document'[d].review = x.review /\ document'[d].custody = x.custody
    BY <1>7, <1>8, <1>9 DEF Says
  <1>11. \A t : /\ Told(d, t)' = Told(d, t) + IF t = type THEN 1 ELSE 0
                /\ Told(d, t) \in Nat
    BY <1>6, <1>9, ChainGains
  <1>12. \/ /\ type = "chain_started" /\ old.eventCount = 0
         \/ /\ type \in {"custody_received", "custody_transferred"}
         \/ /\ type = "review_started" /\ old.review = "awaiting_review"
         \/ /\ type = "review_completed" /\ old.review = "under_review"
         \/ /\ type = "unsealed" /\ old.custody = "sealed"
         \/ /\ type = "sealed" /\ old.custody # "sealed"
    BY <1>2, <1>3 DEF chainActions
  <1>13. /\ Told(d, "review_completed") = IF old.review = "verified" THEN 1 ELSE 0
         /\ Told(d, "sealed") = Told(d, "unsealed")
                                  + IF old.custody = "sealed" THEN 1 ELSE 0
    BY <1>3, <1>6 DEF EvidenceTold
  <1>14. type = "chain_started" =>
           old.review # "verified" /\ old.custody # "sealed"
    <2> HAVE type = "chain_started"
    <2>1. Count(d) = 0
      BY <1>3, <1>5, <1>12 DEF Count
    <2>2. \A t : Told(d, t) = 0
      BY <1>6, <2>1, ToldNothing
    <2> QED BY <1>13, <2>2
  <1>15. Told(d, "review_completed")' = IF x.review = "verified" THEN 1 ELSE 0
    BY <1>8, <1>11, <1>12, <1>13, <1>14
  <1>16. Told(d, "sealed")' = Told(d, "unsealed")'
                                + IF x.custody = "sealed" THEN 1 ELSE 0
    BY <1>8, <1>11, <1>12, <1>13, <1>14
  <1>17. EvidenceTold(d)'
    BY <1>10, <1>15, <1>16 DEF EvidenceTold
  <1>18. CaseRecordIs(d)'
    BY <1>5, <1>6, <1>9, <1>10, <1>17 DEF CaseRecordIs, Gains, Grows
  <1> QED BY <1>4, <1>5, <1>9, <1>18, UnfiledGains DEF Transact

-----------------------------------------------------------------------------
\* Legal holds.

HoldStands(d, s) ==
    d \in DOMAIN document /\ d[2] = s /\ document[d].status = "active"

LEMMA HoldsBut ==
  ASSUME Shapes, Shapes', NEW d, KindOf(d) = "hold",
         \A v : KindOf(v) = "hold" /\ v # d => Same(v), NEW s
  PROVE  /\ ActiveHolds(s)' = IF HoldStands(d, s)' THEN ActiveHolds(s) \cup {d}
                                                   ELSE ActiveHolds(s) \ {d}
         /\ d \in ActiveHolds(s) <=> HoldStands(d, s)
  <1>1. /\ ActiveHolds(s) = {v \in DOMAIN document :
                               /\ KindOf(v) = "hold" /\ v[2] = s
                               /\ document[v].status = "active"}
        /\ ActiveHolds(s)' = {v \in DOMAIN document' :
                                /\ KindOf(v) = "hold" /\ v[2] = s
                                /\ document'[v].status = "active"}
    BY DEF ActiveHolds, RecordsOf, Kind, Shapes, KindOf
  <1>2. \A v : KindOf(v) = "hold" /\ v # d =>
          /\ v \in DOMAIN document' <=> v \in DOMAIN document
          /\ v \in DOMAIN document => document'[v] = document[v]
    BY DEF Same
  <1> QED BY <1>1, <1>2 DEF HoldStands

LEMMA FileHeld ==
  ASSUME NEW s, FileIs(s), CaseStays, NEW n \in Nat,
         document'[CaseFile(s)] =
           [document[CaseFile(s)] EXCEPT !.activeHolds = n, !.held = n > 0],
         IsFiniteSet(ActiveHolds(s)'), Cardinality(ActiveHolds(s)') = n,
         Same(RetentionRecord(s))
  PROVE  FileIs(s)'
  <1>1. PICK x, y : x = document[CaseFile(s)] /\ y = document'[CaseFile(s)]
    OBVIOUS
  <1>2. /\ DOMAIN y = {"status", "activeHolds", "held", "retention"}
        /\ y.activeHolds = n /\ (y.held <=> n > 0)
        /\ y.retention = x.retention /\ y.status = x.status
    BY <1>1 DEF FileIs
  <1>3. n > 0 <=> ActiveHolds(s)' # {}
    BY FS_EmptySet
  <1>4. /\ RetentionRecord(s) \in DOMAIN document' <=>
             RetentionRecord(s) \in DOMAIN document
        /\ RetentionRecord(s) \in DOMAIN document =>
             document'[RetentionRecord(s)] = document[RetentionRecord(s)]
        /\ EvidenceRef(s) \in DOMAIN document'
    BY CasesNames DEF Same, CaseStays, FileIs
  <1> QED BY <1>1, <1>2, <1>3, <1>4 DEF FileIs

\* The other cases, when a hold or the retention of one changes.
LEMMA OtherFiles ==
  ASSUME Shapes, Shapes', CaseInv, NEW d, NEW e, NEW type, Gains(d, e, type),
         KindOf(d) \in {"hold", "retention"},
         \A v : KindOf(v) = "caseFile" /\ v # CaseFile(d[2]) => Same(v),
         NEW s, s # d[2], CaseFile(s) \in DOMAIN document,
         ActiveHolds(s)' = ActiveHolds(s)
  PROVE  FileIs(s)'
  <1>1. CaseFile(s) # CaseFile(d[2]) /\ Same(CaseFile(s))
    BY CasesNames DEF CaseFile
  <1>2. RetentionRecord(s) # d
    BY DEF RetentionRecord
  <1>3. Same(RetentionRecord(s))
    BY <1>2, CasesNames, ChainKindIs DEF Gains, ChainKinds
  <1>4. FileIs(s)
    BY FileOf
  <1> QED BY <1>1, <1>3, <1>4, FileLeft DEF Gains, Grows, CaseStays

\* The holds of a case, after one is started or released.
LEMMA HoldGains ==
  ASSUME Shapes, Shapes', CaseInv, NEW d, NEW e, NEW type, Gains(d, e, type),
         KindOf(d) = "hold", CaseFile(d[2]) \in DOMAIN document, CaseRecordIs(d)',
         \A v : KindOf(v) = "caseFile" /\ v # CaseFile(d[2]) => Same(v),
         CaseFile(d[2]) \in DOMAIN document', NEW n \in Nat,
         document'[CaseFile(d[2])] =
           [document[CaseFile(d[2])] EXCEPT !.activeHolds = n, !.held = n > 0],
         IsFiniteSet(ActiveHolds(d[2])'), Cardinality(ActiveHolds(d[2])') = n,
         UNCHANGED call
  PROVE  CaseInv'
  <1>1. \A v : KindOf(v) = "hold" /\ v # d => Same(v)
    BY ChainKindIs DEF Gains, ChainKinds
  <1>2. CaseStays
    BY DEF Gains, Grows, CaseStays
  <1>3. ASSUME NEW s, CaseFile(s) \in DOMAIN document
        PROVE  FileIs(s)'
    <2>1. CASE s = d[2]
      <3>1. RetentionRecord(s) # d /\ Same(RetentionRecord(s))
        BY CasesNames, ChainKindIs DEF Gains, ChainKinds
      <3> QED BY <1>2, <1>3, <2>1, <3>1, FileOf, FileHeld
    <2>2. CASE s # d[2]
      <3>1. ~HoldStands(d, s)' /\ ~HoldStands(d, s)
        BY <2>2 DEF HoldStands
      <3>2. ActiveHolds(s)' = ActiveHolds(s)
        BY <1>1, <3>1, HoldsBut
      <3> QED BY <1>3, <2>2, <3>2, OtherFiles
    <2> QED BY <2>1, <2>2
  <1>4. \A v : KindOf(v) = "caseFile" =>
                 (v \in DOMAIN document' <=> v \in DOMAIN document)
    BY DEF Same
  <1> QED BY <1>3, <1>4, GainsKeep

LEMMA HoldStarted ==
  ASSUME Shapes, Shapes', CaseInv, NEW s, NEW i, CaseFile(s) \in DOMAIN document,
         StartLegalHold(s, i)
  PROVE  CaseInv'
  <1>1. PICK type, d, x, n, file, t :
          /\ type = "legal_hold_started"
          /\ d = LegalHold(s, i) /\ x = [status |-> "active"]
          /\ n = document[CaseFile(s)].activeHolds + 1 /\ file = CaseFile(s)
          /\ t = [document[CaseFile(s)] EXCEPT !.activeHolds = n, !.held = n > 0]
    OBVIOUS
  <1>2. /\ d \notin DOMAIN document /\ KindOf(d) = "hold" /\ d[2] = s
        /\ KindOf(file) = "caseFile"
    BY <1>1, CasesNames DEF StartLegalHold, Exists, LegalHold
  <1>3. /\ document' = Opened(d, type, x) @@ file :> t @@ document
        /\ UNCHANGED call
    BY <1>1 DEF StartLegalHold, Transact, Held
  <1>4. KindOf(d) \in ChainKinds /\ ChainIs(d)
    BY <1>2 DEF ChainKinds, CaseInv, ChainsAre
  <1>5. /\ "eventCount" \notin DOMAIN x /\ "last" \notin DOMAIN x
        /\ "status" \in DOMAIN x /\ x.status = "active"
    BY <1>1
  <1>6. PICK e : /\ Gains(d, e, type)
                 /\ document'[d] = x @@ [eventCount |-> 1, last |-> e]
                 /\ file \in DOMAIN document' /\ document'[file] = t
                 /\ \A v : KindOf(v) = "caseFile" /\ v # file => Same(v)
    BY <1>2, <1>3, <1>4, <1>5, OpenedGainsOfCase
  <1>7. /\ {"status", "eventCount", "last"} \subseteq DOMAIN document'[d]
        /\ document'[d].eventCount = 1 /\ document'[d].status = "active"
    BY <1>5, <1>6 DEF @@
  <1>8. CaseRecordIs(d)'
    BY <1>1, <1>2, <1>6, <1>7 DEF CaseRecordIs, HoldTold
  <1>9. FileIs(s)
    BY FileOf
  <1>10. /\ HoldStands(d, s)' /\ ~HoldStands(d, s)
    BY <1>2, <1>6, <1>7 DEF HoldStands, Gains
  <1>11. \A v : KindOf(v) = "hold" /\ v # d => Same(v)
    BY <1>6, ChainKindIs DEF Gains, ChainKinds
  <1>12. /\ ActiveHolds(s)' = ActiveHolds(s) \cup {d}
         /\ d \notin ActiveHolds(s)
    BY <1>2, <1>10, <1>11, HoldsBut
  <1>13. /\ IsFiniteSet(ActiveHolds(s)) /\ Cardinality(ActiveHolds(s)) \in Nat
         /\ n = Cardinality(ActiveHolds(s)) + 1
    BY <1>1, <1>9, FS_CardinalityType DEF FileIs
  <1>14. IsFiniteSet(ActiveHolds(s)') /\ Cardinality(ActiveHolds(s)') = n /\ n \in Nat
    BY <1>12, <1>13, FS_AddElement
  <1>15. CaseFile(d[2]) \in DOMAIN document /\ CaseFile(d[2]) = file
    BY <1>1, <1>2
  <1>16. /\ \A v : KindOf(v) = "caseFile" /\ v # CaseFile(d[2]) => Same(v)
         /\ CaseFile(d[2]) \in DOMAIN document'
         /\ document'[CaseFile(d[2])] =
              [document[CaseFile(d[2])] EXCEPT !.activeHolds = n, !.held = n > 0]
    BY <1>1, <1>2, <1>6, <1>15
  <1>17. IsFiniteSet(ActiveHolds(d[2])') /\ Cardinality(ActiveHolds(d[2])') = n
    BY <1>2, <1>14
  <1> QED BY <1>2, <1>3, <1>6, <1>8, <1>14, <1>15, <1>16, <1>17, HoldGains

LEMMA HoldReleased ==
  ASSUME Shapes, Shapes', CaseInv, NEW d \in DOMAIN document, KindOf(d) = "hold",
         NEW r, ReleaseLegalHold(d, r)
  PROVE  CaseInv'
  <1>1. PICK s, x, count, n, file, t :
          /\ s = d[2] /\ x = [document[d] EXCEPT !.status = "released"]
          /\ count = document[CaseFile(s)].activeHolds /\ file = CaseFile(s)
          /\ n = IF count = 0 THEN 0 ELSE count - 1
          /\ t = [document[CaseFile(s)] EXCEPT !.activeHolds = n, !.held = n > 0]
    OBVIOUS
  <1>2. KindOf(d) \in ChainKinds /\ KindOf(file) = "caseFile"
    BY <1>1, CasesNames DEF ChainKinds
  <1>3. /\ document' = Appended(d, r, "legal_hold_released", x) @@ file :> t @@ document
        /\ UNCHANGED call /\ New(d, r) /\ document[d].status = "active"
    BY <1>1 DEF ReleaseLegalHold, Transact, Held, Releasable
  <1>4. /\ ChainIs(d) /\ CaseRecordIs(d) /\ HoldTold(d)
        /\ CaseFile(s) \in DOMAIN document /\ FileIs(s)
    BY <1>1, <1>2, CaseOfRecord DEF CaseRecordIs
  <1>5. /\ {"eventCount", "last", "status"} \subseteq DOMAIN x
        /\ x.eventCount = document[d].eventCount /\ x.status = "released"
        /\ document[d].eventCount = 1
    BY <1>1, <1>3, <1>4 DEF CaseRecordIs, HoldTold
  <1>6. Keeps(d, x)
    BY <1>5 DEF Keeps
  <1>7. PICK e : /\ Gains(d, e, "legal_hold_released") /\ Says(d, x)
                 /\ file \in DOMAIN document' /\ document'[file] = t
                 /\ \A v : KindOf(v) = "caseFile" /\ v # file => Same(v)
    BY <1>2, <1>3, <1>4, <1>6, AppendedGainsOfCase
  <1>8. /\ {"eventCount", "last", "status"} \subseteq DOMAIN document'[d]
        /\ document'[d].status = "released" /\ document'[d].eventCount = 2
    BY <1>5, <1>7 DEF Says, Gains, Count
  <1>9. CaseRecordIs(d)'
    BY <1>1, <1>7, <1>8 DEF CaseRecordIs, HoldTold
  <1>10. /\ ~HoldStands(d, s)' /\ HoldStands(d, s)
    BY <1>1, <1>3, <1>8 DEF HoldStands
  <1>11. \A v : KindOf(v) = "hold" /\ v # d => Same(v)
    BY <1>7, ChainKindIs DEF Gains, ChainKinds
  <1>12. /\ ActiveHolds(s)' = ActiveHolds(s) \ {d}
         /\ d \in ActiveHolds(s)
    BY <1>10, <1>11, HoldsBut
  <1>13. /\ IsFiniteSet(ActiveHolds(s)) /\ Cardinality(ActiveHolds(s)) \in Nat
         /\ count = Cardinality(ActiveHolds(s))
    BY <1>1, <1>4, FS_CardinalityType DEF FileIs
  <1>14. /\ IsFiniteSet(ActiveHolds(s) \ {d})
         /\ Cardinality(ActiveHolds(s) \ {d}) = count - 1
         /\ Cardinality(ActiveHolds(s) \ {d}) \in Nat
    BY <1>12, <1>13, FS_RemoveElement, FS_CardinalityType
  <1>15. count # 0 /\ n = count - 1 /\ n \in Nat
    BY <1>1, <1>13, <1>14
  <1>16. IsFiniteSet(ActiveHolds(s)') /\ Cardinality(ActiveHolds(s)') = n
    BY <1>12, <1>14, <1>15
  <1> QED BY <1>1, <1>3, <1>4, <1>7, <1>9, <1>15, <1>16, HoldGains

-----------------------------------------------------------------------------
\* Retention.

LEMMA RetentionGains ==
  ASSUME Shapes, Shapes', CaseInv, NEW d, NEW e, NEW type, Gains(d, e, type),
         KindOf(d) = "retention", d = RetentionRecord(d[2]),
         CaseFile(d[2]) \in DOMAIN document, CaseRecordIs(d)', NEW retained,
         document'[d].disposition = retained.disposition,
         document'[d].policyVersion = retained.policyVersion,
         retained.disposition = "eligible_for_disposition" =>
           document[CaseFile(d[2])].status = "closed",
         \A v : KindOf(v) = "caseFile" /\ v # CaseFile(d[2]) => Same(v),
         CaseFile(d[2]) \in DOMAIN document',
         document'[CaseFile(d[2])] =
           [document[CaseFile(d[2])] EXCEPT !.retention = retained],
         UNCHANGED call
  PROVE  CaseInv'
  <1>1. \A v : KindOf(v) = "hold" => Same(v)
    BY DEF Gains, ChainKinds
  <1>2. \A s : ActiveHolds(s)' = ActiveHolds(s)
    BY <1>1, HoldsLeft
  <1>3. ASSUME NEW s, CaseFile(s) \in DOMAIN document
        PROVE  FileIs(s)'
    <2>1. CASE s = d[2]
      <3>1. FileIs(s)
        BY <1>3, FileOf
      <3>2. PICK x, y : x = document[CaseFile(s)] /\ y = document'[CaseFile(s)]
        OBVIOUS
      <3>3. /\ DOMAIN y = {"status", "activeHolds", "held", "retention"}
            /\ y.activeHolds = x.activeHolds /\ y.held = x.held
            /\ y.status = x.status /\ y.retention = retained
        BY <2>1, <3>1, <3>2 DEF FileIs
      <3>4. EvidenceRef(s) \in DOMAIN document'
        BY <3>1 DEF FileIs, Gains, Grows
      <3>5. /\ retained.disposition = document'[RetentionRecord(s)].disposition
            /\ retained.policyVersion = document'[RetentionRecord(s)].policyVersion
            /\ retained.disposition = "eligible_for_disposition" =>
                 x.status = "closed"
        BY <2>1, <3>2
      <3> QED BY <1>2, <3>1, <3>2, <3>3, <3>4, <3>5 DEF FileIs
    <2>2. CASE s # d[2]
      BY <1>2, <1>3, <2>2, OtherFiles
    <2> QED BY <2>1, <2>2
  <1>4. \A v : KindOf(v) = "caseFile" =>
                 (v \in DOMAIN document' <=> v \in DOMAIN document)
    BY DEF Same
  <1> QED BY <1>3, <1>4, GainsKeep

LEMMA RetentionAppended ==
  ASSUME Shapes, Shapes', CaseInv, NEW d \in DOMAIN document,
         KindOf(d) = "retention", NEW r, New(d, r), NEW type, NEW version, NEW over,
         Transact(Appended(d, r, type, Retained(d[2], version, over) @@ document[d])
                  @@ Projected(d[2], Retained(d[2], version, over)))
  PROVE  CaseInv'
  <1>1. PICK s, retained, x, file, t :
          /\ s = d[2] /\ retained = Retained(s, version, over)
          /\ x = retained @@ document[d] /\ file = CaseFile(s)
          /\ t = [document[CaseFile(s)] EXCEPT !.retention = retained]
    OBVIOUS
  <1>2. KindOf(d) \in ChainKinds /\ KindOf(file) = "caseFile"
    BY <1>1, CasesNames DEF ChainKinds
  <1>3. /\ document' = Appended(d, r, type, x) @@ file :> t @@ document
        /\ UNCHANGED call
    BY <1>1 DEF Transact, Projected
  <1>4. /\ ChainIs(d) /\ CaseRecordIs(d) /\ RetentionTold(d)
        /\ CaseFile(s) \in DOMAIN document
    BY <1>1, <1>2, CaseOfRecord DEF CaseRecordIs
  <1>5. /\ DOMAIN retained = {"policyVersion", "disposition"}
        /\ retained.disposition = "eligible_for_disposition" =>
             document[CaseFile(s)].status = "closed"
    BY <1>1 DEF Retained, dispositionOf
  <1>6. /\ {"eventCount", "last", "policyVersion", "disposition"} \subseteq DOMAIN x
        /\ x.eventCount = document[d].eventCount
        /\ x.disposition = retained.disposition
        /\ x.policyVersion = retained.policyVersion
    BY <1>1, <1>4, <1>5 DEF CaseRecordIs, @@
  <1>7. Keeps(d, x)
    BY <1>6 DEF Keeps
  <1>8. PICK e : /\ Gains(d, e, type) /\ Says(d, x)
                 /\ file \in DOMAIN document' /\ document'[file] = t
                 /\ \A v : KindOf(v) = "caseFile" /\ v # file => Same(v)
    BY <1>2, <1>3, <1>4, <1>7, AppendedGainsOfCase
  <1>9. /\ {"eventCount", "last", "policyVersion", "disposition"}
             \subseteq DOMAIN document'[d]
        /\ document'[d].disposition = retained.disposition
        /\ document'[d].policyVersion = retained.policyVersion
    BY <1>6, <1>8 DEF Says
  <1>10. CaseRecordIs(d)' /\ d = RetentionRecord(s)
    BY <1>1, <1>4, <1>8, <1>9 DEF CaseRecordIs, RetentionTold
  <1>11. /\ CaseFile(d[2]) \in DOMAIN document /\ CaseFile(d[2]) \in DOMAIN document'
         /\ document'[CaseFile(d[2])] =
              [document[CaseFile(d[2])] EXCEPT !.retention = retained]
         /\ \A v : KindOf(v) = "caseFile" /\ v # CaseFile(d[2]) => Same(v)
    BY <1>1, <1>4, <1>8
  <1>12. /\ retained.disposition = "eligible_for_disposition" =>
              document[CaseFile(d[2])].status = "closed"
         /\ d = RetentionRecord(d[2]) /\ Gains(d, e, type) /\ UNCHANGED call
    BY <1>1, <1>3, <1>5, <1>8, <1>10
  <1> QED BY <1>9, <1>10, <1>11, <1>12, RetentionGains

LEMMA RetentionSet ==
  ASSUME Shapes, Shapes', CaseInv, NEW s, CaseFile(s) \in DOMAIN document,
         NEW over, SetRetentionPolicy(s, over)
  PROVE  CaseInv'
  <1>1. PICK d : d = RetentionRecord(s)
    OBVIOUS
  <1>2. KindOf(d) = "retention" /\ KindOf(d) \in ChainKinds /\ d[2] = s
    BY <1>1, CasesNames DEF ChainKinds, RetentionRecord
  <1>3. CASE d \in DOMAIN document
    <2>1. PICK r, type, version :
            /\ New(d, r) /\ type = "retention_policy_updated"
            /\ Transact(Appended(d, r, type, Retained(s, version, over) @@ document[d])
                        @@ Projected(s, Retained(s, version, over)))
      BY <1>1, <1>3, Zenon DEF SetRetentionPolicy, Exists
    <2> QED BY <1>2, <1>3, <2>1, RetentionAppended
  <1>4. CASE d \notin DOMAIN document
    <2>1. PICK type, retained, file, t :
            /\ type = "retention_policy_set" /\ file = CaseFile(s)
            /\ retained = Retained(s, 1, over)
            /\ t = [document[CaseFile(s)] EXCEPT !.retention = retained]
      OBVIOUS
    <2>2. /\ document' = Opened(d, type, retained) @@ file :> t @@ document
          /\ call' = call
      BY <1>1, <1>4, <2>1 DEF SetRetentionPolicy, Exists, Transact, Projected
    <2>3. /\ DOMAIN retained = {"policyVersion", "disposition"}
          /\ retained.disposition = "eligible_for_disposition" =>
               document[CaseFile(s)].status = "closed"
      BY <2>1 DEF Retained, dispositionOf
    <2>4. /\ "eventCount" \notin DOMAIN retained /\ "last" \notin DOMAIN retained
          /\ ChainIs(d) /\ KindOf(d) \in ChainKinds
          /\ KindOf(file) = "caseFile"
      BY <1>2, <2>1, <2>3, CasesNames DEF CaseInv, ChainsAre
    <2>5. PICK e : /\ Gains(d, e, type)
                   /\ document'[d] = retained @@ [eventCount |-> 1, last |-> e]
                   /\ file \in DOMAIN document' /\ document'[file] = t
                   /\ \A v : KindOf(v) = "caseFile" /\ v # file => Same(v)
      BY <1>4, <2>2, <2>4, OpenedGainsOfCase
    <2>6. /\ {"eventCount", "last", "policyVersion", "disposition"}
               \subseteq DOMAIN document'[d]
          /\ document'[d].disposition = retained.disposition
          /\ document'[d].policyVersion = retained.policyVersion
      BY <2>3, <2>5 DEF @@
    <2>7. CaseRecordIs(d)'
      BY <1>1, <1>2, <2>1, <2>5, <2>6 DEF CaseRecordIs, RetentionTold
    <2> QED BY <1>1, <1>2, <2>1, <2>2, <2>3, <2>5, <2>6, <2>7, RetentionGains
  <1> QED BY <1>3, <1>4

LEMMA DispositionAssessed ==
  ASSUME Shapes, Shapes', CaseInv, NEW d \in DOMAIN document,
         KindOf(d) = "retention", NEW r, NEW over, AssessDisposition(d, r, over)
  PROVE  CaseInv'
  <1>1. PICK type, version :
          /\ New(d, r) /\ type = "retention_disposition_assessed"
          /\ Transact(Appended(d, r, type, Retained(d[2], version, over) @@ document[d])
                      @@ Projected(d[2], Retained(d[2], version, over)))
    BY Zenon DEF AssessDisposition
  <1> QED BY <1>1, RetentionAppended

-----------------------------------------------------------------------------
\* Opening, closing and export.

\* Steps that write no record and no event.
LEMMA RecordsStay ==
  ASSUME Shapes, Shapes', CaseInv, CaseStays,
         \A v : KindOf(v) \in ChainKinds \cup {"recordEvent"} => Same(v)
  PROVE  /\ ChainsAre'
         /\ \A v \in DOMAIN document' : KindOf(v) \in ChainKinds => CaseRecordIs(v)'
         /\ \A s : ActiveHolds(s)' = ActiveHolds(s)
  <1>1. ASSUME NEW v, KindOf(v) \in ChainKinds
        PROVE  ChainSame(v) /\ Same(v) /\ ChainIs(v)
    BY <1>1 DEF ChainSame, Same, CaseInv, ChainsAre
  <1>2. ASSUME NEW v, KindOf(v) \in ChainKinds
        PROVE  ChainIs(v)'
    BY <1>1, <1>2, ChainLeft
  <1>3. ASSUME NEW v \in DOMAIN document', KindOf(v) \in ChainKinds
        PROVE  CaseRecordIs(v)'
    <2>1. v \in DOMAIN document /\ CaseRecordIs(v)
      BY <1>1, <1>3 DEF Same, CaseInv
    <2> QED BY <1>1, <1>3, <2>1, RecordLeft
  <1>4. \A v : KindOf(v) = "hold" => Same(v)
    BY DEF ChainKinds
  <1> QED BY <1>2, <1>3, <1>4, HoldsLeft DEF ChainsAre

\* Of the case files and the packages, and of calls.
LEMMA CaseRest ==
  ASSUME Shapes, Shapes', CaseInv, CaseStays,
         \A v : KindOf(v) \in ChainKinds \cup {"recordEvent"} => Same(v),
         \A v : KindOf(v) = "caseFile" =>
                  (v \in DOMAIN document' <=> v \in DOMAIN document),
         \A s : CaseFile(s) \in DOMAIN document => Same(CaseFile(s)) \/ FileIs(s)',
         \A v \in DOMAIN document' : KindOf(v) = "package" =>
           Same(v) \/ Whole(document'[v].manifest, v[2]),
         \A c \in Calls : call'[c].pc = "export" =>
           CaseFile(call'[c].source) \in DOMAIN document'
  PROVE  CaseInv'
  <1>1. /\ ChainsAre'
        /\ \A v \in DOMAIN document' : KindOf(v) \in ChainKinds => CaseRecordIs(v)'
        /\ \A s : ActiveHolds(s)' = ActiveHolds(s)
    BY RecordsStay
  <1>2. ASSUME NEW v \in Kind("caseFile")'
        PROVE  v = CaseFile(v[2]) /\ FileIs(v[2])'
    <2>1. KindOf(v) = "caseFile" /\ v[1] = "caseFile" /\ v \in DOMAIN document'
      BY <1>2 DEF Kind, Shapes, KindOf
    <2>2. v \in Kind("caseFile")
      BY <2>1 DEF Kind
    <2>3. v = CaseFile(v[2]) /\ CaseFile(v[2]) \in DOMAIN document /\ FileIs(v[2])
      BY <2>2 DEF CaseInv, Kind
    <2>4. Same(RetentionRecord(v[2]))
      BY CasesNames DEF ChainKinds
    <2> QED BY <1>1, <2>3, <2>4, FileLeft
  <1>3. ASSUME NEW p \in Kind("package")'
        PROVE  Whole(document'[p].manifest, p[2])
    <2>1. KindOf(p) = "package" /\ p \in DOMAIN document' /\ p[1] = "package"
      BY <1>3 DEF Kind, Shapes, KindOf
    <2>2. CASE Same(p)
      <3>1. p \in Kind("package") /\ document'[p] = document[p]
        BY <2>1, <2>2 DEF Same, Kind
      <3> QED BY <3>1 DEF CaseInv
    <2> QED BY <2>1, <2>2
  <1> QED BY <1>1, <1>2, <1>3 DEF CaseInv

LEMMA CaseClosed ==
  ASSUME Shapes, Shapes', CaseInv, NEW s, CloseCase(s)
  PROVE  CaseInv'
  <1>1. PICK file, t : /\ file = CaseFile(s)
                       /\ t = [document[file] EXCEPT !.status = "closed"]
    OBVIOUS
  <1>2. /\ Transact(file :> t) /\ file \in DOMAIN document
        /\ KindOf(file) = "caseFile" /\ document[file].status = "open"
    BY <1>1, CasesNames DEF CloseCase, CaseOpen, Exists
  <1>3. /\ file \in DOMAIN document' /\ document'[file] = t
        /\ \A v : v # file => Same(v)
        /\ UNCHANGED call
    BY <1>2, Write1 DEF Transact
  <1>4. CaseStays /\ DOMAIN document \subseteq DOMAIN document'
    BY <1>2, OverGrows DEF Transact, CaseStays, Grows
  <1>5. \A v : KindOf(v) \in ChainKinds \cup {"recordEvent", "package"} => Same(v)
    BY <1>2, <1>3, ChainKindIs
  <1>6. FileIs(s)'
    <2>1. FileIs(s)
      BY <1>1, <1>2, FileOf
    <2>2. ActiveHolds(s)' = ActiveHolds(s) /\ Same(RetentionRecord(s))
      BY <1>5, HoldsLeft, CasesNames DEF ChainKinds
    <2>3. PICK x : x = document[file]
      OBVIOUS
    <2>4. /\ DOMAIN t = {"status", "activeHolds", "held", "retention"}
          /\ t.activeHolds = x.activeHolds /\ t.held = x.held
          /\ t.retention = x.retention /\ t.status = "closed"
      BY <1>1, <2>1, <2>3 DEF FileIs
    <2>5. EvidenceRef(s) \in DOMAIN document'
      BY <1>4, <2>1 DEF FileIs
    <2> QED BY <1>1, <1>3, <2>1, <2>2, <2>3, <2>4, <2>5 DEF FileIs, Same
  <1>7. \A u : CaseFile(u) \in DOMAIN document => Same(CaseFile(u)) \/ FileIs(u)'
    BY <1>1, <1>3, <1>6 DEF CaseFile
  <1>8. \A v : KindOf(v) = "caseFile" =>
                 (v \in DOMAIN document' <=> v \in DOMAIN document)
    BY <1>2, <1>3 DEF Same
  <1>9. \A c \in Calls : call'[c].pc = "export" =>
          CaseFile(call'[c].source) \in DOMAIN document'
    BY <1>3, <1>4 DEF CaseInv
  <1> QED BY <1>4, <1>5, <1>7, <1>8, <1>9, CaseRest

LEMMA CaseRead ==
  ASSUME Shapes, Shapes', CaseInv, NEW c \in Calls, NEW next, Read(c, next),
         next.pc = "export" => CaseFile(next.source) \in DOMAIN document
  PROVE  CaseInv'
  <1>1. (\A d : Same(d)) /\ Moved(c, next)
    BY ReadIs DEF Shapes
  <1>2. CaseStays
    BY <1>1 DEF CaseStays, Same
  <1>3. \A b \in Calls : call'[b].pc = "export" =>
          CaseFile(call'[b].source) \in DOMAIN document'
    BY <1>1 DEF CaseInv, Moved, Same
  <1>4. \A v : v \in DOMAIN document' <=> v \in DOMAIN document
    BY <1>1 DEF Same
  <1> QED BY <1>1, <1>2, <1>3, <1>4, CaseRest

LEMMA CaseFileCreated ==
  ASSUME Shapes, Shapes', CaseInv, NEW c \in Calls, CreateCase(c)
  PROVE  CaseInv'
  <1>1. PICK s, file, d, g, x, y, z :
          /\ s = call[c].source /\ file = CaseFile(s) /\ d = EvidenceRef(s)
          /\ g = CaseEvent(s, file)
          /\ x = [status |-> "open", activeHolds |-> 0, held |-> FALSE,
                  retention |-> <<>>]
          /\ y = [review |-> "awaiting_review", custody |-> "not_started",
                  eventCount |-> 0, last |-> <<>>, lastType |-> "",
                  version |-> call[c].version]
          /\ z = [type |-> "case_opened_from_risk"]
    OBVIOUS
  <1>2. /\ file \notin DOMAIN document
        /\ Commit(c, file :> x @@ d :> y @@ g :> z)
    BY <1>1, Zenon DEF CreateCase, Exists
  <1>3. /\ document' = file :> x @@ d :> y @@ g :> z @@ document
        /\ Moved(c, Idle)
    BY <1>2, CommitIs DEF Shapes
  <1>4. /\ KindOf(file) = "caseFile" /\ KindOf(d) = "evidenceRef"
        /\ KindOf(g) = "caseEvent" /\ file # d /\ file # g /\ d # g
        /\ d[2] = s /\ KindOf(d) \in ChainKinds
    BY <1>1, CasesNames DEF EvidenceRef, ChainKinds
  <1>5. /\ file \in DOMAIN document' /\ document'[file] = x
        /\ d \in DOMAIN document' /\ document'[d] = y
        /\ \A v : v # file /\ v # d /\ v # g => Same(v)
    BY <1>3, <1>4, Write3
  <1>6. CaseStays /\ DOMAIN document \subseteq DOMAIN document'
    BY <1>3, OverGrows DEF CaseStays, Grows
  \* Of a case that there is not, there are no records.
  <1>7. ASSUME NEW v \in DOMAIN document, KindOf(v) \in ChainKinds
        PROVE  v[2] # s
    BY <1>1, <1>2, <1>7, CaseOfRecord
  <1>8. d \notin DOMAIN document
    BY <1>4, <1>7
  <1>9. \A e : KindOf(e) = "recordEvent" => Same(e)
    BY <1>4, <1>5
  <1>10. EventsOf(document', d) = {}
    <2>1. PICK events : events = EventsOf(document, d)
      OBVIOUS
    <2>2. ChainIs(d) /\ Count(d) = 0
      BY <1>4, <1>8 DEF CaseInv, ChainsAre, Count
    <2>3. IsFiniteSet(events) /\ Cardinality(events) = 0
      BY <2>1, <2>2 DEF ChainIs
    <2>4. events = {}
      BY <2>3, FS_EmptySet
    <2> QED BY <1>9, <2>1, <2>4, ChainEvents, ChainEventsAfter DEF Same
  <1>11. /\ {"review", "custody", "eventCount", "last", "lastType"} \subseteq DOMAIN y
         /\ y.eventCount = 0 /\ y.review = "awaiting_review"
         /\ y.custody = "not_started"
    BY <1>1
  <1>12. ChainIs(d)'
    <2>1. Count(d)' = 0
      BY <1>5, <1>11 DEF Count
    <2>2. IsFiniteSet({}) /\ Cardinality({}) = 0
      BY FS_EmptySet
    <2> QED BY <1>10, <2>1, <2>2 DEF ChainIs
  <1>13. \A type : Told(d, type)' = 0
    <2> TAKE type
    <2>1. {e \in EventsOf(document', d) : document'[e].type = type} = {}
      BY <1>10
    <2> QED BY <2>1, FS_EmptySet DEF Told, Happened
  <1>14. CaseRecordIs(d)'
    <2>1. EvidenceTold(d)'
      BY <1>5, <1>11, <1>13 DEF EvidenceTold
    <2> QED BY <1>1, <1>4, <1>5, <1>11, <2>1 DEF CaseRecordIs
  <1>15. ASSUME NEW v, KindOf(v) \in ChainKinds, v # d
         PROVE  ChainSame(v) /\ Same(v) /\ ChainIs(v)
    BY <1>4, <1>5, <1>9, <1>15, ChainKindIs
    DEF ChainSame, Same, CaseInv, ChainsAre
  <1>16. ChainsAre'
    BY <1>6, <1>12, <1>15, ChainLeft DEF ChainsAre
  <1>17. ASSUME NEW v \in DOMAIN document', KindOf(v) \in ChainKinds
         PROVE  CaseRecordIs(v)'
    <2>1. CASE v = d
      BY <1>14, <2>1
    <2>2. CASE v # d
      <3>1. v \in DOMAIN document /\ CaseRecordIs(v)
        BY <1>15, <1>17, <2>2 DEF Same, CaseInv
      <3> QED BY <1>6, <1>15, <1>17, <2>2, <3>1, RecordLeft
    <2> QED BY <2>1, <2>2
  <1>18. \A u : ActiveHolds(u)' = ActiveHolds(u)
    BY <1>4, <1>5, HoldsLeft
  <1>19. FileIs(s)'
    <2>1. ActiveHolds(s) = {}
      BY <1>7, KindIs DEF ActiveHolds, RecordsOf, Kind, ChainKinds
    <2>2. RetentionRecord(s) \notin DOMAIN document'
      <3>1. KindOf(RetentionRecord(s)) = "retention" /\ RetentionRecord(s)[2] = s
        BY CasesNames DEF RetentionRecord
      <3>2. RetentionRecord(s) \notin DOMAIN document
        BY <1>7, <3>1 DEF ChainKinds
      <3> QED BY <1>4, <1>5, <3>1, <3>2 DEF Same
    <2>3. /\ DOMAIN x = {"status", "activeHolds", "held", "retention"}
          /\ x.activeHolds = 0 /\ ~x.held
      BY <1>1
    <2>4. IsFiniteSet({}) /\ Cardinality({}) = 0
      BY FS_EmptySet
    <2> QED BY <1>1, <1>5, <1>18, <2>1, <2>2, <2>3, <2>4 DEF FileIs
  <1>20. ASSUME NEW v \in Kind("caseFile")'
         PROVE  v = CaseFile(v[2]) /\ FileIs(v[2])'
    <2>1. KindOf(v) = "caseFile" /\ v[1] = "caseFile" /\ v \in DOMAIN document'
      BY <1>20 DEF Kind, Shapes, KindOf
    <2>2. CASE v = file
      BY <1>1, <1>19, <2>2 DEF CaseFile
    <2>3. CASE v # file
      <3>1. Same(v) /\ v \in Kind("caseFile")
        BY <1>4, <1>5, <2>1, <2>3 DEF Same, Kind
      <3>2. v = CaseFile(v[2]) /\ CaseFile(v[2]) \in DOMAIN document /\ FileIs(v[2])
        BY <3>1 DEF CaseInv, Kind
      <3>3. Same(RetentionRecord(v[2]))
        BY <1>4, <1>5, CasesNames
      <3> QED BY <1>6, <1>18, <3>1, <3>2, <3>3, FileLeft
    <2> QED BY <2>2, <2>3
  <1>21. ASSUME NEW p \in Kind("package")'
         PROVE  Whole(document'[p].manifest, p[2])
    <2>1. \A v : KindOf(v) = "package" => Same(v)
      BY <1>4, <1>5
    <2>2. p \in Kind("package") /\ document'[p] = document[p]
      BY <1>21, <2>1, KindKept
    <2> QED BY <2>2 DEF CaseInv
  <1>22. \A b \in Calls : call'[b].pc = "export" =>
           CaseFile(call'[b].source) \in DOMAIN document'
    BY <1>3, <1>6 DEF CaseInv, Moved, Idle
  <1> QED BY <1>16, <1>17, <1>20, <1>21, <1>22 DEF CaseInv

\* What one transaction reads of a case is whole.
LEMMA ManifestWhole ==
  ASSUME Shapes, CaseInv, NEW s, CaseFile(s) \in DOMAIN document
  PROVE  Whole(buildManifest(s), s)
  <1>1. PICK m : m = buildManifest(s)
    OBVIOUS
  <1>2. /\ DOMAIN m = {d \in DOMAIN document : OfCase(d, s)}
        /\ \A d \in DOMAIN m : m[d] = document[d]
    BY <1>1 DEF buildManifest
  <1>3. /\ OfCase(CaseFile(s), s) /\ OfCase(RetentionRecord(s), s)
        /\ \A e : OfCase(CaseEvent(s, e), s)
        /\ \A e : e[1] = "recordEvent" => (OfCase(e, s) <=> e[2][2] = s)
        /\ \A d : d[1] \in SectionKinds => (OfCase(d, s) <=> d[2] = s)
    BY DEF OfCase, CaseFile, RetentionRecord, CaseEvent, SectionKinds
  <1>4. FileIs(s)
    BY FileOf
  <1>5. PICK file : file = m[CaseFile(s)]
    OBVIOUS
  <1>6. file = document[CaseFile(s)]
    BY <1>2, <1>3, <1>5
  <1>7. {d \in DOMAIN m : d[1] = "hold" /\ m[d].status = "active"} = ActiveHolds(s)
    BY <1>2, <1>3 DEF ActiveHolds, RecordsOf, Kind, SectionKinds
  <1>8. RetentionRecord(s) \in DOMAIN m =>
          /\ RetentionRecord(s) \in DOMAIN document
          /\ m[RetentionRecord(s)] = document[RetentionRecord(s)]
    BY <1>2
  <1>9. ASSUME NEW d \in DOMAIN m, d[1] \in SectionKinds \ {"caseFile"}
        PROVE  EventsChained(m, d) /\ StatusTold(m, d)
    <2>1. /\ d \in DOMAIN document /\ m[d] = document[d] /\ d[2] = s
          /\ KindOf(d) = d[1] /\ KindOf(d) \in ChainKinds
      BY <1>2, <1>3, <1>9, ChainKindIs DEF Shapes, KindOf
    <2>2. ChainIs(d) /\ CaseRecordIs(d)
      BY <2>1 DEF CaseInv, ChainsAre
    <2>3. PICK events, n : events = EventsOf(document, d) /\ n = Count(d)
      OBVIOUS
    <2>4. /\ EventsOf(m, d) = events
          /\ \A e \in events : m[e] = document[e]
      BY <1>2, <1>3, <2>1, <2>3 DEF EventsOf
    <2>5. m[d].eventCount = n /\ m[d].last = document[d].last /\ n \in Nat
      BY <2>1, <2>2, <2>3 DEF Count, ChainIs
    <2>6. /\ Cardinality(events) = n
          /\ {document[e].sequence : e \in events} = 1 .. n
          /\ n > 0 => /\ m[d].last \in events
                      /\ document[m[d].last].sequence = n
          /\ \A e \in events : document[e].sequence > 1 =>
               /\ document[e].previous \in events
               /\ document[document[e].previous].sequence = document[e].sequence - 1
          /\ \A e \in events : CaseEvent(d[2], e) \in DOMAIN document
      BY <2>2, <2>3, <2>5 DEF ChainIs
    <2>7. {m[e].sequence : e \in events} = 1 .. n
      <3>1. {m[e].sequence : e \in events} = {document[e].sequence : e \in events}
        BY <2>4
      <3> QED BY <2>6, <3>1
    <2>8. \A e \in events : CaseEvent(d[2], e) \in DOMAIN m
      BY <1>2, <1>3, <2>1, <2>6
    <2>9. /\ n > 0 => m[m[d].last].sequence = n
          /\ \A e \in events : m[e].sequence > 1 =>
               m[m[e].previous].sequence = m[e].sequence - 1
      BY <2>4, <2>6
    <2>10. EventsChained(m, d)
      BY <2>4, <2>5, <2>6, <2>7, <2>8, <2>9 DEF EventsChained
    <2>11. ASSUME NEW type
           PROVE  Happened(m, d, type) = Told(d, type)
      <3>1. {e \in events : m[e].type = type} = {e \in events : document[e].type = type}
        BY <2>4
      <3> QED BY <2>3, <2>4, <3>1 DEF Happened, Told
    <2>12. document[d].eventCount > 0 => m[document[d].last].type = document[document[d].last].type
      BY <2>1, <2>4, <2>5, <2>6
    <2>13. CASE d[1] = "reviewTask"
      <3>1. ReviewTaskTold(d)
        BY <2>1, <2>2, <2>13 DEF CaseRecordIs
      <3> QED BY <2>1, <2>10, <2>11, <2>12, <2>13, <3>1 DEF StatusTold, ReviewTaskTold
    <2>14. CASE d[1] = "evidenceRef"
      <3>1. EvidenceTold(d)
        BY <2>1, <2>2, <2>14 DEF CaseRecordIs
      <3> QED BY <2>1, <2>10, <2>11, <2>14, <3>1 DEF StatusTold, EvidenceTold
    <2>15. CASE d[1] \in {"party", "relationship"}
      <3>1. GraphTold(d)
        BY <2>1, <2>2, <2>15 DEF CaseRecordIs
      <3> QED BY <2>1, <2>10, <2>12, <2>15, <3>1 DEF StatusTold, GraphTold
    <2>16. CASE d[1] = "hold"
      <3>1. HoldTold(d)
        BY <2>1, <2>2, <2>16 DEF CaseRecordIs
      <3> QED BY <2>1, <2>10, <2>16, <3>1 DEF StatusTold, HoldTold
    <2>17. CASE d[1] = "retention"
      BY <2>10, <2>17 DEF StatusTold
    <2>18. d[1] \in {"evidenceRef", "retention", "reviewTask", "party",
                     "relationship", "hold"}
      BY <2>1 DEF ChainKinds
    <2> QED BY <2>10, <2>13, <2>14, <2>15, <2>16, <2>17, <2>18
  <1>10. /\ file.activeHolds = Cardinality(ActiveHolds(s))
         /\ file.held <=> ActiveHolds(s) # {}
         /\ RetentionRecord(s) \in DOMAIN m =>
              /\ file.retention.disposition = m[RetentionRecord(s)].disposition
              /\ file.retention.policyVersion = m[RetentionRecord(s)].policyVersion
              /\ file.retention.disposition = "eligible_for_disposition" =>
                   file.status = "closed"
    BY <1>4, <1>6, <1>8 DEF FileIs
  <1> QED BY <1>1, <1>5, <1>7, <1>9, <1>10 DEF Whole

LEMMA PackageCreated ==
  ASSUME Shapes, Shapes', CaseInv, NEW c \in Calls, CreateCaseExportPackage(c)
  PROVE  CaseInv'
  <1>1. PICK s, p, g, m, x, y :
          /\ s = call[c].source /\ m = call[c].manifest
          /\ p = Package(s, Cardinality(RecordsOf(s, "package")) + 1)
          /\ g = CaseEvent(s, p) /\ x = [manifest |-> m]
          /\ y = [type |-> "case_export_package_created"]
    OBVIOUS
  <1>2. /\ Commit(c, p :> x @@ g :> y)
        /\ call[c].pc = "export" /\ buildManifest(s) = m
    BY <1>1 DEF CreateCaseExportPackage
  <1>3. document' = p :> x @@ g :> y @@ document /\ Moved(c, Idle)
    BY <1>2, CommitIs DEF Shapes
  <1>4. /\ KindOf(p) = "package" /\ KindOf(g) = "caseEvent" /\ p # g /\ p[2] = s
    BY <1>1, CasesNames DEF Package
  <1>5. /\ p \in DOMAIN document' /\ document'[p] = x
        /\ \A v : v # p /\ v # g => Same(v)
    BY <1>3, <1>4, Write2
  <1>6. CaseStays /\ DOMAIN document \subseteq DOMAIN document'
    BY <1>3, OverGrows DEF CaseStays, Grows
  <1>7. /\ \A v : KindOf(v) \in ChainKinds \cup {"recordEvent"} => Same(v)
        /\ \A v : KindOf(v) = "caseFile" => Same(v)
        /\ \A v : KindOf(v) = "package" /\ v # p => Same(v)
    BY <1>4, <1>5, ChainKindIs
  <1>8. Whole(m, s)
    <2>1. CaseFile(s) \in DOMAIN document
      BY <1>1, <1>2 DEF CaseInv
    <2> QED BY <1>2, <2>1, ManifestWhole
  <1>9. Whole(document'[p].manifest, p[2])
    BY <1>1, <1>4, <1>5, <1>8
  <1>10. \A v \in DOMAIN document' : KindOf(v) = "package" =>
           Same(v) \/ Whole(document'[v].manifest, v[2])
    BY <1>7, <1>9
  <1>11. \A b \in Calls : call'[b].pc = "export" =>
           CaseFile(call'[b].source) \in DOMAIN document'
    BY <1>3, <1>6 DEF CaseInv, Moved, Idle
  <1>12. /\ \A v : KindOf(v) = "caseFile" =>
                     (v \in DOMAIN document' <=> v \in DOMAIN document)
         /\ \A u : Same(CaseFile(u))
    BY <1>7, CasesNames DEF Same
  <1> QED BY <1>6, <1>7, <1>10, <1>11, <1>12, CaseRest

LEMMA CasesStep ==
  ASSUME Shapes, Shapes', CaseInv, NEW c \in Calls, CasesNext(c)
  PROVE  CaseInv'
  <1>1. \A s \in Cases : CaseFile(s) \in DOMAIN document
    BY DEF Cases, CaseInv, Kind
  <1>2. \A k, d : d \in Kind(k) => d \in DOMAIN document /\ KindOf(d) = k
    BY KindIs DEF Kind
  <1>3. ASSUME NEW source, ReadCaseSource(c, source)
        PROVE  CaseInv'
    <2>1. PICK next : Read(c, next) /\ next.pc = "openCase"
      BY <1>3 DEF ReadCaseSource
    <2> QED BY <2>1, CaseRead
  <1>4. ASSUME NEW s \in Cases, ExportReadiness(c, s)
        PROVE  CaseInv'
    <2>1. PICK next : Read(c, next) /\ next.source = s
      BY <1>4 DEF ExportReadiness
    <2> QED BY <1>1, <2>1, CaseRead
  <1>5. ASSUME NEW s \in Cases,
               \/ CloseCase(s)
               \/ StartLegalHold(s, Another(s, "hold"))
               \/ \E assigned \in BOOLEAN :
                    CreateReviewTask(s, Another(s, "reviewTask"), assigned)
               \/ CreateParty(s, Another(s, "party"))
               \/ \E source, target :
                    CreateRelationship(s, Another(s, "relationship"),
                                       source, target)
               \/ \E over \in BOOLEAN : SetRetentionPolicy(s, over)
               \/ ExportReadiness(c, s)
               \/ \E request : AppendChainEvent(s, request)
        PROVE  CaseInv'
    <2>1. CaseFile(s) \in DOMAIN document
      BY <1>1
    <2>2. EvidenceRef(s) \in DOMAIN document
      BY <2>1, FileOf DEF FileIs
    <2> QED
      BY <1>4, <1>5, <2>1, <2>2, CaseClosed, HoldStarted, TaskCreated,
         PartyCreated, RelationshipCreated, RetentionSet, ChainAppended, Zenon
  <1>6. ASSUME NEW d,
               \/ /\ d \in Kind("reviewTask")
                  /\ \E request, type : type \in DOMAIN ReviewTaskExpected
                       /\ AppendReviewTaskEvent(d, request, type)
               \/ /\ d \in Kind("party") \cup Kind("relationship")
                  /\ \E request : \/ AppendCaseGraphEvent(d, request)
                                  \/ UpdateCasePartyProfile(d, request)
               \/ /\ d \in Kind("hold")
                  /\ \E request : ReleaseLegalHold(d, request)
               \/ /\ d \in Kind("retention")
                  /\ \E request, over : AssessDisposition(d, request, over)
        PROVE  CaseInv'
    <2>1. CASE d \in Kind("reviewTask")
                 /\ \E request, type : type \in DOMAIN ReviewTaskExpected
                       /\ AppendReviewTaskEvent(d, request, type)
      BY <1>2, <2>1, TaskAppended
    <2>2. CASE d \in Kind("party") \cup Kind("relationship")
                 /\ \E request : \/ AppendCaseGraphEvent(d, request)
                                 \/ UpdateCasePartyProfile(d, request)
      <3>1. d \in DOMAIN document /\ KindOf(d) \in {"party", "relationship"}
        BY <1>2, <2>2
      <3> QED BY <2>2, <3>1, GraphEventAppended
    <2>3. CASE d \in Kind("hold") /\ \E request : ReleaseLegalHold(d, request)
      BY <1>2, <2>3, HoldReleased
    <2>4. CASE d \in Kind("retention")
                 /\ \E request, over : AssessDisposition(d, request, over)
      BY <1>2, <2>4, DispositionAssessed
    <2> QED BY <1>6, <2>1, <2>2, <2>3, <2>4
  <1>7. \/ \E source : ReadCaseSource(c, source)
        \/ CreateCase(c)
        \/ \E s \in Cases :
              \/ CloseCase(s)
              \/ StartLegalHold(s, Another(s, "hold"))
              \/ \E assigned \in BOOLEAN :
                   CreateReviewTask(s, Another(s, "reviewTask"), assigned)
              \/ CreateParty(s, Another(s, "party"))
              \/ \E source, target :
                   CreateRelationship(s, Another(s, "relationship"),
                                      source, target)
              \/ \E over \in BOOLEAN : SetRetentionPolicy(s, over)
              \/ ExportReadiness(c, s)
              \/ \E request : AppendChainEvent(s, request)
        \/ \E d :
             \/ /\ d \in Kind("reviewTask")
                /\ \E request, type : type \in DOMAIN ReviewTaskExpected
                     /\ AppendReviewTaskEvent(d, request, type)
             \/ /\ d \in Kind("party") \cup Kind("relationship")
                /\ \E request : \/ AppendCaseGraphEvent(d, request)
                                \/ UpdateCasePartyProfile(d, request)
             \/ /\ d \in Kind("hold")
                /\ \E request : ReleaseLegalHold(d, request)
             \/ /\ d \in Kind("retention")
                /\ \E request, over : AssessDisposition(d, request, over)
        \/ CreateCaseExportPackage(c)
    BY ZenonT(60) DEF CasesNext
  <1> QED BY <1>3, <1>5, <1>6, <1>7, CaseFileCreated, PackageCreated, Zenon

LEMMA StoreGrows ==
  /\ \A w : Transact(w) => Grows
  /\ \A c, w, next : Claim(c, w, next) => Grows
  /\ \A c, next : Read(c, next) => Grows
  /\ \A c, w, next : Step(c, w, next) => Grows
  /\ \A c, w : Commit(c, w) => Grows
  BY OverGrows DEF Transact, Claim, Read, Step, Commit

LEMMA UploadsGrow ==
  ASSUME NEW c, UploadsNext(c)
  PROVE  Grows
  BY StoreGrows, Zenon DEF UploadsNext, ReadUploadSession, CreateUploadSession,
     StageObject, RemoveStaged, SessionExpires, ReadStagedObject,
     ReservePromotion, PromoteObject, BindObject

LEMMA CaseFramed ==
  ASSUME Shapes, Shapes', CaseInv, Frame(CaseMine, {"export"}), CaseStays
  PROVE  CaseInv'
  <1>1. \A v : KindOf(v) \in CaseMine => Same(v)
    BY DEF Frame
  <1>2. \A b \in Calls : call'[b].pc = "export" =>
          CaseFile(call'[b].source) \in DOMAIN document'
    <2>1. \A s : Same(CaseFile(s))
      BY <1>1, CasesNames DEF CaseMine
    <2> QED BY <2>1 DEF Frame, CaseInv, Same
  <1>3. /\ \A v : KindOf(v) \in ChainKinds \cup {"recordEvent"} => Same(v)
        /\ \A v : KindOf(v) = "caseFile" => Same(v)
        /\ \A v : KindOf(v) = "package" => Same(v)
    BY <1>1 DEF CaseMine
  <1>4. /\ \A v : KindOf(v) = "caseFile" =>
                     (v \in DOMAIN document' <=> v \in DOMAIN document)
        /\ \A u : Same(CaseFile(u))
    BY <1>3, CasesNames DEF Same
  <1> QED BY <1>2, <1>3, <1>4, CaseRest

LEMMA CaseStep ==
  ASSUME Shapes, Shapes', CaseInv, [PlatformNext]_documentVars
  PROVE  CaseInv'
  <1>1. \/ \E c \in Calls : CasesNext(c)
        \/ Frame(CaseMine, {"export"}) /\ CaseStays
    <2> DEFINE Apart(kinds, pcs) ==
                 /\ kinds \cap (CaseMine \cup {"caseEvent"}) = {}
                 /\ "export" \notin pcs
    <2>1. /\ Apart(WorkspaceKinds, WorkspacePcs) /\ Apart(RiskKinds, RiskPcs)
          /\ Apart(DetectiveKinds, DetectivePcs) /\ Apart({}, {})
          /\ Apart(SponsorKinds, SponsorPcs)
          /\ UploadsKinds \cap CaseMine = {} /\ "export" \notin UploadsPcs
          /\ \A kinds \in {LaboratoriesKinds, TraceabilityKinds, TwinsKinds,
                           PriorityKinds, SupplyKinds, BrandKinds} :
               Apart(kinds, {})
      BY DEF WorkspaceKinds, RiskKinds, DetectiveKinds, UploadsKinds, SponsorKinds,
         LaboratoriesKinds, TraceabilityKinds, TwinsKinds, PriorityKinds,
         SupplyKinds, BrandKinds, CaseMine, ChainKinds, WorkspacePcs, RiskPcs,
         DetectivePcs, UploadsPcs, SponsorPcs
    <2> HIDE DEF Apart
    <2>2. \/ \E c \in Calls : CasesNext(c)
          \/ \E c \in Calls : UploadsNext(c) /\ Touches(UploadsKinds, UploadsPcs)
          \/ \E kinds, pcs : Touches(kinds, pcs) /\ Apart(kinds, pcs)
      BY <2>1, Stepped
    <2>3. ASSUME NEW kinds, NEW pcs, Touches(kinds, pcs),
                 kinds \cap CaseMine = {}, "export" \notin pcs
          PROVE  Frame(CaseMine, {"export"})
      BY <2>3, Framed
    <2>4. ASSUME NEW kinds, NEW pcs, Touches(kinds, pcs), Apart(kinds, pcs)
          PROVE  Frame(CaseMine, {"export"}) /\ CaseStays
      <3>1. \A d : KindOf(d) \in CaseMine \cup {"caseEvent"} => Same(d)
        BY <2>4 DEF Touches, Leaves, Apart
      <3>2. CaseStays
        BY <3>1 DEF CaseStays, CaseMine, ChainKinds, Same
      <3> QED BY <2>3, <2>4, <3>2 DEF Apart
    <2>5. ASSUME NEW c \in Calls, UploadsNext(c), Touches(UploadsKinds, UploadsPcs)
          PROVE  Frame(CaseMine, {"export"}) /\ CaseStays
      BY <2>1, <2>3, <2>5, UploadsGrow DEF Grows, CaseStays
    <2> QED BY <2>2, <2>4, <2>5
  <1> QED BY <1>1, CasesStep, CaseFramed

LEMMA CaseMeans ==
  ASSUME Shapes, CaseInv
  PROVE  CaseFileWhole
  <1>1. \A s \in Cases : CaseFile(s) \in DOMAIN document
    BY DEF Cases, CaseInv, Kind
  <1> QED BY <1>1, ManifestWhole DEF CaseFileWhole, CaseInv

LEMMA CaseInit == DocumentsInit => Shapes /\ CaseInv
  <1> SUFFICES ASSUME DocumentsInit
               PROVE  Shapes /\ CaseInv
    OBVIOUS
  <1>1. /\ \A k : Kind(k) = {}
        /\ DOMAIN document = {}
        /\ \A c \in Calls : call[c].pc = "idle"
    BY DEF DocumentsInit, Kind, Idle
  <1>2. ASSUME NEW d
        PROVE  ChainIs(d)
    <2>1. Count(d) = 0 /\ EventsOf(document, d) = {}
      BY <1>1 DEF Count, EventsOf
    <2>2. IsFiniteSet({}) /\ Cardinality({}) = 0
      BY FS_EmptySet
    <2> QED BY <2>1, <2>2 DEF ChainIs
  <1>3. CaseInv
    BY <1>1, <1>2 DEF CaseInv, ChainsAre
  <1> QED BY <1>1, <1>3, IdleShape DEF DocumentsInit, Shapes

\* However the callables of a case interleave: it counts the holds that are
\* active, repeats its retention record, and every record has one chain of
\* events, which tells its status.  So does every package exported of it.
THEOREM CaseFilesAreWhole == PlatformSpec => []CaseFileWhole
  <1> DEFINE Inv == Shapes /\ CaseInv
  <1>1. DocumentsInit => Inv
    BY CaseInit
  <1>2. Inv /\ [PlatformNext]_documentVars => Inv'
    BY ShapesStep, CaseStep
  <1>3. Inv => CaseFileWhole
    BY CaseMeans
  <1> QED BY <1>1, <1>2, <1>3, PTL DEF PlatformSpec

-----------------------------------------------------------------------------
(* What has ended.                                                         *)

\* Every document that has ended is as it was.
Stands == \A d \in DOMAIN document : Ended(d) => Same(d)

\* If document a has ended, x is what it is.
Spares(a, x) == a \in DOMAIN document /\ Ended(a) => x = document[a]
SparesAll(w) == \A d \in DOMAIN w : Spares(d, w[d])

\* The kinds of documents that never end.
OpenKinds ==
    {"case", "sample", "request", "appeal", "laboratory", "accreditation",
     "key", "submission", "operation", "detectiveTask", "agentTask",
     "execution", "productCode", "scan", "sourceRecord", "caseFile",
     "evidenceRef", "retention", "uploadSession", "uploads", "staged",
     "creation", "sponsor", "sponsorEvent", "logo", "partner", "facility",
     "entryAttempts"}

LEMMA OpenSpares ==
  ASSUME NEW a, KindOf(a) \in OpenKinds
  PROVE  ~Ended(a) /\ \A x : Spares(a, x)
  BY DEF OpenKinds, KindOf, Ended, WrittenOnce, EndStatus, Spares

LEMMA FreshSpares ==
  ASSUME NEW a, ~Exists(a)
  PROVE  \A x : Spares(a, x)
  BY DEF Exists, Spares

LEMMA SparesNone == SparesAll(<<>>)
  BY DEF SparesAll

LEMMA SparesPut ==
  ASSUME NEW a, NEW x, Spares(a, x)
  PROVE  SparesAll(a :> x)
  BY DEF SparesAll, :>

LEMMA SparesOver ==
  ASSUME NEW f, NEW g, SparesAll(f), SparesAll(g)
  PROVE  SparesAll(f @@ g)
  BY DEF SparesAll, @@

LEMMA StandsAll ==
  ASSUME NEW w, SparesAll(w), document' = w @@ document
  PROVE  Stands
  BY DEF SparesAll, Stands, Spares, Same, @@

LEMMA Stands1 ==
  ASSUME NEW a, NEW x, document' = a :> x @@ document, Spares(a, x)
  PROVE  Stands
  BY SparesPut, StandsAll

LEMMA Stands2 ==
  ASSUME NEW a, NEW x, NEW b, NEW y,
         document' = a :> x @@ b :> y @@ document, Spares(a, x), Spares(b, y)
  PROVE  Stands
  <1>1. document' = (a :> x @@ b :> y) @@ document
    BY DEF @@, :>
  <1> QED BY <1>1, SparesPut, SparesOver, StandsAll

LEMMA Stands3 ==
  ASSUME NEW a, NEW x, NEW b, NEW y, NEW e, NEW z,
         document' = a :> x @@ b :> y @@ e :> z @@ document,
         Spares(a, x), Spares(b, y), Spares(e, z)
  PROVE  Stands
  <1>1. SparesAll(a :> x @@ b :> y @@ e :> z)
    BY SparesPut, SparesOver
  <1> QED BY <1>1, StandsAll

LEMMA Stands4 ==
  ASSUME NEW a, NEW x, NEW b, NEW y, NEW e, NEW z, NEW f, NEW u,
         document' = a :> x @@ b :> y @@ e :> z @@ f :> u @@ document,
         Spares(a, x), Spares(b, y), Spares(e, z), Spares(f, u)
  PROVE  Stands
  <1>1. SparesAll(a :> x @@ b :> y @@ e :> z @@ f :> u)
    BY SparesPut, SparesOver
  <1> QED BY <1>1, StandsAll

LEMMA SameStands ==
  ASSUME \A d : Same(d)
  PROVE  Stands
  BY DEF Stands

LEMMA ReadStands ==
  ASSUME NEW c, NEW next, Read(c, next)
  PROVE  Stands
  <1>1. document' = <<>> @@ document
    BY DEF Read, Claim
  <1> QED BY <1>1, WriteNone, SameStands

\* A step that leaves the kinds alone that can end.
LEMMA OpenStands ==
  ASSUME Shapes, NEW kinds, kinds \subseteq OpenKinds, Leaves(kinds)
  PROVE  Stands
  BY OpenSpares DEF Stands, Leaves

LEMMA WorkspaceReadStands ==
  ASSUME NEW c \in Calls, WorkspaceReads(c)
  PROVE  Stands
  <1>1. PICK next : Read(c, next)
    BY Zenon DEF WorkspaceReads, AppendOdlaChainOfCustodyEvent,
       CreateOdlaTestRequest, AdjudicateOdlaFinding, ResolveOdlaAppeal
  <1> QED BY <1>1, ReadStands

\* Records and their audit events are new; the others do not end.
LEMMA WorkspaceStands ==
  ASSUME Shapes, NEW c \in Calls, WorkspaceNext(c)
  PROVE  Stands
  <1>1. WorkspaceCall(call[c])
    BY DEF Shapes, Shape
  <1>2. ASSUME NEW d, NEW action, NEW op, Unrecorded(d, action, op), NEW x, NEW y
        PROVE  Spares(d, x) /\ Spares(Audit(action, op), y)
    BY <1>2, FreshSpares DEF Unrecorded
  <1>3. \A s, i : \A x : /\ Spares(Sample(s), x) /\ Spares(Case, x)
                         /\ Spares(Appeal(i), x)
    BY OpenSpares, WorkspaceNames DEF OpenKinds
  <1>4. ASSUME NEW op, CreateOdlaVerificationCase(op)
        PROVE  Stands
    <2>1. PICK x, y : Transact(Case :> x @@ Audit("create_case", op) :> y)
      BY <1>4, Zenon DEF CreateOdlaVerificationCase, Record
    <2> QED BY <1>2, <1>4, <2>1, Stands2 DEF Transact, CreateOdlaVerificationCase
  <1>5. ASSUME AppendCustodyEvent(c)
        PROVE  Stands
    <2> DEFINE e == call[c].event
    <2>1. PICK x, y, z, u :
            Commit(c, e :> x @@ Audit("append_custody", call[c].op) :> y
                      @@ Sample(e[2]) :> z @@ Case :> u)
      BY <1>5, Zenon DEF AppendCustodyEvent, Record
    <2>2. Unrecorded(e, "append_custody", call[c].op)
      BY <1>5 DEF AppendCustodyEvent
    <2> HIDE DEF e
    <2>3. /\ Spares(e, x) /\ Spares(Audit("append_custody", call[c].op), y)
          /\ Spares(Sample(e[2]), z) /\ Spares(Case, u)
      BY <1>2, <1>3, <2>2
    <2> QED BY <2>1, <2>3, Stands4 DEF Commit, Step
  <1>6. ASSUME CreateTestRequest(c)
        PROVE  Stands
    <2> DEFINE r == call[c].request
               a == Audit("create_test_request", call[c].op)
    <2>1. Unrecorded(r, "create_test_request", call[c].op)
      BY <1>6 DEF CreateTestRequest
    <2>2. CASE call[c].appeal = NoId
      <3>1. PICK x, y : Commit(c, r :> x @@ a :> y)
        BY <1>6, <2>2 DEF CreateTestRequest, Record
      <3> HIDE DEF r
      <3>2. Spares(r, x) /\ Spares(a, y)
        BY <1>2, <2>1
      <3> QED BY <3>1, <3>2, Stands2 DEF Commit, Step
    <2>3. CASE call[c].appeal # NoId
      <3>1. PICK x, y, z :
              Commit(c, r :> x @@ a :> y @@ Appeal(call[c].appeal) :> z)
        BY <1>6, <2>3 DEF CreateTestRequest, Record
      <3> HIDE DEF r
      <3>2. Spares(r, x) /\ Spares(a, y) /\ Spares(Appeal(call[c].appeal), z)
        BY <1>2, <1>3, <2>1
      <3> QED BY <3>1, <3>2, Stands3 DEF Commit, Step
    <2> QED BY <2>2, <2>3
  <1>7. ASSUME NEW op, NEW i, NEW r, RecordOdlaTestResult(op, i, r)
        PROVE  Stands
    <2>1. PICK x, y : Transact(TestResult(i) :> x
                               @@ Audit("record_test_result", op) :> y)
      BY <1>7, Zenon DEF RecordOdlaTestResult, Record
    <2> QED BY <1>2, <1>7, <2>1, Stands2 DEF Transact, RecordOdlaTestResult
  <1>8. ASSUME WriteFinding(c)
        PROVE  Stands
    <2>1. PICK x, y :
            Commit(c, call[c].finding :> x
                      @@ Audit("adjudicate_finding", call[c].op) :> y)
      BY <1>8, Zenon DEF WriteFinding, Record
    <2>2. Unrecorded(call[c].finding, "adjudicate_finding", call[c].op)
      BY <1>8 DEF WriteFinding
    <2> QED BY <1>2, <2>1, <2>2, Stands2 DEF Commit, Step
  <1>9. ASSUME NEW op, NEW i, NEW f, OpenOdlaAppeal(op, i, f)
        PROVE  Stands
    <2>1. PICK x, y : Transact(Appeal(i) :> x @@ Audit("open_appeal", op) :> y)
      BY <1>9, Zenon DEF OpenOdlaAppeal, Record
    <2> QED BY <1>2, <1>9, <2>1, Stands2 DEF Transact, OpenOdlaAppeal
  <1>10. ASSUME ResolveAppeal(c)
         PROVE  Stands
    <2>1. PICK x, y :
            Commit(c, call[c].appeal :> x
                      @@ Audit("resolve_appeal", call[c].op) :> y)
      BY <1>10, Zenon DEF ResolveAppeal
    <2>2. KindOf(call[c].appeal) = "appeal"
      BY <1>1, <1>10 DEF ResolveAppeal, WorkspaceCall
    <2>3. ~Exists(Audit("resolve_appeal", call[c].op))
      BY <1>10 DEF ResolveAppeal, Unresolved
    <2>4. Spares(call[c].appeal, x) /\ Spares(Audit("resolve_appeal", call[c].op), y)
      BY <2>2, <2>3, FreshSpares, OpenSpares DEF OpenKinds
    <2> QED BY <2>1, <2>4, Stands2 DEF Commit, Step
  <1> QED
    BY <1>4, <1>5, <1>6, <1>7, <1>8, <1>9, <1>10, WorkspaceReadStands, Zenon
    DEF WorkspaceNext

\* Results are new; nothing else of the detective ends.
LEMMA DetectiveStands ==
  ASSUME Shapes, NEW c \in Calls, DetectiveNext(c)
  PROVE  Stands
  <1>1. call[c].pc \in DetectivePcs => KindOf(call[c].task) = "detectiveTask"
    BY DEF Shapes, Shape, DetectiveCall
  <1>2. ASSUME NEW t, KindOf(t) = "detectiveTask",
               NEW w, w = <<>> \/ \E x : w = t :> x, document' = w @@ document
        PROVE  Stands
    BY <1>2, OpenSpares, SparesPut, SparesNone, StandsAll DEF OpenKinds
  <1>3. ASSUME NEW s, CreateDigitalDetectiveTask(s)
        PROVE  Stands
    <2>1. PICK x, y : Transact(Submission(s) :> x
                               @@ DetectiveTask(Submission(s)) :> y)
      BY <1>3, Zenon DEF CreateDigitalDetectiveTask
    <2>2. Spares(Submission(s), x) /\ Spares(DetectiveTask(Submission(s)), y)
      BY OpenSpares, DetectiveNames DEF OpenKinds
    <2> QED BY <2>1, <2>2, Stands2 DEF Transact
  <1>4. ASSUME NEW o, CreateAiFieldOperation(o)
        PROVE  Stands
    <2> DEFINE f == Operation(o) :> [status |-> "queued", processed |-> 0,
                                     execution |-> NoExecution]
               g == [d \in {AgentTask(Operation(o), a) : a \in Agents} |->
                       [status |-> "pending"]]
    <2>1. Transact(f @@ g)
      BY <1>4 DEF CreateAiFieldOperation
    <2>2. SparesAll(f)
      BY SparesPut, OpenSpares, DetectiveNames DEF OpenKinds
    <2>3. SparesAll(g)
      BY OpenSpares, DetectiveNames DEF SparesAll, OpenKinds
    <2> HIDE DEF f, g
    <2> QED BY <2>1, <2>2, <2>3, SparesOver, StandsAll DEF Transact
  <1>5. ASSUME NEW o, AiFieldOperationBridge(o)
        PROVE  Stands
    <2>1. Transact(DetectiveTask(Operation(o)) :> TaskDocument)
      BY <1>5 DEF AiFieldOperationBridge
    <2> QED BY <1>2, <2>1, DetectiveNames DEF Transact
  <1>6. ASSUME NEW t \in DetectiveTasks, ClaimDispatch(c, t)
        PROVE  Stands
    <2>1. PICK x : document' = t :> x @@ document
      BY <1>6, Zenon DEF ClaimDispatch, Claim
    <2>2. KindOf(t) = "detectiveTask"
      BY KindIs DEF DetectiveTasks
    <2> QED BY <1>2, <2>1, <2>2
  <1>7. ASSUME \/ WebhookAnswered(c) \/ NoToken(c) \/ RecordFailure(c)
               \/ WebhookFailed(c) \/ CatchFailure(c)
        PROVE  Stands
    <2>1. call[c].pc \in DetectivePcs
      BY <1>7 DEF WebhookAnswered, NoToken, RecordFailure, WebhookFailed,
         CatchFailure, DetectivePcs
    <2>2. PICK w : /\ w = <<>> \/ \E x : w = call[c].task :> x
                   /\ document' = w @@ document
      BY <1>7, Zenon DEF WebhookAnswered, NoToken, RecordFailure, WebhookFailed,
         CatchFailure, Failed, Commit, Step
    <2> QED BY <1>1, <1>2, <2>1, <2>2
  <1>8. ASSUME NEW d \in DetectiveTasks, NEW x, NEW a, NEW status,
               PersistDigitalDetectiveResult(d, x, a, status)
        PROVE  Stands
    <2> DEFINE o == SourceOperation(d)
    <2>1. PICK p, q, r, u, v :
            Transact(AgentResult(d, x, a) :> p @@ Execution(d, x) :> q
                     @@ d :> r
                     @@ IF o[1] # "operation" THEN <<>>
                        ELSE AgentTask(o, a) :> u @@ o :> v)
      BY <1>8, ZenonT(30) DEF PersistDigitalDetectiveResult
    <2> DEFINE f == AgentResult(d, x, a) :> p @@ Execution(d, x) :> q @@ d :> r
               g == IF o[1] # "operation" THEN <<>>
                    ELSE AgentTask(o, a) :> u @@ o :> v
    <2>2. ~Exists(AgentResult(d, x, a))
      BY <1>8, Zenon DEF PersistDigitalDetectiveResult
    <2>3. SparesAll(f)
      <3>1. KindOf(d) = "detectiveTask"
        BY KindIs DEF DetectiveTasks
      <3>2. Spares(AgentResult(d, x, a), p) /\ Spares(Execution(d, x), q)
            /\ Spares(d, r)
        BY <2>2, <3>1, FreshSpares, OpenSpares, DetectiveNames DEF OpenKinds
      <3> QED BY <3>2, SparesPut, SparesOver
    <2>4. SparesAll(g)
      <3>1. o[1] = "operation" => KindOf(o) = "operation"
        BY DEF Shapes, DetectiveTasks, Kind, KindOf, Proper, SourceOperation
      <3> HIDE DEF o
      <3>2. CASE o[1] # "operation"
        BY <3>2, SparesNone
      <3>3. CASE o[1] = "operation"
        <4>1. Spares(AgentTask(o, a), u) /\ Spares(o, v)
          BY <3>1, <3>3, OpenSpares, DetectiveNames DEF OpenKinds
        <4> QED BY <3>3, <4>1, SparesPut, SparesOver
      <3> QED BY <3>2, <3>3
    <2>5. Transact(f @@ g)
      BY <2>1
    <2> HIDE DEF f, g
    <2> QED BY <2>3, <2>4, <2>5, SparesOver, StandsAll DEF Transact
  <1> QED BY <1>3, <1>4, <1>5, <1>6, <1>7, <1>8 DEF DetectiveNext

\* A signal, its receipt and its audit event are new.
LEMMA RiskStands ==
  ASSUME Shapes, NEW c \in Calls, RiskNext(c)
  PROVE  Stands
  <1>1. ASSUME NEW s, NEW scoped, WriteSource(s, scoped)
        PROVE  Stands
    <2>1. PICK x : Transact(SourceRecord(s) :> x)
      BY <1>1, Zenon DEF WriteSource
    <2>2. Spares(SourceRecord(s), x)
      BY OpenSpares, RiskNames DEF OpenKinds
    <2> QED BY <2>1, <2>2, Stands1 DEF Transact
  <1>2. ASSUME NEW source,
               \/ PromoteSharedRisk(c, source)
               \/ PersistMonitoringRisk(c, source)
        PROVE  Stands
    <2>1. PICK next : Read(c, next)
      BY <1>2 DEF PromoteSharedRisk, PersistMonitoringRisk
    <2> QED BY <2>1, ReadStands
  <1>3. ASSUME ExecutePersistenceTransaction(c)
        PROVE  Stands
    <2> DEFINE key == call[c].key
    <2>1. PICK x, y, z :
            Commit(c, Signal(key) :> x @@ Receipt(key) :> y @@ RiskAudit(key) :> z)
      BY <1>3, Zenon DEF ExecutePersistenceTransaction
    <2>2. ~Exists(Receipt(key)) /\ ~Exists(Signal(key)) /\ ~Exists(RiskAudit(key))
      BY <1>3 DEF ExecutePersistenceTransaction
    <2> HIDE DEF key
    <2>3. /\ Spares(Signal(key), x) /\ Spares(Receipt(key), y)
          /\ Spares(RiskAudit(key), z)
      BY <2>2, FreshSpares
    <2> QED BY <2>1, <2>3, Stands3 DEF Commit, Step
  <1> QED BY <1>1, <1>2, <1>3 DEF RiskNext

\* The audit event of the next version is new.
LEMMA MutationStands ==
  ASSUME Shapes, RegistryInv, NEW callable, NEW k, NEW e, NEW version,
         NEW x, NEW type, KindOf(e) \in {"laboratory", "accreditation"},
         version = IF Exists(e) THEN document[e].version + 1 ELSE 1,
         Mutation(callable, k, e, version, x, type)
  PROVE  Stands
  <1>1. PICK a, z, y, u, v :
          /\ a = RegistryAudit(e, version) /\ z = Key(callable, k)
          /\ document' = e :> y @@ a :> u @@ z :> v @@ document
    BY Zenon DEF Mutation, Transact
  <1>2. KindOf(a) = "registryAudit" /\ KindOf(z) = "key"
    BY <1>1, RegistryNames
  <1>3. a \notin DOMAIN document
    <2>1. Exists(e) <=> e \in Entities
      BY InKind DEF Exists, Entities
    <2>2. Exists(e) => EntityIs(e)
      BY <2>1 DEF RegistryInv, RegistryAudits
    <2>3. ASSUME a \in DOMAIN document
          PROVE  FALSE
      <3>1. a \in Kind("registryAudit")
        BY <1>2, <2>3, InKind
      <3>2. RegistryAuditIs(a) /\ a[2] = e /\ a[3] = version
        BY <1>1, <3>1 DEF RegistryInv, RegistryAudits, RegistryAudit
      <3>3. e \in Entities /\ version \in 1 .. document[e].version
        BY <3>2 DEF RegistryAuditIs
      <3> QED BY <2>1, <2>2, <3>3 DEF EntityIs
    <2> QED BY <2>3
  <1>4. Spares(e, y) /\ Spares(a, u) /\ Spares(z, v)
    BY <1>2, <1>3, FreshSpares, OpenSpares DEF OpenKinds, Exists
  <1> QED BY <1>1, <1>4, Stands3

LEMMA LaboratoriesStands ==
  ASSUME Shapes, RegistryInv, LaboratoriesNext
  PROVE  Stands
  <1>1. /\ \A i : KindOf(Laboratory(i)) \in {"laboratory", "accreditation"}
        /\ \A i : KindOf(Accreditation(i)) \in {"laboratory", "accreditation"}
    BY RegistryNames
  <1>2. ASSUME NEW callable, NEW k, NEW e, NEW version, NEW x, NEW type,
               KindOf(e) \in {"laboratory", "accreditation"},
               version = IF Exists(e) THEN document[e].version + 1 ELSE 1,
               Mutation(callable, k, e, version, x, type)
        PROVE  Stands
    BY <1>2, MutationStands
  <1>3. ASSUME NEW k, NEW i, NEW registration, RegisterLaboratory(k, i, registration)
        PROVE  Stands
    <2>1. PICK x, type :
            Mutation("registerOdlaLaboratory", k, Laboratory(i), 1, x, type)
      BY <1>3, Zenon DEF RegisterLaboratory
    <2>2. ~Exists(Laboratory(i))
      BY <1>3 DEF RegisterLaboratory
    <2> QED BY <1>1, <1>2, <2>1, <2>2
  <1>4. ASSUME NEW k, NEW i, NEW l, NEW certificate,
               SubmitAccreditation(k, i, l, certificate)
        PROVE  Stands
    <2>1. PICK x, type :
            Mutation("submitOdlaLaboratoryAccreditation", k, Accreditation(i), 1,
                     x, type)
      BY <1>4, Zenon DEF SubmitAccreditation
    <2>2. ~Exists(Accreditation(i))
      BY <1>4 DEF SubmitAccreditation
    <2> QED BY <1>1, <1>2, <2>1, <2>2
  <1>5. ASSUME NEW k, NEW i, NEW version, NEW decision,
               ReviewAccreditation(k, i, version, decision)
        PROVE  Stands
    <2>1. PICK x, type :
            Mutation("reviewOdlaLaboratoryAccreditation", k, Accreditation(i),
                     version + 1, x, type)
      BY <1>5, Zenon DEF ReviewAccreditation
    <2>2. Exists(Accreditation(i)) /\ document[Accreditation(i)].version = version
      BY <1>5 DEF ReviewAccreditation, Expected
    <2> QED BY <1>1, <1>2, <2>1, <2>2
  <1>6. ASSUME NEW k, NEW i, NEW version, NEW target,
               ChangeLaboratoryStatus(k, i, version, target)
        PROVE  Stands
    <2>1. PICK x, type :
            Mutation("changeOdlaLaboratoryStatus", k, Laboratory(i), version + 1,
                     x, type)
      BY <1>6, Zenon DEF ChangeLaboratoryStatus
    <2>2. Exists(Laboratory(i)) /\ document[Laboratory(i)].version = version
      BY <1>6 DEF ChangeLaboratoryStatus, Expected
    <2> QED BY <1>1, <1>2, <2>1, <2>2
  <1> QED BY <1>3, <1>4, <1>5, <1>6 DEF LaboratoriesNext

\* A document that may be written: it is not there, or has not ended.
Free(a) == a \in DOMAIN document => ~Ended(a)

\* A transaction of one or two documents that may be written.
FreeWrite ==
    \/ \E a, x : Free(a) /\ Transact(a :> x)
    \/ \E a, x, b, y : Free(a) /\ Free(b) /\ Transact(a :> x @@ b :> y)

LEMMA OpenFree ==
  ASSUME NEW a, KindOf(a) \in OpenKinds
  PROVE  Free(a)
  BY OpenSpares DEF Free

LEMMA StatusFree ==
  ASSUME NEW a, KindOf(a) \in DOMAIN EndStatus,
         document[a].status \notin EndStatus[KindOf(a)],
         KindOf(a) = "asset" => document[a].status # "destroyed"
  PROVE  Free(a)
  BY DEF Free, Ended, KindOf, WrittenOnce, EndStatus

LEMMA FreeSpares ==
  ASSUME NEW a, Free(a), NEW x
  PROVE  Spares(a, x) /\ SparesAll(a :> x)
  BY SparesPut DEF Free, Spares

LEMMA FreeStands ==
  ASSUME FreeWrite
  PROVE  Stands
  <1>1. ASSUME NEW a, NEW x, Free(a), Transact(a :> x)
        PROVE  Stands
    BY <1>1, FreeSpares, StandsAll DEF Transact
  <1>2. ASSUME NEW a, NEW x, NEW b, NEW y, Free(a), Free(b),
               Transact(a :> x @@ b :> y)
        PROVE  Stands
    <2>1. document' = (a :> x @@ b :> y) @@ document
      BY <1>2 DEF Transact
    <2> QED BY <1>2, <2>1, FreeSpares, SparesOver, StandsAll
  <1> QED BY <1>1, <1>2 DEF FreeWrite

LEMMA SponsorStands ==
  ASSUME Shapes, NEW c \in Calls, SponsorNext(c)
  PROVE  Stands
  <1>1. Leaves(SponsorKinds)
    BY SponsorTouches DEF Touches
  <1>2. SponsorKinds \subseteq OpenKinds
    BY DEF SponsorKinds, OpenKinds
  <1> QED BY <1>1, <1>2, OpenStands

\* The next case of a scan is new.
LEMMA TraceabilityStands ==
  ASSUME Shapes, TraceInv, TraceabilityNext
  PROVE  Stands
  <1>1. /\ \A i : Free(ProductCode(i)) /\ Free(Scan(i))
        /\ \A d \in Kind("productCode") \cup Kind("scan") : Free(d)
    BY TraceabilityNames, KindIs, OpenFree DEF OpenKinds
  <1>2. Free(TraceabilityCase(NextOf("traceabilityCase")))
    BY NumberedNext DEF TraceInv, TraceabilityCase, Free
  <1>3. ASSUME NEW i, IssueProductCode(i)
        PROVE  FreeWrite
    BY <1>1, <1>3, Zenon DEF IssueProductCode, FreeWrite
  <1>4. ASSUME NEW d \in Kind("productCode"), NEW status, SetCodeStatus(d, status)
        PROVE  FreeWrite
    BY <1>1, <1>4, Zenon DEF SetCodeStatus, FreeWrite
  <1>5. ASSUME VerifyUnknownCode
        PROVE  FreeWrite
    BY <1>1, <1>5, Zenon DEF VerifyUnknownCode, FreeWrite
  <1>6. ASSUME NEW d \in Kind("productCode"), NEW platform, NEW source, NEW rapid,
               VerifyProductCode(d, platform, source, rapid)
        PROVE  FreeWrite
    <2>1. PICK x, y : Transact(d :> x @@ Scan(NextOf("scan")) :> y)
      BY <1>6, Zenon DEF VerifyProductCode
    <2> QED BY <1>1, <2>1, Zenon DEF FreeWrite
  <1>7. ASSUME NEW d \in Kind("scan"), NEW review,
               ReviewSuspiciousVerificationScan(d, review)
        PROVE  FreeWrite
    BY <1>1, <1>7, Zenon DEF ReviewSuspiciousVerificationScan, Reviewed, FreeWrite
  <1>8. ASSUME NEW d \in Kind("scan"), CreateTraceabilityCaseFromScan(d)
        PROVE  FreeWrite
    <2>1. PICK x, y : Transact(TraceabilityCase(NextOf("traceabilityCase")) :> x
                               @@ d :> y)
      BY <1>8, Zenon DEF CreateTraceabilityCaseFromScan, Reviewed
    <2> QED BY <1>1, <1>2, <2>1, Zenon DEF FreeWrite
  <1> QED
    BY <1>3, <1>4, <1>5, <1>6, <1>7, <1>8, FreeStands DEF TraceabilityNext

\* The next version is new, and a draft changes only until it is sealed.
LEMMA PriorityStands ==
  ASSUME Shapes, PriorityInv, IpPriorityNext
  PROVE  Stands
  <1>1. /\ \A i : Free(Creation(i))
        /\ \A d \in Kind("creation") : Free(d)
    BY PriorityNames, KindIs, OpenFree DEF OpenKinds
  <1>2. Free(CreationVersion(NextOf("creationVersion")))
    BY NumberedNext DEF PriorityInv, CreationVersion, Free
  <1>3. ASSUME NEW v \in Kind("creationVersion"), document[v].seal = "unsealed"
        PROVE  Free(v)
    <2>1. v[1] = "creationVersion"
      BY DEF Kind
    <2> QED BY <1>3, <2>1 DEF Free, Ended, WrittenOnce, EndStatus
  <1>4. ASSUME NEW code, NEW content, CreateIpCreationPriorityDraft(code, content)
        PROVE  FreeWrite
    <2>1. PICK x, y : Transact(Creation(NextOf("creation")) :> x
                               @@ CreationVersion(NextOf("creationVersion")) :> y)
      BY <1>4, Zenon DEF CreateIpCreationPriorityDraft
    <2> QED BY <1>1, <1>2, <2>1, Zenon DEF FreeWrite
  <1>5. ASSUME NEW d \in Kind("creation"), NEW v \in Kind("creationVersion"),
               \/ \E content : UpdateIpCreationPriorityDraft(d, v, content)
               \/ SealIpCreationPriorityRecord(d, v)
        PROVE  FreeWrite
    <2>1. Free(v) /\ Free(d)
      BY <1>1, <1>3, <1>5
      DEF UpdateIpCreationPriorityDraft, SealIpCreationPriorityRecord, UnsealedDraft
    <2>2. \/ \E x : Transact(v :> x)
          \/ \E x, y : Transact(v :> x @@ d :> y)
      BY <1>5, Zenon
      DEF UpdateIpCreationPriorityDraft, SealIpCreationPriorityRecord
    <2> QED BY <2>1, <2>2, Zenon DEF FreeWrite
  <1>6. ASSUME NEW d \in Kind("creation"), NEW content,
               CreateIpCreationPriorityVersion(d, content)
        PROVE  FreeWrite
    <2>1. PICK x, y : Transact(CreationVersion(NextOf("creationVersion")) :> x
                               @@ d :> y)
      BY <1>6, Zenon DEF CreateIpCreationPriorityVersion
    <2> QED BY <1>1, <1>2, <2>1, Zenon DEF FreeWrite
  <1>7. ASSUME NEW d \in Kind("creation"), ArchiveCreation(d)
        PROVE  FreeWrite
    BY <1>1, <1>7, Zenon DEF ArchiveCreation, FreeWrite
  <1>8. ASSUME NEW u, NEW n, EnsureIpCreationRegistryOwnerIdentity(u, n)
        PROVE  FreeWrite
    <2>1. Free(OwnerIdentity(u)) /\ Free(OwnerNumber(n))
      BY <1>8 DEF EnsureIpCreationRegistryOwnerIdentity, Exists, Free
    <2>2. PICK x, y : Transact(OwnerIdentity(u) :> x @@ OwnerNumber(n) :> y)
      BY <1>8, Zenon DEF EnsureIpCreationRegistryOwnerIdentity
    <2> QED BY <2>1, <2>2, Zenon DEF FreeWrite
  <1> QED
    BY <1>4, <1>5, <1>6, <1>7, <1>8, FreeStands, Zenon DEF IpPriorityNext

\* What the other invariants do not say: twin records are numbered and so are
\* the packages of a case, a control is a record, and what an event of a case
\* tells of is there.
PackagesAre(s) ==
    LET packages == RecordsOf(s, "package") IN
    /\ IsFiniteSet(packages)
    /\ \A p \in packages : /\ p = Package(s, p[3])
                           /\ p[3] \in 1 .. Cardinality(packages)

ControlIs(d) == document[d] = [f \in DOMAIN document[d] |-> document[d][f]]

\* What the events of a case tell of.
Subjects == {"caseFile", "recordEvent", "package", "evidenceObject"}

CaseEventIs(d) == d[3] \in DOMAIN document /\ KindOf(d[3]) \in Subjects

StandInv ==
    /\ Numbered("twinRecord")
    /\ \A d \in Kind("control") : ControlIs(d)
    /\ \A d \in Kind("caseEvent") : CaseEventIs(d)
    /\ \A s : PackagesAre(s)

\* A report is decided or deleted before it is published only; what is
\* created is new.
LEMMA TwinDeletes ==
  ASSUME Shapes, TwinInv, NEW r \in Kind("twinReport"),
         DeleteCounterfeitTwinReport(r)
  PROVE  Stands /\ \A d \in DOMAIN document : d # r => d \in DOMAIN document'
  <1>1. PICK z, x : /\ Free(z) /\ z \notin DOMAIN document
                    /\ document' = z :> x
                         @@ [d \in DOMAIN document \ {r} |-> document[d]]
    <2>1. Deletion(NextOf("reportDeletion")) \notin DOMAIN document
      BY NumberedNext DEF TwinInv, Deletion
    <2> QED BY <2>1, Zenon DEF DeleteCounterfeitTwinReport, TransactDeleting, Free
  <1>2. ~Ended(r)
    <2>1. KindOf(r) = "twinReport" /\ r \in DOMAIN document
      BY KindIs DEF Kind
    <2>2. document[r].status # "published"
      BY DEF DeleteCounterfeitTwinReport, Deletable
    <2> QED BY <2>1, <2>2, StatusFree DEF Free, EndStatus
  <1>3. \A d \in DOMAIN document : d # r => Same(d)
    BY <1>1 DEF Same, @@, :>
  <1> QED BY <1>2, <1>3 DEF Stands, Same

LEMMA TwinsStand ==
  ASSUME Shapes, TwinInv, StandInv, CounterfeitTwinsNext
  PROVE  Stands
  <1>1. Free(NewReport)
    <2>1. NewReport = Report(EverReported + 1) /\ EverReported \in Nat
      BY TwinCounts DEF NewReport, EverReported
    <2>2. ASSUME NewReport \in DOMAIN document
          PROVE  FALSE
      <3>1. NewReport \in Kind("twinReport")
        BY <2>1, <2>2 DEF Kind, Report
      <3>2. NewReport[2] \in 1 .. EverReported
        BY <3>1 DEF TwinInv, ReportIs
      <3> QED BY <2>1, <3>2 DEF Report
    <2> QED BY <2>2 DEF Free
  <1>2. /\ Free(Comparison(NextOf("comparison")))
        /\ Free(TwinRecord(NextOf("twinRecord")))
    BY NumberedNext DEF TwinInv, StandInv, Comparison, TwinRecord, Free
  <1>3. ASSUME NEW images, SubmitCounterfeitTwinReport(images)
        PROVE  Stands
    BY <1>1, <1>3, FreeStands, Zenon DEF SubmitCounterfeitTwinReport, FreeWrite
  <1>4. ASSUME NEW r \in Kind("twinReport"), NEW decision, NEW approved,
               ReviewCounterfeitTwinReport(r, decision, approved)
        PROVE  Stands
    <2>1. Free(r)
      <3>1. KindOf(r) = "twinReport"
        BY KindIs
      <3>2. document[r].status # "published"
        BY <1>4 DEF ReviewCounterfeitTwinReport, Undecided
      <3> QED BY <3>1, <3>2, StatusFree DEF EndStatus
    <2>2. \/ \E x : Transact(r :> x)
          \/ \E x, y : Transact(Comparison(NextOf("comparison")) :> x @@ r :> y)
      BY <1>4, Zenon DEF ReviewCounterfeitTwinReport
    <2> QED BY <1>2, <2>1, <2>2, FreeStands, Zenon DEF FreeWrite
  <1>5. ASSUME NEW code, NEW status, CreateCounterfeitTwinRecord(code, status)
        PROVE  Stands
    BY <1>2, <1>5, FreeStands, Zenon DEF CreateCounterfeitTwinRecord, FreeWrite
  <1>6. ASSUME NEW d \in Kind("twinRecord"), NEW status,
               UpdateCounterfeitTwinRecord(d, status)
        PROVE  Stands
    <2>1. Free(d)
      <3>1. KindOf(d) = "twinRecord"
        BY KindIs
      <3>2. document[d].status # "archived"
        BY <1>6 DEF UpdateCounterfeitTwinRecord
      <3> QED BY <3>1, <3>2, StatusFree DEF EndStatus
    <2>2. \E x : Transact(d :> x)
      BY <1>6, Zenon DEF UpdateCounterfeitTwinRecord
    <2> QED BY <2>1, <2>2, FreeStands, Zenon DEF FreeWrite
  <1> QED
    BY <1>3, <1>4, <1>5, <1>6, TwinDeletes, Zenon DEF CounterfeitTwinsNext

\* Who withdraws an archived control once more finds it as it is.
LEMMA SupplyStands ==
  ASSUME Shapes, StandInv, SupplySecurityNext
  PROVE  Stands
  <1>1. /\ \A i : Free(Partner(i)) /\ Free(Facility(i))
        /\ \A d \in Kind("partner") \cup Kind("facility") : Free(d)
    <2>1. \A i : KindOf(Partner(i)) = "partner" /\ KindOf(Facility(i)) = "facility"
      BY DEF KindOf, Proper, Partner, Facility
    <2> QED BY <2>1, KindIs, OpenFree DEF OpenKinds
  <1>2. ASSUME NEW d \in Kind("control"), document[d].status # "archived"
        PROVE  Free(d)
    <2>1. KindOf(d) = "control"
      BY KindIs
    <2> QED BY <1>2, <2>1, StatusFree DEF EndStatus
  <1>3. ASSUME NEW d \in Kind("asset"), InUse(d)
        PROVE  Free(d)
    <2>1. KindOf(d) = "asset"
      BY KindIs
    <2> QED BY <1>3, <2>1, StatusFree DEF EndStatus, InUse
  <1>4. ASSUME NEW partner, CreateTarget(partner)
        PROVE  Stands
    BY <1>1, <1>4, FreeStands, Zenon DEF CreateTarget, FreeWrite
  <1>5. ASSUME NEW d \in Kind("control"), Withdraw(d, "archived")
        PROVE  Stands
    <2>1. CASE document[d].status = "archived"
      <3>1. document[d] = [f \in DOMAIN document[d] |-> document[d][f]]
        BY DEF StandInv, ControlIs
      <3>2. [document[d] EXCEPT !.status = "archived"] = document[d]
        BY <2>1, <3>1
      <3>3. document' = d :> document[d] @@ document
        BY <1>5, <3>2 DEF Withdraw, Transact
      <3> QED BY <3>3, Stands1 DEF Spares
    <2>2. CASE document[d].status # "archived"
      BY <1>2, <1>5, <2>2, FreeStands, Zenon DEF Withdraw, FreeWrite
    <2> QED BY <2>1, <2>2
  <1>6. ASSUME NEW d, NEW status, Withdraw(d, status), Free(d)
        PROVE  Stands
    BY <1>6, FreeStands, Zenon DEF Withdraw, FreeWrite
  <1>7. ASSUME NEW i, NEW partner, NEW facility,
               CreateSupplyProtectionControl(i, partner, facility)
        PROVE  Stands
    <2>1. Free(ProtectionControl(i))
      BY <1>7 DEF CreateSupplyProtectionControl, Exists, Free
    <2> QED
      BY <1>7, <2>1, FreeStands, Zenon DEF CreateSupplyProtectionControl, FreeWrite
  <1>8. ASSUME NEW d \in Kind("control"), NEW status, NEW failed, NEW corrected,
               NEW partner, NEW facility,
               UpdateSupplyProtectionControl(d, status, failed, corrected,
                                             partner, facility)
        PROVE  Stands
    <2>1. Free(d)
      BY <1>2, <1>8 DEF UpdateSupplyProtectionControl
    <2> QED
      BY <1>8, <2>1, FreeStands, Zenon DEF UpdateSupplyProtectionControl, FreeWrite
  <1>9. ASSUME NEW i, NEW partner, NEW facility,
               CreateSupplyProductionAsset(i, partner, facility)
        PROVE  Stands
    <2>1. Free(ProductionAsset(i))
      BY <1>9 DEF CreateSupplyProductionAsset, Exists, Free
    <2> QED
      BY <1>9, <2>1, FreeStands, Zenon DEF CreateSupplyProductionAsset, FreeWrite
  <1>10. ASSUME NEW d \in Kind("asset"), NEW partner, NEW facility,
                UpdateSupplyProductionAsset(d, partner, facility)
         PROVE  Stands
    <2>1. Free(d)
      BY <1>3, <1>10 DEF UpdateSupplyProductionAsset
    <2> QED
      BY <1>10, <2>1, FreeStands, Zenon DEF UpdateSupplyProductionAsset, FreeWrite
  <1>11. ASSUME NEW d \in UNION {Kind(k) : k \in {"partner", "facility", "control"}},
                Withdraw(d, "archived")
         PROVE  Stands
    <2>1. d \in Kind("control") \/ d \in Kind("partner") \cup Kind("facility")
      BY <1>11
    <2> QED BY <1>1, <1>5, <1>6, <1>11, <2>1
  <1> QED
    BY <1>3, <1>4, <1>6, <1>7, <1>8, <1>9, <1>10, <1>11, Zenon
    DEF SupplySecurityNext

\* An application is decided once, and all of the tenant is new or nothing.
LEMMA BrandStands ==
  ASSUME Shapes, BrandInv, BrandOnboardingNext
  PROVE  Stands
  <1>1. /\ Free(Application(NextOf("brandApplication")))
        /\ \A u : Free(EntryAttempts(u))
    BY NumberedNext, BrandNames, OpenFree DEF BrandInv, Application, Free, OpenKinds
  <1>2. ASSUME NEW u,
               \/ Apply(u)
               \/ \E codeMatches : VerifyAdminEntryGate(u, codeMatches)
               \/ LockEnds(u)
        PROVE  Stands
    BY <1>1, <1>2, FreeStands, Zenon
    DEF Apply, VerifyAdminEntryGate, LockEnds, FreeWrite
  <1>3. ASSUME NEW u, NEW r, NEW product, CreateSubscriptionRequest(u, r, product)
        PROVE  Stands
    <2>1. Free(SubscriptionRequest(u, r))
      BY <1>3 DEF CreateSubscriptionRequest, Exists, Free
    <2> QED BY <1>3, <2>1, FreeStands, Zenon DEF CreateSubscriptionRequest, FreeWrite
  <1>4. ASSUME NEW d \in Kind("brandApplication"), NEW decision,
               ReviewBrandApplication(d, decision)
        PROVE  Stands
    <2>1. Free(d)
      <3>1. KindOf(d) = "brandApplication"
        BY KindIs
      <3>2. document[d].status \notin {"approved", "rejected"}
        BY <1>4 DEF ReviewBrandApplication, Decidable
      <3> QED BY <3>1, <3>2, StatusFree DEF EndStatus
    <2>2. PICK x, w : /\ \/ w = <<>>
                         \/ \E u, y : ~Exists(Brand(u)) /\ w = Brand(u) :> y
                      /\ Transact(d :> x @@ w)
      BY <1>4 DEF ReviewBrandApplication
    <2>3. SparesAll(w)
      BY <2>2, SparesNone, FreeSpares DEF Free, Exists
    <2>4. SparesAll(d :> x @@ w)
      BY <2>1, <2>3, FreeSpares, SparesOver
    <2> QED BY <2>2, <2>4, StandsAll DEF Transact
  <1>5. ASSUME NEW u, ProvisionInternalTenant(u)
        PROVE  Stands
    <2>1. \A d \in TenantDocuments(u) : ~Exists(d)
      BY <1>5 DEF ProvisionInternalTenant, stateOutcome
    <2>2. SparesAll([d \in TenantDocuments(u) |-> [creator |-> u]])
      BY <2>1, FreshSpares DEF SparesAll
    <2> QED BY <1>5, <2>2, StandsAll DEF ProvisionInternalTenant, Transact
  <1> QED BY <1>2, <1>3, <1>4, <1>5, Zenon DEF BrandOnboardingNext

\* What a case tells of something new is new.
LEMMA NewOfCase ==
  ASSUME Shapes, StandInv, NEW x, x \notin DOMAIN document, NEW s
  PROVE  Free(CaseEvent(s, x))
  <1>1. ASSUME CaseEvent(s, x) \in DOMAIN document
        PROVE  FALSE
    <2>1. CaseEvent(s, x) \in Kind("caseEvent") /\ CaseEvent(s, x)[3] = x
      BY <1>1 DEF Kind, CaseEvent
    <2> QED BY <2>1 DEF StandInv, CaseEventIs
  <1> QED BY <1>1 DEF Free

\* A record that may be written, with an event that is new.
LEMMA EventSpares ==
  ASSUME Shapes, StandInv, NEW d, Free(d), NEW r,
         RecordEvent(d, r) \notin DOMAIN document, NEW y, NEW z, NEW u
  PROVE  SparesAll(d :> y @@ RecordEvent(d, r) :> z
                   @@ CaseEvent(d[2], RecordEvent(d, r)) :> u)
  <1>1. Free(RecordEvent(d, r)) /\ Free(CaseEvent(d[2], RecordEvent(d, r)))
    BY NewOfCase DEF Free
  <1> QED BY <1>1, FreeSpares, SparesOver

LEMMA OpenedSpares ==
  ASSUME Shapes, StandInv, CaseInv, NEW d, KindOf(d) \in ChainKinds,
         d \notin DOMAIN document, NEW type, NEW x
  PROVE  SparesAll(Opened(d, type, x))
  <1>1. ChainIs(d)
    BY DEF CaseInv, ChainsAre
  <1>2. RecordEvent(d, 0) \notin DOMAIN document /\ Free(d)
    BY <1>1, NoEvents DEF Free
  <1>3. PICK y, z, u :
          Opened(d, type, x) = d :> y @@ RecordEvent(d, 0) :> z
                                 @@ CaseEvent(d[2], RecordEvent(d, 0)) :> u
    BY Zenon DEF Opened
  <1> QED BY <1>2, <1>3, EventSpares

LEMMA AppendedSpares ==
  ASSUME Shapes, StandInv, NEW d, Free(d), NEW r, New(d, r), NEW type, NEW x
  PROVE  SparesAll(Appended(d, r, type, x))
  <1>1. RecordEvent(d, r) \notin DOMAIN document
    BY DEF New, Exists
  <1>2. PICK y, z, u :
          Appended(d, r, type, x) = d :> y @@ RecordEvent(d, r) :> z
                                      @@ CaseEvent(d[2], RecordEvent(d, r)) :> u
    BY Zenon DEF Appended
  <1> QED BY <1>1, <1>2, EventSpares

LEMMA CaseFileSpares ==
  ASSUME NEW s
  PROVE  /\ \A count : SparesAll(Held(s, count))
         /\ \A retained : SparesAll(Projected(s, retained))
         /\ Free(CaseFile(s)) /\ Free(EvidenceRef(s)) /\ Free(RetentionRecord(s))
  <1>1. Free(CaseFile(s)) /\ Free(EvidenceRef(s)) /\ Free(RetentionRecord(s))
    BY CasesNames, OpenFree DEF OpenKinds
  <1> QED BY <1>1, FreeSpares, Zenon DEF Held, Projected

LEMMA TransactStands ==
  ASSUME NEW w, SparesAll(w), Transact(w)
  PROVE  Stands
  BY StandsAll DEF Transact

\* What is opened of a case is new.
LEMMA CreatesStand ==
  ASSUME Shapes, StandInv, CaseInv, NEW s,
         \/ \E i : StartLegalHold(s, i)
         \/ \E i, assigned : CreateReviewTask(s, i, assigned)
         \/ \E i : CreateParty(s, i)
         \/ \E i, source, target : CreateRelationship(s, i, source, target)
         \/ \E over : SetRetentionPolicy(s, over)
         \/ CloseCase(s)
         \/ \E request : AppendChainEvent(s, request)
  PROVE  Stands
  <1>1. /\ \A i : /\ KindOf(LegalHold(s, i)) \in ChainKinds
                  /\ KindOf(ReviewTask(s, i)) \in ChainKinds
                  /\ KindOf(Party(s, i)) \in ChainKinds
                  /\ KindOf(Relationship(s, i)) \in ChainKinds
        /\ KindOf(RetentionRecord(s)) \in ChainKinds
    BY CasesNames DEF ChainKinds
  <1>2. ASSUME NEW d, KindOf(d) \in ChainKinds, ~Exists(d), NEW type, NEW x
        PROVE  SparesAll(Opened(d, type, x))
    BY <1>2, OpenedSpares DEF Exists
  <1>3. ASSUME NEW i, StartLegalHold(s, i)
        PROVE  Stands
    <2>1. PICK type, x, count :
            /\ ~Exists(LegalHold(s, i))
            /\ Transact(Opened(LegalHold(s, i), type, x) @@ Held(s, count))
      BY <1>3, Zenon DEF StartLegalHold
    <2> QED BY <1>1, <1>2, <2>1, CaseFileSpares, SparesOver, TransactStands
  <1>4. ASSUME NEW d, KindOf(d) \in ChainKinds, ~Exists(d),
               \E type, x : Transact(Opened(d, type, x))
        PROVE  Stands
    BY <1>2, <1>4, TransactStands
  <1>5. ASSUME NEW i, NEW assigned, CreateReviewTask(s, i, assigned)
        PROVE  Stands
    BY <1>1, <1>4, <1>5, Zenon DEF CreateReviewTask
  <1>6. ASSUME NEW i, CreateParty(s, i)
        PROVE  Stands
    BY <1>1, <1>4, <1>6, Zenon DEF CreateParty
  <1>7. ASSUME NEW i, NEW source, NEW target, CreateRelationship(s, i, source, target)
        PROVE  Stands
    BY <1>1, <1>4, <1>7, Zenon DEF CreateRelationship
  <1>8. ASSUME NEW over, SetRetentionPolicy(s, over)
        PROVE  Stands
    <2> DEFINE d == RetentionRecord(s)
    <2>1. \/ /\ ~Exists(d)
             /\ \E type, x, retained :
                  Transact(Opened(d, type, x) @@ Projected(s, retained))
          \/ \E r, type, x, retained :
               /\ New(d, r)
               /\ Transact(Appended(d, r, type, x) @@ Projected(s, retained))
      BY <1>8, Zenon DEF SetRetentionPolicy
    <2>2. Free(d)
      BY CaseFileSpares
    <2> HIDE DEF d
    <2>3. CASE /\ ~Exists(d)
               /\ \E type, x, retained :
                    Transact(Opened(d, type, x) @@ Projected(s, retained))
      <3>1. KindOf(d) \in ChainKinds
        BY <1>1 DEF d
      <3> QED BY <1>2, <2>3, <3>1, CaseFileSpares, SparesOver, TransactStands
    <2>4. CASE \E r, type, x, retained :
                 /\ New(d, r)
                 /\ Transact(Appended(d, r, type, x) @@ Projected(s, retained))
      BY <2>2, <2>4, AppendedSpares, CaseFileSpares, SparesOver, TransactStands
    <2> QED BY <2>1, <2>3, <2>4
  <1>9. ASSUME CloseCase(s)
        PROVE  Stands
    BY <1>9, CaseFileSpares, FreeStands, Zenon DEF CloseCase, FreeWrite
  <1>10. ASSUME NEW r, AppendChainEvent(s, r)
         PROVE  Stands
    <2>1. PICK type, x : /\ New(EvidenceRef(s), r)
                         /\ Transact(Appended(EvidenceRef(s), r, type, x))
      BY <1>10, Zenon DEF AppendChainEvent
    <2> QED BY <2>1, AppendedSpares, CaseFileSpares, TransactStands
  <1> QED BY <1>3, <1>5, <1>6, <1>7, <1>8, <1>9, <1>10, Zenon

\* A record has events until its last.
LEMMA AppendsStand ==
  ASSUME Shapes, StandInv, CaseInv, NEW d,
         \/ /\ d \in Kind("reviewTask")
            /\ \E request, type : type \in DOMAIN ReviewTaskExpected
                  /\ AppendReviewTaskEvent(d, request, type)
         \/ /\ d \in Kind("party") \cup Kind("relationship")
            /\ \E request : \/ AppendCaseGraphEvent(d, request)
                            \/ UpdateCasePartyProfile(d, request)
         \/ /\ d \in Kind("hold")
            /\ \E request : ReleaseLegalHold(d, request)
         \/ /\ d \in Kind("retention")
            /\ \E request, over : AssessDisposition(d, request, over)
  PROVE  Stands
  <1>1. \A k : d \in Kind(k) => KindOf(d) = k
    BY KindIs
  <1>2. ASSUME NEW r, New(d, r), Free(d),
               \/ \E type, x : Transact(Appended(d, r, type, x))
               \/ \E type, x, count :
                    Transact(Appended(d, r, type, x) @@ Held(d[2], count))
               \/ \E type, x, retained :
                    Transact(Appended(d, r, type, x) @@ Projected(d[2], retained))
        PROVE  Stands
    BY <1>2, AppendedSpares, CaseFileSpares, SparesOver, TransactStands, Zenon
  <1>3. ASSUME d \in Kind("reviewTask"), NEW r, NEW type \in DOMAIN ReviewTaskExpected,
               AppendReviewTaskEvent(d, r, type)
        PROVE  Stands
    <2>1. document[d].status \notin {"completed", "cancelled"}
      BY <1>3 DEF AppendReviewTaskEvent, ReviewTaskExpected
    <2>2. Free(d)
      BY <1>1, <1>3, <2>1, StatusFree DEF EndStatus
    <2> QED BY <1>2, <1>3, <2>2, Zenon DEF AppendReviewTaskEvent
  <1>4. ASSUME d \in Kind("party") \cup Kind("relationship"), NEW r,
               AppendCaseGraphEvent(d, r) \/ UpdateCasePartyProfile(d, r)
        PROVE  Stands
    <2>1. document[d].status # "inactive"
      BY <1>4
      DEF AppendCaseGraphEvent, UpdateCasePartyProfile, graphActions
    <2>2. Free(d)
      BY <1>1, <1>4, <2>1, StatusFree DEF EndStatus
    <2> QED
      BY <1>2, <1>4, <2>2, Zenon DEF AppendCaseGraphEvent, UpdateCasePartyProfile
  <1>5. ASSUME d \in Kind("hold"), NEW r, ReleaseLegalHold(d, r)
        PROVE  Stands
    <2>1. document[d].status # "released"
      BY <1>5 DEF ReleaseLegalHold, Releasable
    <2>2. Free(d)
      BY <1>1, <1>5, <2>1, StatusFree DEF EndStatus
    <2> QED BY <1>2, <1>5, <2>2, Zenon DEF ReleaseLegalHold
  <1>6. ASSUME d \in Kind("retention"), NEW r, NEW over, AssessDisposition(d, r, over)
        PROVE  Stands
    <2>1. Free(d)
      BY <1>1, <1>6, OpenFree DEF OpenKinds
    <2> QED BY <1>2, <1>6, <2>1, Zenon DEF AssessDisposition
  <1> QED BY <1>3, <1>4, <1>5, <1>6

LEMMA CaseCreatedStands ==
  ASSUME Shapes, StandInv, NEW c \in Calls, CreateCase(c)
  PROVE  Stands
  <1> DEFINE s == call[c].source
  <1>1. PICK x, y, z :
          document' = CaseFile(s) :> x @@ EvidenceRef(s) :> y
                      @@ CaseEvent(s, CaseFile(s)) :> z @@ document
    BY Zenon DEF CreateCase, Commit, Step
  <1>2. CaseFile(s) \notin DOMAIN document
    BY DEF CreateCase, Exists
  <1>3. /\ Free(CaseFile(s)) /\ Free(EvidenceRef(s))
        /\ Free(CaseEvent(s, CaseFile(s)))
    BY <1>2, NewOfCase, CaseFileSpares
  <1> HIDE DEF s
  <1> QED BY <1>1, <1>3, FreeSpares, Stands3

\* The next package of a case is new.
LEMMA NextPackage ==
  ASSUME Shapes, StandInv, NEW s
  PROVE  Package(s, Cardinality(RecordsOf(s, "package")) + 1) \notin DOMAIN document
  <1> DEFINE packages == RecordsOf(s, "package")
             p == Package(s, Cardinality(packages) + 1)
  <1>1. Cardinality(packages) \in Nat
    BY FS_CardinalityType DEF StandInv, PackagesAre
  <1>2. ASSUME p \in DOMAIN document
        PROVE  FALSE
    <2>1. p \in packages
      BY <1>2 DEF RecordsOf, Kind, Package
    <2>2. p[3] \in 1 .. Cardinality(packages)
      BY <2>1 DEF StandInv, PackagesAre
    <2> QED BY <1>1, <2>2 DEF Package
  <1> QED BY <1>2

LEMMA PackageStands ==
  ASSUME Shapes, StandInv, NEW c \in Calls, CreateCaseExportPackage(c)
  PROVE  Stands
  <1> DEFINE s == call[c].source
             p == Package(s, Cardinality(RecordsOf(s, "package")) + 1)
  <1>1. PICK x, y : document' = p :> x @@ CaseEvent(s, p) :> y @@ document
    BY Zenon DEF CreateCaseExportPackage, Commit, Step
  <1>2. p \notin DOMAIN document
    BY NextPackage
  <1> HIDE DEF p
  <1>3. Free(p) /\ Free(CaseEvent(s, p))
    BY <1>2, NewOfCase DEF Free
  <1> QED BY <1>1, <1>3, FreeSpares, Stands2

LEMMA CasesStand ==
  ASSUME Shapes, StandInv, CaseInv, NEW c \in Calls, CasesNext(c)
  PROVE  Stands
  <1>1. \/ \E source : ReadCaseSource(c, source)
        \/ CreateCase(c)
        \/ \E s :
              \/ CloseCase(s)
              \/ \E i : StartLegalHold(s, i)
              \/ \E i, assigned : CreateReviewTask(s, i, assigned)
              \/ \E i : CreateParty(s, i)
              \/ \E i, source, target : CreateRelationship(s, i, source, target)
              \/ \E over : SetRetentionPolicy(s, over)
              \/ ExportReadiness(c, s)
              \/ \E request : AppendChainEvent(s, request)
        \/ \E d :
             \/ /\ d \in Kind("reviewTask")
                /\ \E request, type : type \in DOMAIN ReviewTaskExpected
                     /\ AppendReviewTaskEvent(d, request, type)
             \/ /\ d \in Kind("party") \cup Kind("relationship")
                /\ \E request : \/ AppendCaseGraphEvent(d, request)
                                \/ UpdateCasePartyProfile(d, request)
             \/ /\ d \in Kind("hold")
                /\ \E request : ReleaseLegalHold(d, request)
             \/ /\ d \in Kind("retention")
                /\ \E request, over : AssessDisposition(d, request, over)
        \/ CreateCaseExportPackage(c)
    BY ZenonT(60) DEF CasesNext
  <1>2. ASSUME \/ \E source : ReadCaseSource(c, source)
               \/ \E s : ExportReadiness(c, s)
        PROVE  Stands
    BY <1>2, ReadStands, Zenon DEF ReadCaseSource, ExportReadiness
  <1> QED
    BY <1>1, <1>2, CaseCreatedStands, PackageStands, CreatesStand, AppendsStand,
       Zenon

\* An object is promoted, and bound, where there is none.
LEMMA UploadsStand ==
  ASSUME Shapes, StandInv, UploadsInv, NEW c \in Calls, UploadsNext(c)
  PROVE  Stands
  <1>1. /\ \A s : Free(Uploads(s))
        /\ \A s, r : Free(UploadSession(s, r))
        /\ \A u : Free(Staged(u))
        /\ \A u \in Kind("uploadSession") : Free(u)
    BY UploadsNames, KindIs, OpenFree DEF OpenKinds
  <1>2. ASSUME NEW a, NEW x, NEW next, Step(c, a :> x, next), Free(a)
        PROVE  Stands
    BY <1>2, FreeSpares, StandsAll DEF Step
  <1>3. ASSUME NEW a, NEW x, NEW b, NEW y, NEW next,
               Step(c, a :> x @@ b :> y, next), Free(a), Free(b)
        PROVE  Stands
    <2>1. SparesAll(a :> x @@ b :> y) /\ document' = (a :> x @@ b :> y) @@ document
      BY <1>3, FreeSpares, SparesOver DEF Step
    <2> QED BY <2>1, StandsAll
  <1>4. ASSUME NEW next, Step(c, <<>>, next)
        PROVE  Stands
    BY <1>4, SparesNone, StandsAll DEF Step
  <1>5. ASSUME \/ \E s, r, over : ReadUploadSession(c, s, r, over)
               \/ \E u : ReadStagedObject(c, u)
        PROVE  Stands
    BY <1>5, ReadStands, Zenon DEF ReadUploadSession, ReadStagedObject
  <1>6. ASSUME CreateUploadSession(c)
        PROVE  Stands
    <2> DEFINE u == call[c].session
    <2>1. PICK x, y, next : Step(c, u :> x @@ Uploads(u[2]) :> y, next)
      BY <1>6, Zenon DEF CreateUploadSession, Commit
    <2>2. u = UploadSession(u[2], u[3])
      BY <1>6 DEF CreateUploadSession, UploadsInv, FinalizeIs
    <2> HIDE DEF u
    <2>3. Free(u)
      BY <1>1, <2>2
    <2> QED BY <1>1, <1>3, <2>1, <2>3
  <1>7. ASSUME NEW u \in Kind("uploadSession"),
               StageObject(u) \/ RemoveStaged(u) \/ SessionExpires(u)
        PROVE  Stands
    BY <1>1, <1>7, FreeStands, Zenon
    DEF StageObject, RemoveStaged, SessionExpires, FreeWrite
  <1>8. ASSUME ReservePromotion(c)
        PROVE  Stands
    <2> DEFINE u == call[c].session
    <2>1. \/ \E x, y, next : Step(c, u :> x @@ Uploads(u[2]) :> y, next)
          \/ \E next : Step(c, <<>>, next)
      BY <1>8, Zenon DEF ReservePromotion
    <2>2. u \in Kind("uploadSession")
      BY <1>8 DEF ReservePromotion, UploadsInv, FinalizeIs
    <2> HIDE DEF u
    <2> QED BY <1>1, <1>3, <1>4, <2>1, <2>2
  <1>9. ASSUME PromoteObject(c)
        PROVE  Stands
    <2> DEFINE u == call[c].session
    <2>1. \/ \E x, next : /\ ~Exists(Permanent(u))
                          /\ Step(c, Permanent(u) :> x, next)
          \/ \E next : Step(c, <<>>, next)
      BY <1>9, Zenon DEF PromoteObject
    <2> HIDE DEF u
    <2> QED BY <1>2, <1>4, <2>1 DEF Exists, Free
  <1>10. ASSUME BindObject(c)
         PROVE  Stands
    <2> DEFINE u == call[c].session
               o == EvidenceObject(u)
    <2>1. PICK x, y, z, t :
            document' = o :> x @@ CaseEvent(u[2], o) :> y @@ u :> z
                        @@ Uploads(u[2]) :> t @@ document
      BY <1>10, Zenon DEF BindObject, Commit, Step
    <2>2. o \notin DOMAIN document
      BY <1>10 DEF BindObject, Exists
    <2>3. u \in Kind("uploadSession")
      BY <1>10 DEF BindObject, UploadsInv, FinalizeIs
    <2> HIDE DEF u, o
    <2>4. Free(o) /\ Free(CaseEvent(u[2], o)) /\ Free(u)
      BY <1>1, <2>2, <2>3, NewOfCase DEF Free
    <2> QED BY <1>1, <2>1, <2>4, FreeSpares, Stands4
  <1> QED
    BY <1>5, <1>6, <1>7, <1>8, <1>9, <1>10, Zenon DEF UploadsNext

\* A write of no package, and of no event of a case but with what it tells of.
Tells(w) ==
    \A d \in DOMAIN w :
      /\ KindOf(d) # "package"
      /\ KindOf(d) = "caseEvent" => d[3] \in DOMAIN w /\ KindOf(d[3]) \in Subjects

LEMMA TellsNone == Tells(<<>>)
  BY DEF Tells

LEMMA TellsPut ==
  ASSUME NEW a, KindOf(a) \notin {"caseEvent", "package"}, NEW x
  PROVE  Tells(a :> x)
  BY DEF Tells, :>

LEMMA TellsOver ==
  ASSUME NEW f, NEW g, Tells(f), Tells(g)
  PROVE  Tells(f @@ g)
  BY DEF Tells, @@

LEMMA TellsEvent ==
  ASSUME NEW e, KindOf(e) \in {"recordEvent", "evidenceObject", "caseFile"}, NEW s,
         NEW z, NEW u
  PROVE  Tells(e :> z @@ CaseEvent(s, e) :> u)
  <1>1. CaseEvent(s, e)[3] = e /\ KindOf(CaseEvent(s, e)) = "caseEvent"
    BY CasesNames DEF CaseEvent
  <1> QED BY <1>1 DEF Tells, :>, @@, Subjects

LEMMA RecordsTell ==
  ASSUME NEW d, KindOf(d) \in ChainKinds, NEW type, NEW x
  PROVE  /\ Tells(Opened(d, type, x))
         /\ \A request : Tells(Appended(d, request, type, x))
  <1>1. \A y, u, z, r :
          Tells(d :> y @@ RecordEvent(d, r) :> u
                @@ CaseEvent(d[2], RecordEvent(d, r)) :> z)
    <2> TAKE y, u, z, r
    <2>1. Tells(d :> y)
      BY TellsPut DEF ChainKinds
    <2>2. Tells(RecordEvent(d, r) :> u @@ CaseEvent(d[2], RecordEvent(d, r)) :> z)
      BY CasesNames, TellsEvent
    <2> QED BY <2>1, <2>2, TellsOver, OverOver
  <1>2. \E y, u, z, r : Opened(d, type, x) =
          d :> y @@ RecordEvent(d, r) :> u
          @@ CaseEvent(d[2], RecordEvent(d, r)) :> z
    BY Zenon DEF Opened
  <1>3. ASSUME NEW request
        PROVE  \E y, u, z, r : Appended(d, request, type, x) =
                 d :> y @@ RecordEvent(d, r) :> u
                 @@ CaseEvent(d[2], RecordEvent(d, r)) :> z
    BY Zenon DEF Appended
  <1> QED BY <1>1, <1>2, <1>3

LEMMA CaseTells ==
  ASSUME NEW s
  PROVE  /\ \A count : Tells(Held(s, count))
         /\ \A retained : Tells(Projected(s, retained))
         /\ \A x : Tells(CaseFile(s) :> x)
         /\ \A x, y, z : Tells(CaseFile(s) :> x @@ EvidenceRef(s) :> y
                               @@ CaseEvent(s, CaseFile(s)) :> z)
  <1>1. \A x : Tells(CaseFile(s) :> x) /\ Tells(EvidenceRef(s) :> x)
    BY CasesNames, TellsPut
  <1>2. ASSUME NEW x
        PROVE  /\ \E y : Held(s, x) = CaseFile(s) :> y
               /\ \E y : Projected(s, x) = CaseFile(s) :> y
    BY Zenon DEF Held, Projected
  <1>3. ASSUME NEW x, NEW y, NEW z
        PROVE  Tells(CaseFile(s) :> x @@ EvidenceRef(s) :> y
                     @@ CaseEvent(s, CaseFile(s)) :> z)
    <2>1. /\ KindOf(CaseFile(s)) = "caseFile" /\ KindOf(EvidenceRef(s)) = "evidenceRef"
          /\ KindOf(CaseEvent(s, CaseFile(s))) = "caseEvent"
          /\ CaseEvent(s, CaseFile(s))[3] = CaseFile(s)
      BY CasesNames DEF CaseEvent
    <2> QED BY <2>1 DEF Tells, :>, @@, Subjects
  <1> QED BY <1>1, <1>2, <1>3

\* Some write that tells.
WriteTells == \E w : Tells(w) /\ document' = w @@ document

LEMMA CasesTell ==
  ASSUME Shapes, NEW c \in Calls, CasesNext(c), ~CreateCaseExportPackage(c)
  PROVE  WriteTells
  <1>1. ASSUME NEW w, Tells(w), Transact(w)
        PROVE  WriteTells
    BY <1>1 DEF Transact, WriteTells
  <1>2. /\ \A s, i : /\ KindOf(LegalHold(s, i)) \in ChainKinds
                     /\ KindOf(ReviewTask(s, i)) \in ChainKinds
                     /\ KindOf(Party(s, i)) \in ChainKinds
                     /\ KindOf(Relationship(s, i)) \in ChainKinds
                     /\ KindOf(EvidenceRef(s)) \in ChainKinds
                     /\ KindOf(RetentionRecord(s)) \in ChainKinds
        /\ \A k \in ChainKinds : \A d \in Kind(k) : KindOf(d) \in ChainKinds
    BY CasesNames, KindIs DEF ChainKinds
  <1>3. ASSUME \/ \E source : ReadCaseSource(c, source)
               \/ \E s : ExportReadiness(c, s)
        PROVE  WriteTells
    <2>1. PICK next : Read(c, next)
      BY <1>3, Zenon DEF ReadCaseSource, ExportReadiness
    <2> QED BY <2>1, TellsNone DEF Read, Claim, WriteTells
  <1>4. ASSUME CreateCase(c)
        PROVE  WriteTells
    <2>1. PICK s, w : /\ \E x, y, z : w = CaseFile(s) :> x @@ EvidenceRef(s) :> y
                                          @@ CaseEvent(s, CaseFile(s)) :> z
                      /\ Commit(c, w)
      BY <1>4, Zenon DEF CreateCase
    <2> QED BY <2>1, CaseTells DEF Commit, Step, WriteTells
  <1>5. ASSUME NEW s, CloseCase(s)
        PROVE  WriteTells
    <2>1. PICK x : Transact(CaseFile(s) :> x)
      BY <1>5, Zenon DEF CloseCase
    <2> QED BY <1>1, <2>1, CaseTells
  <1>6. ASSUME NEW d, KindOf(d) \in ChainKinds,
               \E type, x, r : \/ Transact(Opened(d, type, x))
                               \/ Transact(Appended(d, r, type, x))
        PROVE  WriteTells
    BY <1>1, <1>6, RecordsTell
  <1>7. ASSUME NEW d, KindOf(d) \in ChainKinds, NEW s,
               \E type, x, r, y :
                 \/ Transact(Opened(d, type, x) @@ Held(s, y))
                 \/ Transact(Appended(d, r, type, x) @@ Held(s, y))
                 \/ Transact(Opened(d, type, x) @@ Projected(s, y))
                 \/ Transact(Appended(d, r, type, x) @@ Projected(s, y))
        PROVE  WriteTells
    BY <1>1, <1>7, RecordsTell, CaseTells, TellsOver
  <1>8. ASSUME NEW s,
               \/ \E i, assigned : CreateReviewTask(s, i, assigned)
               \/ \E i : CreateParty(s, i)
               \/ \E i, source, target : CreateRelationship(s, i, source, target)
               \/ \E request : AppendChainEvent(s, request)
        PROVE  WriteTells
    BY <1>2, <1>6, <1>8, Zenon
    DEF CreateReviewTask, CreateParty, CreateRelationship, AppendChainEvent
  <1>9. ASSUME NEW s,
               (\E i : StartLegalHold(s, i)) \/ (\E over : SetRetentionPolicy(s, over))
        PROVE  WriteTells
    BY <1>2, <1>7, <1>9, Zenon DEF StartLegalHold, SetRetentionPolicy
  <1>10. ASSUME NEW d, KindOf(d) \in ChainKinds, NEW request,
                \/ \E type : AppendReviewTaskEvent(d, request, type)
                \/ AppendCaseGraphEvent(d, request)
                \/ UpdateCasePartyProfile(d, request)
         PROVE  WriteTells
    BY <1>6, <1>10, Zenon
    DEF AppendReviewTaskEvent, AppendCaseGraphEvent, UpdateCasePartyProfile
  <1>11. ASSUME NEW d, KindOf(d) \in ChainKinds, NEW request,
                \/ ReleaseLegalHold(d, request)
                \/ \E over : AssessDisposition(d, request, over)
         PROVE  WriteTells
    BY <1>7, <1>11, Zenon DEF ReleaseLegalHold, AssessDisposition
  <1>12. {"reviewTask", "party", "relationship", "hold", "retention"} \subseteq ChainKinds
    BY DEF ChainKinds
  <1>13. \/ \E source : ReadCaseSource(c, source)
         \/ CreateCase(c)
         \/ \E s :
              \/ CloseCase(s)
              \/ \E i : StartLegalHold(s, i)
              \/ \E i, assigned : CreateReviewTask(s, i, assigned)
              \/ \E i : CreateParty(s, i)
              \/ \E i, source, target : CreateRelationship(s, i, source, target)
              \/ \E over : SetRetentionPolicy(s, over)
              \/ ExportReadiness(c, s)
              \/ \E request : AppendChainEvent(s, request)
         \/ \E d, request :
              \/ d \in Kind("reviewTask")
                   /\ \E type : AppendReviewTaskEvent(d, request, type)
              \/ /\ d \in Kind("party") \/ d \in Kind("relationship")
                 /\ \/ AppendCaseGraphEvent(d, request)
                    \/ UpdateCasePartyProfile(d, request)
              \/ d \in Kind("hold") /\ ReleaseLegalHold(d, request)
              \/ d \in Kind("retention")
                   /\ \E over : AssessDisposition(d, request, over)
    <2>1. \A d : d \in Kind("party") \cup Kind("relationship") =>
                   d \in Kind("party") \/ d \in Kind("relationship")
      OBVIOUS
    <2> QED BY <2>1, ZenonT(60) DEF CasesNext
  <1>14. ASSUME NEW d, NEW request,
                \/ d \in Kind("reviewTask")
                     /\ \E type : AppendReviewTaskEvent(d, request, type)
                \/ /\ d \in Kind("party") \/ d \in Kind("relationship")
                   /\ \/ AppendCaseGraphEvent(d, request)
                      \/ UpdateCasePartyProfile(d, request)
                \/ d \in Kind("hold") /\ ReleaseLegalHold(d, request)
                \/ d \in Kind("retention")
                     /\ \E over : AssessDisposition(d, request, over)
         PROVE  WriteTells
    <2>1. KindOf(d) \in ChainKinds
      BY <1>2, <1>12, <1>14
    <2> QED BY <1>10, <1>11, <1>14, <2>1, Zenon
  <1> QED
    BY <1>3, <1>4, <1>5, <1>8, <1>9, <1>13, <1>14, Zenon

LEMMA UploadsTell ==
  ASSUME Shapes, NEW c \in Calls, UploadsNext(c)
  PROVE  WriteTells
  <1> DEFINE v == call[c].session
  <1>1. call[c].pc \in UploadsPcs => KindOf(v) = "uploadSession"
    BY DEF Shapes, Shape, UploadsCall
  <1>2. /\ \A u \in Kind("uploadSession") : KindOf(u) = "uploadSession"
        /\ \A d, x : KindOf(d) = "uploadSession" => Tells(d :> x)
        /\ \A s, x : Tells(Uploads(s) :> x)
        /\ \A u, x : Tells(Staged(u) :> x) /\ Tells(Permanent(u) :> x)
    BY KindIs, UploadsNames, TellsPut
  <1>3. ASSUME NEW w, NEW next, Tells(w), Step(c, w, next)
        PROVE  WriteTells
    BY <1>3 DEF Step, WriteTells
  <1>4. ASSUME \/ \E s, r, over : ReadUploadSession(c, s, r, over)
               \/ \E u : ReadStagedObject(c, u)
        PROVE  WriteTells
    <2>1. PICK next : Read(c, next)
      BY <1>4, Zenon DEF ReadUploadSession, ReadStagedObject
    <2> QED BY <2>1, TellsNone DEF Read, Claim, WriteTells
  <1>5. ASSUME NEW u \in Kind("uploadSession"),
               StageObject(u) \/ RemoveStaged(u) \/ SessionExpires(u)
        PROVE  WriteTells
    <2>1. PICK d, x : Tells(d :> x) /\ Transact(d :> x)
      BY <1>2, <1>5 DEF StageObject, RemoveStaged, SessionExpires
    <2> QED BY <2>1 DEF Transact, WriteTells
  <1>6. ASSUME CreateUploadSession(c) \/ ReservePromotion(c)
        PROVE  WriteTells
    <2>1. KindOf(v) = "uploadSession"
      BY <1>1, <1>6, UploadsNames DEF CreateUploadSession, ReservePromotion
    <2>2. \/ \E x, y, next : Step(c, v :> x @@ Uploads(v[2]) :> y, next)
          \/ \E next : Step(c, <<>>, next)
      BY <1>6, Zenon DEF CreateUploadSession, ReservePromotion, Commit
    <2> HIDE DEF v
    <2> QED BY <1>2, <1>3, <2>1, <2>2, TellsOver, TellsNone
  <1>7. ASSUME PromoteObject(c)
        PROVE  WriteTells
    <2>1. \/ \E x, next : Step(c, Permanent(v) :> x, next)
          \/ \E next : Step(c, <<>>, next)
      BY <1>7, Zenon DEF PromoteObject
    <2> HIDE DEF v
    <2> QED BY <1>2, <1>3, <2>1, TellsNone
  <1>8. ASSUME BindObject(c)
        PROVE  WriteTells
    <2>1. KindOf(v) = "uploadSession"
      BY <1>1, <1>8, UploadsNames DEF BindObject
    <2> DEFINE o == EvidenceObject(v)
    <2>2. PICK x, y, z, t, next :
            Step(c, o :> x @@ CaseEvent(v[2], o) :> y @@ v :> z
                    @@ Uploads(v[2]) :> t, next)
      BY <1>8, Zenon DEF BindObject, Commit
    <2>3. Tells(o :> x @@ CaseEvent(v[2], o) :> y)
      BY UploadsNames, TellsEvent
    <2> HIDE DEF v, o
    <2>4. Tells(o :> x @@ CaseEvent(v[2], o) :> y @@ v :> z @@ Uploads(v[2]) :> t)
      BY <1>2, <2>1, <2>3, TellsOver
    <2> QED BY <1>3, <2>2, <2>4
  <1> QED BY <1>4, <1>5, <1>6, <1>7, <1>8, Zenon DEF UploadsNext

\* What a step keeps of the invariant.
LEMMA EventsKept ==
  ASSUME Shapes, Shapes', StandInv,
         \A d \in DOMAIN document : KindOf(d) \in Subjects => d \in DOMAIN document',
         \A d \in DOMAIN document' : KindOf(d) = "caseEvent" =>
           d \in DOMAIN document \/ CaseEventIs(d)'
  PROVE  \A d \in Kind("caseEvent")' : CaseEventIs(d)'
  <1> SUFFICES ASSUME NEW d \in Kind("caseEvent")', d \in DOMAIN document
               PROVE  CaseEventIs(d)'
    <2>1. \A d \in Kind("caseEvent")' : d \in DOMAIN document' /\ KindOf(d) = "caseEvent"
      BY DEF Kind, KindOf, Shapes
    <2> QED BY <2>1
  <1>1. d \in Kind("caseEvent")
    BY DEF Kind
  <1>2. CaseEventIs(d)
    BY <1>1 DEF StandInv
  <1> QED BY <1>2 DEF CaseEventIs

LEMMA PackagesKept ==
  ASSUME Shapes, Shapes', StandInv, \A d : KindOf(d) = "package" => Same(d)
  PROVE  \A s : PackagesAre(s)'
  <1>1. Kind("package")' = Kind("package")
    BY KindSame
  <1>2. \A s : RecordsOf(s, "package")' = RecordsOf(s, "package")
    BY <1>1 DEF RecordsOf
  <1> QED BY <1>2 DEF StandInv, PackagesAre

LEMMA TwinRecordsKept ==
  ASSUME Shapes, Shapes', StandInv, \A d : KindOf(d) = "twinRecord" => Same(d)
  PROVE  Numbered("twinRecord")'
  <1>1. Kind("twinRecord")' = Kind("twinRecord")
    BY KindSame
  <1> QED BY <1>1 DEF StandInv, Numbered

LEMMA ControlsKept ==
  ASSUME Shapes, Shapes', StandInv, \A d : KindOf(d) = "control" => Same(d)
  PROVE  \A d \in Kind("control")' : ControlIs(d)'
  <1>1. /\ Kind("control")' = Kind("control")
        /\ \A d \in Kind("control") : document'[d] = document[d]
    BY KindKept
  <1> QED BY <1>1 DEF StandInv, ControlIs

StandKinds == {"twinRecord", "control", "caseEvent"} \cup Subjects

LEMMA StandKept ==
  ASSUME Shapes, Shapes', StandInv, NEW kinds, Leaves(kinds),
         kinds \cap StandKinds = {}
  PROVE  StandInv'
  <1>1. \A d : KindOf(d) \in StandKinds => Same(d)
    BY DEF Leaves
  <1>2. \A d \in Kind("caseEvent")' : CaseEventIs(d)'
    BY <1>1, EventsKept DEF StandKinds, Same
  <1>3. \A d : KindOf(d) \in {"twinRecord", "control", "package"} => Same(d)
    BY <1>1 DEF StandKinds, Subjects
  <1> QED
    BY <1>2, <1>3, PackagesKept, TwinRecordsKept, ControlsKept DEF StandInv

\* What tells keeps it.
LEMMA TellingKeeps ==
  ASSUME Shapes, Shapes', StandInv, WriteTells,
         \A d : KindOf(d) \in {"twinRecord", "control"} => Same(d)
  PROVE  StandInv'
  <1>1. PICK w : Tells(w) /\ document' = w @@ document
    BY DEF WriteTells
  <1>2. Grows
    BY <1>1, OverGrows
  <1>3. \A d : KindOf(d) = "package" => Same(d)
    BY <1>1 DEF Tells, Same, @@
  <1>4. ASSUME NEW d \in DOMAIN document', KindOf(d) = "caseEvent",
               d \notin DOMAIN document
        PROVE  CaseEventIs(d)'
    BY <1>1, <1>4 DEF Tells, CaseEventIs, @@
  <1>5. \A d \in Kind("caseEvent")' : CaseEventIs(d)'
    BY <1>2, <1>4, EventsKept DEF Grows
  <1> QED BY <1>3, <1>5, PackagesKept, TwinRecordsKept, ControlsKept DEF StandInv

LEMMA PackageKeeps ==
  ASSUME Shapes, Shapes', StandInv, NEW c \in Calls, CreateCaseExportPackage(c)
  PROVE  StandInv'
  <1> DEFINE s == call[c].source
             packages == RecordsOf(s, "package")
             i == Cardinality(packages) + 1
             p == Package(s, i)
             e == CaseEvent(s, p)
  <1>1. PICK x, y : document' = p :> x @@ e :> y @@ document
    BY Zenon DEF CreateCaseExportPackage, Commit, Step
  <1>2. /\ KindOf(p) = "package" /\ KindOf(e) = "caseEvent" /\ e[3] = p
        /\ p[2] = s /\ p[3] = i
    BY CasesNames DEF CaseEvent, Package
  <1>3. p \notin DOMAIN document
    BY NextPackage
  <1>4. /\ p = Package(s, i) /\ i = Cardinality(packages) + 1
        /\ packages = RecordsOf(s, "package")
    OBVIOUS
  <1> HIDE DEF s, p, e, i, packages
  <1>5. /\ p \in DOMAIN document' /\ e \in DOMAIN document'
        /\ \A d : d # p /\ d # e => Same(d)
        /\ Grows
    <2>1. p # e
      BY <1>2
    <2>2. Grows
      BY <1>1 DEF Grows, @@
    <2> QED BY <1>1, <2>1, <2>2, Write2
  <1>6. \A d \in Kind("caseEvent")' : CaseEventIs(d)'
    <2>1. ASSUME NEW d \in DOMAIN document', KindOf(d) = "caseEvent",
                 d \notin DOMAIN document
          PROVE  CaseEventIs(d)'
      BY <1>2, <1>5, <2>1 DEF CaseEventIs, Same, Subjects
    <2> QED BY <1>5, <2>1, EventsKept DEF Grows
  <1>7. Kind("package")' = Kind("package") \cup {p}
    BY <1>2, <1>5, KindWith
  <1>8. ASSUME NEW u
        PROVE  PackagesAre(u)'
    <2>1. CASE u # s
      <3>1. RecordsOf(u, "package")' = RecordsOf(u, "package")
        BY <1>2, <1>7, <2>1 DEF RecordsOf
      <3> QED BY <3>1 DEF StandInv, PackagesAre
    <2>2. CASE u = s
      <3>1. RecordsOf(u, "package")' = packages \cup {p}
        BY <1>2, <1>4, <1>7, <2>2 DEF RecordsOf
      <3>2. p \notin packages
        BY <1>3, <1>4 DEF RecordsOf, Kind
      <3>3. /\ IsFiniteSet(packages)
            /\ \A q \in packages : /\ q = Package(s, q[3])
                                   /\ q[3] \in 1 .. Cardinality(packages)
        BY <1>4 DEF StandInv, PackagesAre
      <3>4. /\ IsFiniteSet(packages \cup {p}) /\ Cardinality(packages) \in Nat
            /\ Cardinality(packages \cup {p}) = i
        BY <1>4, <3>2, <3>3, FS_AddElement, FS_CardinalityType
      <3>5. \A q \in packages \cup {p} : q = Package(s, q[3]) /\ q[3] \in 1 .. i
        BY <1>2, <1>4, <3>3, <3>4
      <3> QED BY <2>2, <3>1, <3>4, <3>5 DEF PackagesAre
    <2> QED BY <2>1, <2>2
  <1>9. \A d : KindOf(d) \in {"twinRecord", "control"} => Same(d)
    BY <1>2, <1>5
  <1> QED BY <1>6, <1>8, <1>9, TwinRecordsKept, ControlsKept DEF StandInv

LEMMA TwinRecordsKeep ==
  ASSUME Shapes, Shapes', StandInv, CounterfeitTwinsNext
  PROVE  StandInv'
  <1>1. Leaves(TwinsKinds)
    BY TwinsTouches DEF Touches
  <1>2. /\ \A d : KindOf(d) \in {"control", "package", "caseEvent"} \cup Subjects
                  => Same(d)
    BY <1>1 DEF Leaves, TwinsKinds, Subjects
  <1>3. Numbered("twinRecord")'
    <2>1. ASSUME NEW code, NEW status, CreateCounterfeitTwinRecord(code, status)
          PROVE  Numbered("twinRecord")'
      <3> DEFINE r == TwinRecord(NextOf("twinRecord"))
      <3>1. PICK x : document' = r :> x @@ document
        BY <2>1, Zenon DEF CreateCounterfeitTwinRecord, Transact
      <3>2. KindOf(r) = "twinRecord" /\ r = <<"twinRecord", NextOf("twinRecord")>>
        BY TwinsNames DEF TwinRecord
      <3> HIDE DEF r
      <3>3. Kind("twinRecord")' = Kind("twinRecord") \cup {r}
        BY <3>1, <3>2, Write1, KindWith
      <3> QED BY <3>2, <3>3, NumberedAdded DEF StandInv
    <2>2. ASSUME NEW d, NEW x, Transact(d :> x),
                 d \in DOMAIN document \/ KindOf(d) # "twinRecord"
          PROVE  Numbered("twinRecord")'
      <3>1. Kind("twinRecord")' = Kind("twinRecord")
        BY <2>2, InKind DEF Transact, Kind, KindOf, Shapes, @@, :>
      <3> QED BY <3>1 DEF StandInv, Numbered
    <2>3. ASSUME \/ \E images : SubmitCounterfeitTwinReport(images)
                 \/ \E r \in Kind("twinReport") :
                      \/ \E decision, approved :
                           ReviewCounterfeitTwinReport(r, decision, approved)
                      \/ DeleteCounterfeitTwinReport(r)
          PROVE  Numbered("twinRecord")'
      <3>1. Leaves({"twinReport", "comparison", "reportDeletion"})
        <4> DEFINE K == {"twinReport", "comparison", "reportDeletion"}
        <4>1. /\ KindOf(NewReport) \in K
              /\ \A i : KindOf(Comparison(i)) \in K /\ KindOf(Deletion(i)) \in K
              /\ \A r \in Kind("twinReport") : KindOf(r) \in K
          BY TwinsNames, KindIs DEF NewReport
        <4> HIDE DEF K
        <4>2. ASSUME NEW a, NEW x, KindOf(a) \in K, Transact(a :> x)
              PROVE  Leaves(K)
          BY <4>2, Leaves1 DEF Transact
        <4>3. ASSUME NEW a, NEW x, NEW b, NEW y, KindOf(a) \in K, KindOf(b) \in K,
                     Transact(a :> x @@ b :> y)
              PROVE  Leaves(K)
          BY <4>3, Leaves2 DEF Transact
        <4>4. ASSUME NEW r \in Kind("twinReport"), DeleteCounterfeitTwinReport(r)
              PROVE  Leaves(K)
          <5>1. PICK i, x : document' = Deletion(i) :> x
                              @@ [d \in DOMAIN document \ {r} |-> document[d]]
            BY <4>4, Zenon DEF DeleteCounterfeitTwinReport, TransactDeleting
          <5>2. \A d : d # Deletion(i) /\ d # r => Same(d)
            BY <5>1 DEF Same, @@, :>
          <5> QED BY <4>1, <5>2 DEF Leaves
        <4>5. ASSUME NEW images, SubmitCounterfeitTwinReport(images)
              PROVE  Leaves(K)
          BY <4>1, <4>2, <4>5, Zenon DEF SubmitCounterfeitTwinReport
        <4>6. ASSUME NEW r \in Kind("twinReport"), NEW decision, NEW approved,
                     ReviewCounterfeitTwinReport(r, decision, approved)
              PROVE  Leaves(K)
          BY <4>1, <4>2, <4>3, <4>6, Zenon DEF ReviewCounterfeitTwinReport
        <4> QED BY <2>3, <4>4, <4>5, <4>6 DEF K
      <3>2. \A d : KindOf(d) = "twinRecord" => Same(d)
        BY <3>1 DEF Leaves
      <3> QED BY <3>2, TwinRecordsKept
    <2>4. ASSUME NEW d \in Kind("twinRecord"), NEW status,
                 UpdateCounterfeitTwinRecord(d, status)
          PROVE  Numbered("twinRecord")'
      <3>1. \E x : Transact(d :> x)
        BY <2>4, Zenon DEF UpdateCounterfeitTwinRecord
      <3> QED BY <2>2, <3>1 DEF Kind
    <2> QED BY <2>1, <2>3, <2>4, Zenon DEF CounterfeitTwinsNext
  <1>4. \A d \in Kind("caseEvent")' : CaseEventIs(d)'
    BY <1>2, EventsKept DEF Same
  <1>5. \A d : KindOf(d) \in {"control", "package"} => Same(d)
    BY <1>2
  <1> QED BY <1>3, <1>4, <1>5, ControlsKept, PackagesKept DEF StandInv

LEMMA ControlsKeep ==
  ASSUME Shapes, Shapes', StandInv, SupplySecurityNext
  PROVE  StandInv'
  <1>1. Leaves(SupplyKinds)
    BY SupplyTouches DEF Touches
  <1>2. \A d : KindOf(d) \in {"twinRecord", "package", "caseEvent"} \cup Subjects
                 => Same(d)
    BY <1>1 DEF Leaves, SupplyKinds, Subjects
  <1>3. \A d \in Kind("caseEvent")' : CaseEventIs(d)'
    BY <1>2, EventsKept DEF Same
  <1>4. \A d \in Kind("control")' : ControlIs(d)'
    <2>1. ASSUME NEW a, NEW x, document' = a :> x @@ document,
                 x = [f \in DOMAIN x |-> x[f]] \/ KindOf(a) # "control"
          PROVE  \A d \in Kind("control")' : ControlIs(d)'
      <3> SUFFICES ASSUME NEW d \in Kind("control")'
                   PROVE  ControlIs(d)'
        OBVIOUS
      <3>1. d \in DOMAIN document' /\ KindOf(d) = "control"
        BY DEF Kind, KindOf, Shapes
      <3>2. CASE d = a
        BY <2>1, <3>1, <3>2, Write1 DEF ControlIs
      <3>3. CASE d # a
        <4>1. Same(d)
          BY <2>1, <3>3, Write1
        <4>2. d \in Kind("control")
          BY <3>1, <4>1, InKind DEF Same
        <4> QED BY <4>1, <4>2 DEF Same, StandInv, ControlIs, Kind
      <3> QED BY <3>2, <3>3
    <2>2. ASSUME NEW d, NEW status, Withdraw(d, status),
                 d \in Kind("control") \/ KindOf(d) # "control"
          PROVE  \A e \in Kind("control")' : ControlIs(e)'
      <3> DEFINE x == [document[d] EXCEPT !.status = status]
      <3>1. document' = d :> x @@ document
        BY <2>2 DEF Withdraw, Transact
      <3>2. x = [f \in DOMAIN x |-> x[f]]
        OBVIOUS
      <3> HIDE DEF x
      <3> QED BY <2>1, <3>1, <3>2
    <2>3. ASSUME \/ \E partner : CreateTarget(partner)
                 \/ \E i, partner, facility :
                      CreateSupplyProductionAsset(i, partner, facility)
                 \/ \E d \in Kind("asset") : \E partner, facility :
                      UpdateSupplyProductionAsset(d, partner, facility)
          PROVE  \A d \in Kind("control")' : ControlIs(d)'
      <3>1. /\ \A i : /\ KindOf(Partner(i)) # "control"
                      /\ KindOf(Facility(i)) # "control"
                      /\ KindOf(ProductionAsset(i)) # "control"
            /\ \A d \in Kind("asset") : KindOf(d) # "control"
        BY KindIs DEF KindOf, Proper, Partner, Facility, ProductionAsset
      <3>2. PICK a, x : KindOf(a) # "control" /\ Transact(a :> x)
        BY <2>3, <3>1, Zenon
        DEF CreateTarget, CreateSupplyProductionAsset, UpdateSupplyProductionAsset
      <3> QED BY <2>1, <3>2 DEF Transact
    <2>4. ASSUME \/ \E i, partner, facility :
                      CreateSupplyProtectionControl(i, partner, facility)
                 \/ \E d, status, failed, corrected, partner, facility :
                      UpdateSupplyProtectionControl(d, status, failed, corrected,
                                                    partner, facility)
          PROVE  \A d \in Kind("control")' : ControlIs(d)'
      <3>1. PICK a, status, failed, corrected, partner, facility :
              Transact(a :> [status |-> status, failed |-> failed,
                             corrected |-> corrected, partner |-> partner,
                             facility |-> facility])
        BY <2>4, Zenon
        DEF CreateSupplyProtectionControl, UpdateSupplyProtectionControl
      <3> DEFINE x == [status |-> status, failed |-> failed,
                       corrected |-> corrected, partner |-> partner,
                       facility |-> facility]
      <3>2. document' = a :> x @@ document
        BY <3>1 DEF Transact
      <3>3. x = [f \in DOMAIN x |-> x[f]]
        OBVIOUS
      <3> HIDE DEF x
      <3> QED BY <2>1, <3>2, <3>3
    <2>5. ASSUME NEW d \in UNION {Kind(k) : k \in {"partner", "facility", "control"}}
          PROVE  d \in Kind("control") \/ KindOf(d) # "control"
      BY KindIs
    <2>6. ASSUME NEW d \in Kind("asset")
          PROVE  KindOf(d) # "control"
      BY KindIs
    <2> QED
      BY <2>2, <2>3, <2>4, <2>5, <2>6, Zenon DEF SupplySecurityNext
  <1>5. \A d : KindOf(d) \in {"twinRecord", "package"} => Same(d)
    BY <1>2
  <1> QED BY <1>3, <1>4, <1>5, TwinRecordsKept, PackagesKept DEF StandInv

LEMMA StandStep ==
  ASSUME Shapes, Shapes', StandInv, [PlatformNext]_documentVars
  PROVE  StandInv'
  <1> DEFINE Apart(kinds) == kinds \cap StandKinds = {}
  <1>1. \A kinds \in {WorkspaceKinds, DetectiveKinds, RiskKinds, SponsorKinds,
                      LaboratoriesKinds, TraceabilityKinds, PriorityKinds,
                      BrandKinds, {}} : Apart(kinds)
    BY DEF WorkspaceKinds, DetectiveKinds, RiskKinds, SponsorKinds,
       LaboratoriesKinds, TraceabilityKinds, PriorityKinds, BrandKinds,
       StandKinds, Subjects
  <1> HIDE DEF Apart
  <1>2. \/ \E c \in Calls : CasesNext(c) /\ Leaves(CasesKinds)
        \/ \E c \in Calls : UploadsNext(c) /\ Leaves(UploadsKinds)
        \/ CounterfeitTwinsNext
        \/ SupplySecurityNext
        \/ \E kinds : Leaves(kinds) /\ Apart(kinds)
    BY <1>1, Stepped DEF Touches
  <1>3. ASSUME NEW kinds, Leaves(kinds), Apart(kinds)
        PROVE  StandInv'
    BY <1>3, StandKept DEF Apart
  <1>4. ASSUME NEW c \in Calls, CasesNext(c), Leaves(CasesKinds)
        PROVE  StandInv'
    <2>1. \A d : KindOf(d) \in {"twinRecord", "control"} => Same(d)
      BY <1>4 DEF Leaves, CasesKinds
    <2> QED BY <1>4, <2>1, PackageKeeps, CasesTell, TellingKeeps
  <1>5. ASSUME NEW c \in Calls, UploadsNext(c), Leaves(UploadsKinds)
        PROVE  StandInv'
    <2>1. \A d : KindOf(d) \in {"twinRecord", "control"} => Same(d)
      BY <1>5 DEF Leaves, UploadsKinds
    <2> QED BY <1>5, <2>1, UploadsTell, TellingKeeps
  <1> QED BY <1>2, <1>3, <1>4, <1>5, TwinRecordsKeep, ControlsKeep

LEMMA StandInit == DocumentsInit => StandInv
  <1> SUFFICES ASSUME DocumentsInit
               PROVE  StandInv
    OBVIOUS
  <1>1. \A k : Kind(k) = {}
    BY DEF DocumentsInit, Kind
  <1>2. \A s : RecordsOf(s, "package") = {}
    BY <1>1 DEF RecordsOf
  <1> QED BY <1>1, <1>2, FS_EmptySet DEF StandInv, Numbered, PackagesAre

\* What the components know, that what they write is new or has not ended.
EndInv ==
    /\ Shapes /\ TraceInv /\ TwinInv /\ PriorityInv /\ RegistryInv /\ BrandInv
    /\ CaseInv /\ UploadsInv /\ StandInv

LEMMA EndInit == DocumentsInit => EndInv
  <1> SUFFICES ASSUME DocumentsInit
               PROVE  EndInv
    OBVIOUS
  <1>1. \A k : Kind(k) = {}
    BY DEF DocumentsInit, Kind
  <1>2. \A k : Numbered(k)
    BY <1>1, FS_EmptySet DEF Numbered
  <1>3. TraceInv /\ TwinInv /\ PriorityInv /\ BrandInv
    BY <1>1, <1>2, FS_EmptySet
    DEF TraceInv, TwinInv, PriorityInv, BrandInv, BrandsApproved
  <1>4. RegistryInv
    BY <1>1, FS_EmptySet DEF RegistryInv, RegistryAudits, Entities
  <1> QED BY <1>3, <1>4, CaseInit, UploadsInit, StandInit DEF EndInv

LEMMA EndStep ==
  ASSUME EndInv, [PlatformNext]_documentVars
  PROVE  EndInv'
  <1>1. Shapes /\ Shapes' /\ UNCHANGED budget
    BY ShapesStep, BudgetStays DEF EndInv
  <1>2. TraceInv' /\ TwinInv' /\ PriorityInv' /\ RegistryInv' /\ BrandInv'
    BY <1>1, TraceStep, TwinStep, PriorityStep, RegistryStep, BrandStep DEF EndInv
  <1>3. CaseInv' /\ UploadsInv' /\ StandInv'
    BY <1>1, CaseStep, UploadsStep, StandStep DEF EndInv
  <1> QED BY <1>1, <1>2, <1>3 DEF EndInv

LEMMA StandsStep ==
  ASSUME EndInv, [PlatformNext]_documentVars
  PROVE  Stands
  <1>1. /\ Shapes /\ TraceInv /\ TwinInv /\ PriorityInv /\ RegistryInv /\ BrandInv
        /\ CaseInv /\ UploadsInv /\ StandInv
    BY DEF EndInv
  <1>2. \/ \E c \in Calls : \/ WorkspaceNext(c) \/ DetectiveNext(c) \/ RiskNext(c)
                            \/ CasesNext(c) \/ UploadsNext(c) \/ SponsorNext(c)
        \/ LaboratoriesNext \/ TraceabilityNext \/ CounterfeitTwinsNext
        \/ IpPriorityNext \/ SupplySecurityNext \/ BrandOnboardingNext
        \/ Touches({}, {})
    BY <1>1, Stepped, Zenon
  <1>3. ASSUME Touches({}, {})
        PROVE  Stands
    BY <1>1, <1>3, OpenStands DEF Touches
  <1>4. ASSUME NEW c \in Calls,
               \/ WorkspaceNext(c) \/ DetectiveNext(c) \/ RiskNext(c)
               \/ CasesNext(c) \/ UploadsNext(c) \/ SponsorNext(c)
        PROVE  Stands
    BY <1>1, <1>4, WorkspaceStands, DetectiveStands, RiskStands, CasesStand,
       UploadsStand, SponsorStands
  <1> QED
    BY <1>1, <1>2, <1>3, <1>4, LaboratoriesStands, TraceabilityStands, TwinsStand,
       PriorityStands, SupplyStands, BrandStands

\* What is written once stays, and a record that has ended stays as it is,
\* whatever the callables do that had read it before: each of them writes
\* what is new, or what it finds not to have ended in its own transaction.
THEOREM EndedStay == PlatformSpec => EndedStands
  <1> DEFINE A == \A d \in DOMAIN document :
                    Ended(d) => d \in DOMAIN document' /\ document'[d] = document[d]
  <1>1. DocumentsInit => EndInv
    BY EndInit
  <1>2. EndInv /\ [PlatformNext]_documentVars => EndInv' /\ [A]_documentVars
    <2> SUFFICES ASSUME EndInv, [PlatformNext]_documentVars
                 PROVE  EndInv' /\ A
      OBVIOUS
    <2>1. EndInv' /\ Stands
      BY EndStep, StandsStep
    <2> QED BY <2>1 DEF Stands, Same
  <1> QED BY <1>1, <1>2, PTL DEF PlatformSpec, EndedStands
=============================================================================
