--------------------------- MODULE SponsorContent ---------------------------
(***************************************************************************)
(* The sponsors that the platform shows.  An administrator's upsert stores *)
(* the new logo first, writes the record, and then deletes the logo that   *)
(* the record had before; a call that is cut off leaves a file behind.     *)
(* One instance serves the callable, many requests at a time.              *)
(***************************************************************************)
EXTENDS DocumentStore

Sponsor(i) == <<"sponsor", i>>
SponsorEvent(i) == <<"sponsorEvent", i>>
Logo(i) == <<"logo", i>>

NoFile == <<>>
Stored(file) == file # NoFile /\ document[file].stored

\* What a form may say: whether a file comes with it, and otherwise the URL it
\* shows, that of a stored file or none.
UploadSponsorLogo(c, d) ==
    LET file == Logo(NextOf("logo")) IN
    Claim(c, file :> [stored |-> TRUE],
          [pc |-> "sponsor", record |-> d, uploaded |-> file, url |-> NoFile])

NoUpload(c, d, url) ==
    Read(c, [pc |-> "sponsor", record |-> d, uploaded |-> NoFile,
             url |-> url])

Before(d) == IF Exists(d) THEN document[d].path ELSE NoFile

\* A URL keeps the file if it is the record's own; another is not looked into.
PathAfter(x) ==
    IF x.uploaded # NoFile THEN x.uploaded
    ELSE IF x.url # NoFile /\ Exists(x.record)
              /\ document[x.record].url = x.url
      THEN document[x.record].path
    ELSE NoFile

UrlAfter(x) == IF x.uploaded # NoFile THEN x.uploaded ELSE x.url

Reopened(d, status) ==
    Exists(d) /\ document[d].status = "archived" /\ status # "archived"

WriteSponsor(c, status) ==
    LET x == call[c] IN
    /\ x.pc = "sponsor" /\ ~Reopened(x.record, status)
    /\ Step(c,
         x.record :> [status |-> status, url |-> UrlAfter(x),
                      path |-> PathAfter(x)]
         @@ SponsorEvent(NextOf("sponsorEvent")) :>
              [record |-> x.record,
               type |-> IF Exists(x.record) THEN "updated" ELSE "created"],
         [pc |-> "sponsorDone", before |-> Before(x.record),
          after |-> PathAfter(x)])

\* The transaction refuses, since an archived sponsor is not opened again, or
\* fails for another reason: the logo that was stored for it goes.
RefuseSponsor(c) ==
    LET x == call[c] IN
    /\ x.pc = "sponsor"
    /\ Commit(c, IF x.uploaded = NoFile THEN <<>>
                 ELSE x.uploaded :> [stored |-> FALSE])

Replaced(x) == x.before # NoFile /\ x.before # x.after

DeleteReplacedLogo(c) ==
    /\ call[c].pc = "sponsorDone"
    /\ Commit(c, IF Replaced(call[c])
                 THEN call[c].before :> [stored |-> FALSE] ELSE <<>>)

SponsorNext(c) ==
    \/ \E i \in Chosen("sponsor") :
         \/ Room("logo") /\ UploadSponsorLogo(c, Sponsor(i))
         \/ \E url \in Kind("logo") \cup {NoFile} : NoUpload(c, Sponsor(i), url)
    \/ \E status \in {"active", "archived"} :
         Room("sponsorEvent") /\ WriteSponsor(c, status)
    \/ RefuseSponsor(c)
    \/ DeleteReplacedLogo(c)

-----------------------------------------------------------------------------
\* The logo file that a sponsor's record names is there, and it is named by
\* that record alone, however upserts interleave and wherever they are cut
\* off.  (The URL of a record may be that of a file that is gone.)
LogosStored ==
    \A d \in Kind("sponsor") :
        LET path == document[d].path IN
        path # NoFile =>
          /\ Stored(path) /\ document[d].url = path
          /\ \A e \in Kind("sponsor") : document[e].path = path => e = d
=============================================================================
