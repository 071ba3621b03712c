---------------------------- MODULE EventJournal ----------------------------
(***************************************************************************)
(* The append-only history that the customs services keep of an entity.    *)
(* A journal puts together what is stored apart: count and last are the    *)
(* fields eventCount and lastEventId of the entity document, events are    *)
(* the event documents, each with its sequence and previousEventId.  The   *)
(* document id of an event is derived from the request it records, so that *)
(* a repeated request finds it.                                            *)
(*                                                                         *)
(* An event id is <<request, part>>: a request that records several events *)
(* tells them apart by a suffix.                                           *)
(***************************************************************************)
EXTENDS Naturals, FiniteSets

NoEvent == <<0, "none">>

EmptyJournal ==
    [count |-> 0, last |-> NoEvent, events |-> [id \in {} |-> {}]]

Recorded(journal, id) == id \in DOMAIN journal.events

\* The event document and the two fields of the entity, in one transaction.
Append1(journal, id) ==
    LET event == [sequence |-> journal.count + 1, previous |-> journal.last]
    IN [count |-> journal.count + 1, last |-> id,
        events |-> [i \in DOMAIN journal.events \cup {id} |->
                      IF i = id THEN event ELSE journal.events[i]]]

\* The parts of one request, recorded in order in one transaction.
Append2(journal, id1, id2) == Append1(Append1(journal, id1), id2)
Append3(journal, id1, id2, id3) == Append1(Append2(journal, id1, id2), id3)

\* What the detail view calls verified, and more: the events are as many as
\* the entity counts, numbered without a gap, each pointing to the one
\* before, and the entity points to the last.
WholeJournal(journal) ==
    LET Ids == DOMAIN journal.events IN
    /\ journal.count = Cardinality(Ids)
    /\ {journal.events[id].sequence : id \in Ids} = 1 .. journal.count
    /\ \A id \in Ids :
         IF journal.events[id].sequence = 1
         THEN journal.events[id].previous = NoEvent
         ELSE \E before \in Ids :
                /\ journal.events[id].previous = before
                /\ journal.events[before].sequence + 1
                     = journal.events[id].sequence
    /\ IF Ids = {} THEN journal.last = NoEvent
       ELSE /\ journal.last \in Ids
            /\ journal.events[journal.last].sequence = journal.count

\* The requests an entity has recorded; a client's next one bears the next
\* number, for only the identity of a request matters.  The events of
\* generated artifacts are numbered elsewhere.
Requests(journal) ==
    {id[1] : id \in {id \in DOMAIN journal.events : id[2] # "artifact"}}
SentRequests(journal, bound) ==
    LET next == Cardinality(Requests(journal)) + 1 IN
    1 .. IF next < bound THEN next ELSE bound
=============================================================================
