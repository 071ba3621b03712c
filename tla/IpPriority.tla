----------------------------- MODULE IpPriority -----------------------------
(***************************************************************************)
(* The priority register of creations: a draft, whose first version may be *)
(* changed until it is sealed, and the chain of sealed versions after it,  *)
(* each of which names the hash of the one before; and the numbers that    *)
(* the owners of the register have.                                        *)
(***************************************************************************)
EXTENDS DocumentStore

CONSTANTS
    RecordCodes,   \* normalized codes of the records
    Contents,      \* contents of a version
    Owners,        \* users
    OwnerNumbers   \* the numbers that may be drawn

Creation(i) == <<"creation", i>>
CreationVersion(i) == <<"creationVersion", i>>
OwnerIdentity(u) == <<"registryOwner", u>>
OwnerNumber(n) == <<"ownerNumber", n>>

\* The hash of what it is made of, that of no other.
versionHash(creation, number, content, previous, previousHash) ==
    <<creation, number, content, previous, previousHash>>

NoHash == <<>>

-----------------------------------------------------------------------------
RecordCodeTaken(code) == \E d \in Kind("creation") : document[d].code = code

CreateIpCreationPriorityDraft(code, content) ==
    LET creation == Creation(NextOf("creation"))
        version == CreationVersion(NextOf("creationVersion"))
    IN
    /\ ~RecordCodeTaken(code)
    /\ Transact(
         creation :> [code |-> code, status |-> "draft", seal |-> "unsealed",
                      current |-> 1, active |-> version]
         @@ version :> [creation |-> creation, number |-> 1,
                        content |-> content, seal |-> "unsealed",
                        previous |-> <<>>, previousHash |-> NoHash,
                        hash |-> NoHash])

\* Mutant of UnsealedDraft: the seal is not looked at.
UnsealedDraftOpen(d, v) ==
    document[d].active = v /\ document[v].number = 1

\* The first version v of an unsealed record.
UnsealedDraft(d, v) ==
    /\ document[d].status = "draft" /\ document[d].seal = "unsealed"
    /\ document[d].active = v
    /\ document[v].creation = d /\ document[v].number = 1
    /\ document[v].seal = "unsealed"

UpdateIpCreationPriorityDraft(d, v, content) ==
    /\ UnsealedDraft(d, v)
    /\ Transact(v :> [document[v] EXCEPT !.content = content])

SealIpCreationPriorityRecord(d, v) ==
    /\ UnsealedDraft(d, v) /\ document[d].current = 1
    /\ Transact(
         v :> [document[v] EXCEPT
                 !.seal = "sealed",
                 !.hash = versionHash(d, 1, document[v].content,
                                     <<>>, NoHash)]
         @@ d :> [document[d] EXCEPT !.status = "sealed", !.seal = "sealed"])

\* After the active version of a record that is not archived.
Continued(d) ==
    LET v == document[d].active IN
    /\ document[d].status # "archived" /\ document[d].seal # "unsealed"
    /\ document[v].creation = d /\ document[v].number = document[d].current
    /\ document[v].seal # "unsealed" /\ document[v].hash # NoHash

CreateIpCreationPriorityVersion(d, content) ==
    LET previous == document[d].active
        number == document[d].current + 1
        hash == document[previous].hash
        version == CreationVersion(NextOf("creationVersion"))
    IN
    /\ Continued(d)
    /\ Transact(
         version :> [creation |-> d, number |-> number, content |-> content,
                     seal |-> "sealed", previous |-> previous,
                     previousHash |-> hash,
                     hash |-> versionHash(d, number, content, previous, hash)]
         @@ d :> [document[d] EXCEPT !.status = "developing",
                                     !.current = number, !.active = version])

\* External: a record is archived.
ArchiveCreation(d) ==
    Transact(d :> [document[d] EXCEPT !.status = "archived"])

-----------------------------------------------------------------------------
\* A number is drawn before each attempt; one that is taken is drawn again,
\* and an owner who has one is answered with it.
EnsureIpCreationRegistryOwnerIdentity(u, n) ==
    /\ ~Exists(OwnerIdentity(u)) /\ ~Exists(OwnerNumber(n))
    /\ Transact(OwnerIdentity(u) :> [number |-> n]
                @@ OwnerNumber(n) :> [owner |-> u])

IpPriorityNext ==
    \/ /\ Room("creation") /\ Room("creationVersion")
       /\ \E code \in RecordCodes, content \in Contents :
            CreateIpCreationPriorityDraft(code, content)
    \/ \E d \in Kind("creation") :
         \/ \E v \in Kind("creationVersion") :
              \/ \E content \in Contents :
                   UpdateIpCreationPriorityDraft(d, v, content)
              \/ SealIpCreationPriorityRecord(d, v)
         \/ \E content \in Contents :
              Room("creationVersion")
                /\ CreateIpCreationPriorityVersion(d, content)
         \/ Bound("archive") = 1 /\ ArchiveCreation(d)
    \/ \E u \in Owners, n \in OwnerNumbers :
         Room("registryOwner") /\ EnsureIpCreationRegistryOwnerIdentity(u, n)

-----------------------------------------------------------------------------
VersionsOf(d) == {v \in Kind("creationVersion") : document[v].creation = d}

\* What proves priority: the hash of a sealed version is that of its content
\* as it is, and of the sealed version before; the versions of a record are
\* one chain, up to the active one; and the code of a record and the number
\* of an owner are nobody else's.
PriorityChained ==
    /\ \A v \in Kind("creationVersion") :
         LET x == document[v] IN
         /\ x.seal = "sealed" <=> x.hash # NoHash
         /\ x.seal = "sealed" =>
              x.hash = versionHash(x.creation, x.number, x.content,
                                   x.previous, x.previousHash)
         /\ x.number > 1 =>
              /\ document[x.previous].creation = x.creation
              /\ document[x.previous].number = x.number - 1
              /\ document[x.previous].hash = x.previousHash
    /\ \A d \in Kind("creation") :
         /\ Cardinality(VersionsOf(d)) = document[d].current
         /\ {document[v].number : v \in VersionsOf(d)}
              = 1 .. document[d].current
         /\ document[document[d].active].number = document[d].current
         /\ document[d].active \in VersionsOf(d)
    /\ \A x, y \in Kind("creation") : document[x].code = document[y].code => x = y
    /\ \A u \in Kind("registryOwner") :
         document[OwnerNumber(document[u].number)].owner = u[2]
=============================================================================
