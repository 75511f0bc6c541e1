------------------------ MODULE KVStoreContent_proofs ------------------------
(***************************************************************************)
(* Theorems about the blobs of a container, for any number of calls,       *)
(* chunks, processes and versions, as long as GUIDs do not repeat: what    *)
(* they hold, which of them may be missing, and, when nothing fails, that  *)
(* none is left behind and that a call gives up only when beaten.          *)
(***************************************************************************)
EXTENDS KVStoreWrite_proofs

-----------------------------------------------------------------------------
(* The steps of the calls, by their effects: what the call is told, and    *)
(* whether it survives that, is left to the labels it may go to.           *)

Defeats == Outcomes \ {"returned"}

Moves(c, labels) == pc'[c] \in labels /\ OthersPc(c)

Fetched(c) ==
  /\ pc[c] = "properties"
  /\ props' = [props EXCEPT ![c] = [etag     |-> blobs[Name(c)].etag,
                                    metadata |-> blobs[Name(c)].metadata]]
  /\ existing' = [existing EXCEPT ![c] = blobs[Name(c)].metadata.versions]
  /\ UNCHANGED <<blobs, chunk, guid>>

Skipped(c) ==
  /\ pc[c] = "update" /\ OverCapacity(c)
  /\ existing' = [existing EXCEPT ![c] = Tail(@)]
  /\ UNCHANGED <<blobs, chunk, props, guid>>

Effect(c) ==
  \/ FirstVersionUploaded(c) /\ Moves(c, Outcomes \cup {"properties"})
  \/ Fetched(c) /\ Moves(c, {"uploadGuid"})
  \/ GuidBlobUploaded(c) /\ Moves(c, {"update"} \cup Defeats)
  \/ OldestDeleted(c) /\ Moves(c, {"update"} \cup Defeats)
  \/ Skipped(c) /\ Moves(c, {"update"})
  \/ /\ VersionsUpdated(c)
     /\ Moves(c, Outcomes \cup {"refetch"})
     /\ "resend" \notin FaultKinds => pc'[c] \in Outcomes
  \/ Refetch(c)

(* Steps without an effect on the container, the lists and the GUIDs.      *)
Waits(d) ==
  pc'[d] # pc[d] =>
    \/ pc[d] = "idle" /\ pc'[d] = "upload"
    \/ pc[d] = "upload" /\ pc'[d] = "properties"
    \/ pc[d] = "properties" /\ pc'[d] = "returned"
    \/ pc[d] = "update" /\ ~ETagMatches(d) /\ pc'[d] = "refetch"
    \/ pc[d] \in Requests /\ pc'[d] \in Defeats

NoEffect ==
  /\ UNCHANGED <<blobs, chunk, props, existing, guid>>
  /\ \A d \in Calls : Waits(d)

LEMMA Throws ==
  ASSUME TypeOK, NEW c \in Calls, InFlight(c),
         StorageException(c) \/ Goto(c, "threw")
  PROVE  Moves(c, Defeats)
<1>1. CASE Goto(c, "threw")
  BY <1>1, GotoPc DEF Moves, Defeats, Outcomes
<1>2. CASE StorageException(c) /\ AssertsEnabled
  BY <1>2 DEF StorageException, ProcessDies, InFlight, Moves, Defeats, Outcomes,
     OthersPc
<1>3. CASE StorageException(c) /\ ~AssertsEnabled
  BY <1>3, GotoPc DEF StorageException, Moves, Defeats, Outcomes
<1> QED
  BY <1>1, <1>2, <1>3

(* Of the others nobody but a running call of the same process is moved.   *)
LEMMA OthersWait ==
  ASSUME TypeOK, NEW c \in Calls, InFlight(c),
         StorageException(c) \/ PreconditionFailed(c)
           \/ \E label : Goto(c, label)
  PROVE  \A d \in Calls \ {c} : Waits(d)
<1>1. ASSUME NEW label, Goto(c, label)
      PROVE  \A d \in Calls \ {c} : Waits(d)
  BY <1>1, GotoPc DEF TypeOK, Goto, Waits
<1>2. ASSUME NEW s, ProcessDies(s)
      PROVE  \A d \in Calls \ {c} : Waits(d)
  BY <1>2 DEF ProcessDies, InFlight, Waits, Defeats, Outcomes
<1>3. CASE StorageException(c)
  BY <1>1, <1>2, <1>3 DEF StorageException
<1> QED
  BY <1>1, <1>3 DEF PreconditionFailed

LEMMA GivesUpOrRefetches ==
  ASSUME TypeOK, NEW c \in Calls, InFlight(c), PreconditionFailed(c)
  PROVE  Moves(c, {"refetch"} \cup Defeats)
<1>1. CASE StorageException(c)
  BY <1>1, Throws DEF Moves
<1>2. CASE Goto(c, "refetch")
  BY <1>2, GotoPc DEF Moves
<1> QED
  BY <1>1, <1>2 DEF PreconditionFailed

LEMMA CallShape ==
  ASSUME TypeOK, NEW c \in Calls, WriteAsync(c) \/ CallStep(c)
  PROVE  NoEffect \/ Effect(c)
<1>1. CASE WriteAsync(c)
  BY <1>1 DEF WriteAsync, NoEffect, Waits, Goto, TypeOK
<1>2. CASE UploadFirstVersion(c)
  <2>1. CASE FirstVersionUploaded(c) /\ Goto(c, "returned")
    BY <2>1, GotoPc DEF Effect, Moves, Outcomes
  <2>2. CASE /\ pc[c] = "upload" /\ Goto(c, "properties")
             /\ UNCHANGED <<blobs, chunk, props, existing, guid, retry>>
    BY <2>2 DEF NoEffect, Waits, Goto, TypeOK
  <2> QED
    BY <1>2, <2>1, <2>2 DEF UploadFirstVersion
<1>3. CASE CheckVersions(c)
  <2>1. CASE UNCHANGED <<props, existing>> /\ Goto(c, "returned")
    BY <1>3, <2>1 DEF CheckVersions, NoEffect, Waits, Goto, TypeOK
  <2>2. CASE ~(UNCHANGED <<props, existing>> /\ Goto(c, "returned"))
    <3>1. Fetched(c) /\ Goto(c, "uploadGuid")
      BY <1>3, <2>2 DEF CheckVersions, Fetched
    <3> QED
      BY <3>1, GotoPc DEF Effect, Moves
  <2> QED
    BY <2>1, <2>2
<1>4. CASE UploadGuidBlob(c)
  BY <1>4, GotoPc DEF UploadGuidBlob, Effect, Moves
<1>5. CASE EvictOldest(c)
  <2>1. OldestDeleted(c) /\ pc' = pc /\ pc[c] = "update"
    BY <1>5 DEF EvictOldest, OldestDeleted
  <2> QED
    BY <2>1 DEF Effect, Moves, OthersPc
<1>6. CASE UpdateMetadata(c)
  <2>1. CASE VersionsUpdated(c) /\ Goto(c, "returned")
    BY <2>1, GotoPc DEF Effect, Moves, Outcomes
  <2>2. CASE /\ pc[c] = "update" /\ ~ETagMatches(c) /\ PreconditionFailed(c)
             /\ UNCHANGED <<blobs, chunk, props, existing, guid>>
    <3>1. InFlight(c)
      BY <2>2 DEF InFlight, Requests
    <3>2. Moves(c, {"refetch"} \cup Defeats)
      BY <2>2, <3>1, GivesUpOrRefetches
    <3>3. \A d \in Calls \ {c} : Waits(d)
      BY <2>2, <3>1, OthersWait
    <3>4. Waits(c)
      BY <2>2, <3>2 DEF Waits, Moves, Requests
    <3> QED
      BY <2>2, <3>3, <3>4 DEF NoEffect
  <2> QED
    BY <1>6, <2>1, <2>2 DEF UpdateMetadata
<1>7. CASE Refetch(c)
  BY <1>7 DEF Effect
<1> QED
  BY <1>1, <1>2, <1>3, <1>4, <1>5, <1>6, <1>7 DEF CallStep

LEMMA FaultShape ==
  ASSUME TypeOK, NEW c \in Calls,
         RequestFails(c) \/ AnswerLost(c) \/ RequestResent(c)
  PROVE  NoEffect \/ Effect(c)
<1>1. CASE RequestFails(c)
  <2>1. CASE /\ StorageException(c) \/ Goto(c, "threw")
             /\ UNCHANGED existing
    <3>1. InFlight(c)
      BY <1>1 DEF RequestFails
    <3>2. Moves(c, Defeats) /\ \A d \in Calls \ {c} : Waits(d)
      BY <2>1, <3>1, Throws, OthersWait
    <3>3. Waits(c)
      BY <3>1, <3>2 DEF Waits, Moves, InFlight
    <3> QED
      BY <1>1, <2>1, <3>2, <3>3 DEF NoEffect, RequestFails
  <2>2. CASE /\ Deleting(c) /\ existing' = [existing EXCEPT ![c] = Tail(@)]
             /\ UNCHANGED pc
    BY <1>1, <2>2
       DEF RequestFails, Deleting, Skipped, Effect, Moves, OthersPc
  <2> QED
    BY <1>1, <2>1, <2>2 DEF RequestFails
<1>2. CASE AnswerLost(c)
  <2>1. CASE OldestDeleted(c) /\ Goto(c, "threw")
    BY <2>1, GotoPc DEF Effect, Moves, Defeats, Outcomes
  <2>2. CASE /\ \/ FirstVersionUploaded(c) \/ GuidBlobUploaded(c)
                \/ VersionsUpdated(c)
             /\ StorageException(c) \/ Goto(c, "threw")
    <3>1. InFlight(c)
      BY <2>2 DEF InFlight, Requests, FirstVersionUploaded, GuidBlobUploaded,
         VersionsUpdated
    <3>2. Moves(c, Defeats)
      BY <2>2, <3>1, Throws
    <3> QED
      BY <2>2, <3>2 DEF Effect, Moves, Defeats
  <2> QED
    BY <1>2, <2>1, <2>2 DEF AnswerLost
<1>3. CASE RequestResent(c)
  <2>1. "resend" \in FaultKinds
    BY <1>3 DEF RequestResent, Fault
  <2>2. CASE FirstVersionUploaded(c) /\ Goto(c, "properties")
    BY <2>2, GotoPc DEF Effect, Moves
  <2>3. CASE VersionsUpdated(c) /\ PreconditionFailed(c)
    <3>1. InFlight(c)
      BY <2>3 DEF InFlight, Requests, VersionsUpdated
    <3>2. Moves(c, {"refetch"} \cup Defeats)
      BY <2>3, <3>1, GivesUpOrRefetches
    <3> QED
      BY <2>1, <2>3, <3>2 DEF Effect, Moves, Defeats
  <2> QED
    BY <1>3, <2>2, <2>3 DEF RequestResent
<1> QED
  BY <1>1, <1>2, <1>3

LEMMA StepShape ==
  ASSUME TypeOK, [WriteNext]_vars
  PROVE  NoEffect \/ \E c \in Calls : Effect(c)
<1>1. CASE UNCHANGED vars
  BY <1>1 DEF vars, writeVars, NoEffect, Waits
<1>2. CASE \E s \in Servers : ServerCrash(s)
  BY <1>2 DEF ServerCrash, ProcessDies, NoEffect, Waits, InFlight, Defeats, Outcomes
<1> QED
  BY <1>1, <1>2, CallShape, FaultShape DEF WriteNext

-----------------------------------------------------------------------------
(* What the blobs hold.                                                    *)

Early == {"idle", "upload", "properties", "uploadGuid"}

(* Call c is the one that makes version v of the block n.                  *)
Owns(c, n, v) ==
  chunk[c].name = n /\ guid[c] \in Guids /\ v = VersionAt(c, guid[c])

(* GUIDs of different calls differ, and a call gets its own only once.     *)
GuidsApart ==
  /\ \A c, d \in Calls : guid[c] = guid[d] /\ guid[c] # NoGuid => c = d
  /\ \A c \in Calls : pc[c] \in Early => guid[c] = NoGuid

(* The blob at a GUID is what the call with this GUID has to write.        *)
Holds(b, ck) ==
  /\ b.buffer = ck.buffer
  /\ b.metadata.hash = ck.hash /\ b.metadata.parent = ck.parent

BlobsOwned ==
  \A g \in Guids :
    Exists(g) => \E c \in Calls : guid[c] = g /\ Holds(blobs[g], chunk[c])

(* Entries of lists, in the container or in a call, are of calls for the   *)
(* same block.                                                             *)
EntriesOwned ==
  /\ \A n \in BlobNames : \A v \in Listed(n) : \E c \in Calls : Owns(c, n, v)
  /\ \A d \in Calls : \A v \in Elements(existing[d]) :
       \E c \in Calls : Owns(c, Name(d), v)

ContentInv == GuidsApart /\ BlobsOwned /\ EntriesOwned

(* A GUID that is generated is nobody's.                                   *)
LEMMA GuidIsNew ==
  ASSUME FreshGuids, TypeOK, NEW c \in Calls, GuidBlobUploaded(c)
  PROVE  \E g \in Guids :
           /\ \A d \in Calls : guid[d] # g
           /\ guid' = [guid EXCEPT ![c] = g]
           /\ Upload(g, chunk[c])
           /\ existing' = [existing EXCEPT ![c] = Append(@, VersionAt(c, g))]
  BY DEF GuidBlobUploaded, GenerateGuid

(* Who owns a version owns it for good.                                    *)
LEMMA OwnsKept ==
  ASSUME FreshGuids, TypeOK, GuidsApart, NEW d \in Calls,
         NoEffect \/ Effect(d),
         NEW c \in Calls, NEW n, NEW v, Owns(c, n, v)
  PROVE  Owns(c, n, v)'
<1>1. chunk' = chunk
  BY DEF NoEffect, Effect, FirstVersionUploaded, Fetched, GuidBlobUploaded,
     OldestDeleted, Skipped, VersionsUpdated, Refetch
<1>2. CASE guid' = guid
  BY <1>1, <1>2 DEF Owns, VersionAt
<1>3. CASE GuidBlobUploaded(d)
  <2>1. guid[d] = NoGuid
    BY <1>3 DEF GuidBlobUploaded, GuidsApart, Early
  <2>2. c # d
    BY <2>1, WriteAssumptions DEF Owns
  <2>3. guid'[c] = guid[c]
    BY <1>3, <2>2, GuidIsNew DEF TypeOK
  <2> QED
    BY <1>1, <2>3 DEF Owns, VersionAt
<1> QED
  BY <1>2, <1>3 DEF NoEffect, Effect, FirstVersionUploaded, Fetched,
     OldestDeleted, Skipped, VersionsUpdated, Refetch

(* pc goes only forwards.                                                  *)
LEMMA EarlyBefore ==
  ASSUME TypeOK, NEW c \in Calls, NoEffect \/ Effect(c),
         NEW d \in Calls, pc'[d] \in Early
  PROVE  pc[d] \in Early
<1>1. CASE NoEffect
  BY <1>1 DEF NoEffect, Waits, Early, Defeats, Outcomes
<1>2. CASE Effect(c) /\ d = c
  <2>1. CASE FirstVersionUploaded(c)
    BY <1>2, <2>1 DEF FirstVersionUploaded, Early
  <2>2. CASE Fetched(c)
    BY <1>2, <2>2 DEF Fetched, Early
  <2>3. CASE Refetch(c)
    BY <1>2, <2>3, GotoPc DEF Refetch, Early, Defeats, Outcomes
  <2>4. CASE pc'[c] \in Outcomes \cup {"update", "refetch"} \cup Defeats
    BY <1>2, <2>4 DEF Early, Defeats, Outcomes
  <2> QED
    BY <1>2, <2>1, <2>2, <2>3, <2>4 DEF Effect, Moves
<1>3. CASE Effect(c) /\ d # c
  <2>1. pc'[d] \in {pc[d], "crashed"}
    BY <1>3, GotoPc DEF Effect, Moves, OthersPc, Refetch
  <2> QED
    BY <2>1 DEF Early
<1> QED
  BY <1>1, <1>2, <1>3

(* Every step but the upload of a GUID blob leaves the GUIDs alone.        *)
SameGuids == UNCHANGED <<chunk, guid>>

LEMMA GuidsApartKept ==
  ASSUME FreshGuids, TypeOK, GuidsApart, NEW c \in Calls, NoEffect \/ Effect(c)
  PROVE  /\ GuidsApart'
         /\ SameGuids \/ (GuidBlobUploaded(c) /\ Effect(c))
<1>1. SameGuids \/ (GuidBlobUploaded(c) /\ Moves(c, {"update"} \cup Defeats))
  BY DEF SameGuids, NoEffect, Effect, FirstVersionUploaded, Fetched,
     OldestDeleted, Skipped, VersionsUpdated, Refetch
<1>2. CASE SameGuids
  BY <1>2, EarlyBefore DEF SameGuids, GuidsApart
<1>3. CASE GuidBlobUploaded(c) /\ Moves(c, {"update"} \cup Defeats)
  <2>1. PICK g \in Guids : /\ \A d \in Calls : guid[d] # g
                          /\ guid' = [guid EXCEPT ![c] = g]
    BY <1>3, GuidIsNew
  <2>2. guid'[c] = g /\ \A d \in Calls \ {c} : guid'[d] = guid[d]
    BY <2>1 DEF TypeOK
  <2>3. pc'[c] \notin Early
    BY <1>3 DEF Moves, Early, Defeats, Outcomes
  <2> QED
    BY SMTT(20), <1>3, <2>1, <2>2, <2>3, EarlyBefore DEF GuidsApart, Effect
<1> QED
  BY <1>1, <1>2, <1>3 DEF Effect

(* The blobs at GUIDs change when one is uploaded or deleted, and only so. *)
LEMMA GuidBlobsKept ==
  ASSUME TypeOK, IndexInv, NEW c \in Calls, NoEffect \/ Effect(c),
         ~GuidBlobUploaded(c), NEW g \in Guids
  PROVE  blobs'[g] = blobs[g] \/ (OldestDeleted(c) /\ blobs'[g] = NoBlob)
<1>1. /\ blobs \in [Locations -> Blobs \cup {NoBlob}] /\ g \in Locations
      /\ Name(c) # g
  BY CallTypes, ContainerAssumption DEF TypeOK, ContainerTypeOK, Locations
<1>2. CASE UNCHANGED blobs
  BY <1>2
<1>3. CASE FirstVersionUploaded(c)
  BY <1>1, <1>3 DEF FirstVersionUploaded, Upload
<1>4. CASE VersionsUpdated(c)
  BY <1>1, <1>4 DEF VersionsUpdated, SetMetadata
<1>5. CASE OldestDeleted(c)
  BY <1>1, <1>5 DEF OldestDeleted, Delete
<1> QED
  BY <1>2, <1>3, <1>4, <1>5 DEF NoEffect, Effect, Fetched, Skipped, Refetch

LEMMA BlobsOwnedKept ==
  ASSUME FreshGuids, TypeOK, IndexInv, GuidsApart, BlobsOwned,
         NEW c \in Calls, NoEffect \/ Effect(c)
  PROVE  BlobsOwned'
<1> SUFFICES ASSUME NEW g \in Guids, Exists(g)'
             PROVE  \E d \in Calls :
                      guid'[d] = g /\ Holds(blobs'[g], chunk'[d])
  BY DEF BlobsOwned
<1>1. CASE ~GuidBlobUploaded(c)
  <2>1. blobs'[g] = blobs[g] /\ Exists(g)
    BY <1>1, GuidBlobsKept DEF Exists
  <2>2. UNCHANGED <<chunk, guid>>
    BY <1>1, GuidsApartKept DEF SameGuids
  <2> QED
    BY <2>1, <2>2 DEF BlobsOwned
<1>2. CASE GuidBlobUploaded(c)
  <2>1. PICK new \in Guids : /\ \A d \in Calls : guid[d] # new
                            /\ guid' = [guid EXCEPT ![c] = new]
                            /\ Upload(new, chunk[c])
    BY <1>2, GuidIsNew
  <2>2. chunk' = chunk
    BY <1>2 DEF GuidBlobUploaded
  <2>3. /\ blobs \in [Locations -> Blobs \cup {NoBlob}]
        /\ g \in Locations /\ new \in Locations
    BY DEF TypeOK, ContainerTypeOK, Locations
  <2>4. CASE g = new
    <3>1. Holds(blobs'[g], chunk[c])
      BY <2>1, <2>3, <2>4 DEF Upload, Holds
    <3> QED
      BY <2>1, <2>2, <2>4, <3>1 DEF TypeOK
  <2>5. CASE g # new
    <3>1. blobs'[g] = blobs[g] /\ Exists(g)
      BY <2>1, <2>3, <2>5 DEF Upload, Exists
    <3>2. PICK d \in Calls : guid[d] = g /\ Holds(blobs[g], chunk[d])
      BY <3>1 DEF BlobsOwned
    <3>3. d # c \/ guid[c] = NoGuid
      BY <1>2 DEF GuidBlobUploaded, GuidsApart, Early
    <3>4. guid'[d] = g
      BY <2>1, <3>2, <3>3, WriteAssumptions DEF TypeOK
    <3> QED
      BY <2>2, <3>1, <3>2, <3>4
  <2> QED
    BY <2>4, <2>5
<1> QED
  BY <1>1, <1>2

-----------------------------------------------------------------------------
(* What becomes of the lists.                                              *)

List(n) == blobs[n].metadata.versions

LEMMA ElementsOfAppend ==
  ASSUME NEW s \in Seq(Versions), NEW v \in Versions
  PROVE  Elements(Append(s, v)) = Elements(s) \cup {v}
<1>1. /\ Len(s) \in Nat /\ Len(Append(s, v)) = Len(s) + 1
      /\ Append(s, v)[Len(s) + 1] = v
      /\ \A i \in 1 .. Len(s) : Append(s, v)[i] = s[i]
  BY AppendProperties, LenProperties
<1>2. 1 .. Len(s) + 1 = (1 .. Len(s)) \cup {Len(s) + 1}
  BY <1>1
<1> QED
  BY <1>1, <1>2 DEF Elements

LEMMA ElementsOfTail ==
  ASSUME NEW s \in Seq(Versions), s # <<>>
  PROVE  /\ Head(s) = s[1] /\ 1 \in 1 .. Len(s)
         /\ Tail(s) \in Seq(Versions)
         /\ Len(Tail(s)) = Len(s) - 1
         /\ \A i \in 1 .. Len(s) - 1 : Tail(s)[i] = s[i + 1] /\ i + 1 \in 1 .. Len(s)
         /\ Elements(Tail(s)) \subseteq Elements(s)
<1>1. /\ Tail(s) \in Seq(Versions) /\ Len(Tail(s)) = Len(s) - 1
      /\ \A i \in 1 .. Len(s) - 1 : Tail(s)[i] = s[i + 1]
  BY HeadTailProperties
<1>2. Len(s) \in Nat /\ Len(s) # 0
  BY EmptySeq, LenProperties
<1>3. \A i \in 1 .. Len(s) - 1 : i + 1 \in 1 .. Len(s)
  BY <1>2
<1>4. Elements(Tail(s)) \subseteq Elements(s)
  BY <1>1, <1>3 DEF Elements
<1>5. 1 \in 1 .. Len(s) /\ Head(s) = s[1]
  BY <1>2
<1> QED
  BY <1>1, <1>3, <1>4, <1>5

LEMMA ListType ==
  ASSUME TypeOK, NEW n \in BlobNames, Exists(n)
  PROVE  List(n) \in Seq(Versions) /\ Listed(n) = Elements(List(n))
BY DEF TypeOK, ContainerTypeOK, Locations, Exists, Blobs, Metadata, List, Listed

(* The list of a block is replaced by the one a call holds, or stays.      *)
LEMMA ListChange ==
  ASSUME TypeOK, IndexInv, NEW c \in Calls, NoEffect \/ Effect(c),
         NEW n \in BlobNames, Exists(n)'
  PROVE  \/ blobs'[n] = blobs[n] /\ Exists(n)
         \/ FirstVersionUploaded(c) /\ n = Name(c) /\ List(n)' = <<>>
         \/ /\ VersionsUpdated(c) /\ n = Name(c) /\ Exists(n)
            /\ List(n)' = existing[c]
<1>1. /\ blobs \in [Locations -> Blobs \cup {NoBlob}] /\ n \in Locations
      /\ n \notin Guids
  BY ContainerAssumption DEF TypeOK, ContainerTypeOK, Locations
<1>2. CASE UNCHANGED blobs
  BY <1>2 DEF Exists
<1>3. CASE FirstVersionUploaded(c)
  BY <1>1, <1>3, CallTypes DEF FirstVersionUploaded, Upload, List, Exists
<1>4. CASE VersionsUpdated(c)
  <2>1. Exists(Name(c))
    BY <1>4, VersionsUpdatedStep
  <2> QED
    BY <1>1, <1>4, <2>1, CallTypes DEF VersionsUpdated, SetMetadata, List, Exists
<1>5. CASE GuidBlobUploaded(c)
  BY <1>1, <1>5 DEF GuidBlobUploaded, Upload, Exists
<1>6. CASE OldestDeleted(c)
  BY <1>1, <1>6, OldestDeletedStep DEF OldestDeleted, Delete, Exists
<1> QED
  BY <1>2, <1>3, <1>4, <1>5, <1>6 DEF NoEffect, Effect, Fetched, Skipped, Refetch

(* A call that fetches again has lost to another, so that the list is not  *)
(* empty and replaces the one the call holds.                              *)
LEMMA RefetchedList ==
  ASSUME TypeOK, IndexInv, NEW c \in Calls, Refetch(c)
  PROVE  /\ Exists(Name(c)) /\ guid[c] \in Guids
         /\ existing' = [existing EXCEPT ![c] =
                           Append(List(Name(c)), VersionAt(c, guid[c]))]
<1>1. /\ Exists(Name(c)) /\ guid[c] \in Guids
      /\ props[c].etag \in 1 .. blobs[Name(c)].etag /\ ~ETagMatches(c)
  BY DEF Refetch, IndexInv, CallInv, Requests
<1>2. blobs[Name(c)].etag > 1
  <2>1. blobs[Name(c)].etag \in Nat
    BY <1>1, CallTypes DEF Blobs
  <2> QED
    BY <1>1, <2>1 DEF ETagMatches
<1>3. blobs[Name(c)].metadata.versions # <<>>
  BY <1>1, <1>2, CallTypes DEF IndexInv, DefaultInv
<1> QED
  BY <1>1, <1>3 DEF Refetch, List

(* The list that a call holds: fetched, pushed to, or evicted from.        *)
LEMMA HeldChange ==
  ASSUME TypeOK, IndexInv, NEW c \in Calls, NoEffect \/ Effect(c), NEW d \in Calls
  PROVE  \/ existing'[d] = existing[d]
         \/ /\ d = c /\ Fetched(c) /\ Exists(Name(c))
            /\ existing'[c] = List(Name(c))
         \/ /\ d = c /\ GuidBlobUploaded(c) /\ guid'[c] \in Guids
            /\ existing'[c] = Append(existing[c], VersionAt(c, guid'[c]))
         \/ /\ d = c /\ pc[c] = "update" /\ OverCapacity(c)
            /\ OldestDeleted(c) \/ Skipped(c)
            /\ existing'[c] = Tail(existing[c])
         \/ /\ d = c /\ Refetch(c) /\ Exists(Name(c)) /\ guid[c] \in Guids
            /\ existing'[c] = Append(List(Name(c)), VersionAt(c, guid[c]))
<1>1. CASE UNCHANGED existing
  BY <1>1
<1>2. CASE Fetched(c)
  <2>1. Exists(Name(c))
    BY <1>2 DEF Fetched, IndexInv, CallInv, Requests
  <2> QED
    BY <1>2, <2>1 DEF Fetched, List, TypeOK
<1>3. CASE GuidBlobUploaded(c)
  BY <1>3, GuidBlobUploadedStep
<1>4. CASE OldestDeleted(c) \/ Skipped(c)
  BY <1>4 DEF OldestDeleted, Skipped, TypeOK
<1>5. CASE Refetch(c)
  BY <1>5, RefetchedList DEF TypeOK
<1> QED
  BY <1>1, <1>2, <1>3, <1>4, <1>5
     DEF NoEffect, Effect, FirstVersionUploaded, VersionsUpdated

LEMMA EntriesOwnedKept ==
  ASSUME FreshGuids, TypeOK, IndexInv, GuidsApart, GuidsApart', EntriesOwned,
         NEW c \in Calls, NoEffect \/ Effect(c)
  PROVE  EntriesOwned'
<1>1. chunk' = chunk /\ \A d \in Calls : Name(d)' = Name(d)
  BY GuidsApartKept DEF SameGuids, GuidBlobUploaded, Name
<1>2. ASSUME NEW n, NEW v, \E d \in Calls : Owns(d, n, v)
      PROVE  \E d \in Calls : Owns(d, n, v)'
  BY <1>2, OwnsKept
<1>3. ASSUME NEW n \in BlobNames, NEW v \in Listed(n)'
      PROVE  \E d \in Calls : Owns(d, n, v)'
  <2>1. Exists(n)' /\ v \in Elements(List(n)')
    BY DEF Listed, Elements, List
  <2>2. CASE blobs'[n] = blobs[n] /\ Exists(n)
    <3>1. v \in Listed(n)
      BY <2>1, <2>2 DEF Listed, List
    <3> QED
      BY <1>2, <3>1 DEF EntriesOwned
  <2>3. CASE List(n)' = <<>>
    BY <2>1, <2>3, EmptySeq DEF Elements
  <2>4. CASE n = Name(c) /\ List(n)' = existing[c]
    <3>1. v \in Elements(existing[c])
      BY <2>1, <2>4
    <3> QED
      BY <1>2, <2>4, <3>1 DEF EntriesOwned
  <2> QED
    BY <2>1, <2>2, <2>3, <2>4, ListChange
<1>4. ASSUME NEW d \in Calls, NEW n \in BlobNames, n = Name(d),
             NEW v \in Elements(existing'[d])
      PROVE  \E e \in Calls : Owns(e, n, v)'
  <2>1. ASSUME NEW u \in Elements(existing[d])
        PROVE  \E e \in Calls : Owns(e, n, u)'
    <3>1. \E e \in Calls : Owns(e, n, u)
      BY <1>4 DEF EntriesOwned
    <3> QED
      BY <1>2, <3>1
  <2>2. ASSUME Exists(n), NEW u \in Elements(List(n))
        PROVE  \E e \in Calls : Owns(e, n, u)'
    <3>1. u \in Listed(n)
      BY <2>2, ListType
    <3>2. \E e \in Calls : Owns(e, n, u)
      BY <3>1 DEF EntriesOwned
    <3> QED
      BY <1>2, <3>2
  <2>3. ASSUME d = c, NEW g \in Guids, g = guid'[c], NEW u, u = VersionAt(c, g)
        PROVE  \E e \in Calls : Owns(e, n, u)'
    <3>1. /\ chunk'[c].name = n /\ guid'[c] \in Guids
          /\ u = [hash |-> chunk'[c].hash, parent |-> chunk'[c].parent,
                  location |-> guid'[c]]
      BY <1>1, <1>4, <2>3 DEF VersionAt, Name
    <3> QED
      BY <3>1 DEF Owns, VersionAt
  <2>4. CASE existing'[d] = existing[d]
    BY <1>4, <2>1, <2>4
  <2>5. CASE Exists(n) /\ existing'[d] = List(n)
    BY <1>4, <2>2, <2>5
  <2>6. CASE /\ d = c /\ guid'[c] \in Guids
             /\ existing'[c] = Append(existing[c], VersionAt(c, guid'[c]))
    <3> DEFINE own == VersionAt(c, guid'[c])
    <3>1. own \in Versions /\ existing[c] \in Seq(Versions)
      BY <2>6, CallTypes DEF VersionAt, Versions, Locations
    <3>2. Elements(existing'[c]) = Elements(existing[c]) \cup {own}
      BY <2>6, <3>1, ElementsOfAppend
    <3>3. CASE v = own
      BY <2>3, <2>6, <3>3
    <3>4. CASE v \in Elements(existing[d])
      BY <2>1, <3>4
    <3> QED
      BY <1>4, <2>6, <3>2, <3>3, <3>4
  <2>7. CASE d = c /\ OverCapacity(c) /\ existing'[c] = Tail(existing[c])
    <3>1. existing[c] \in Seq(Versions) /\ existing[c] # <<>>
      BY <2>7, CallTypes, WriteAssumptions, EmptySeq DEF OverCapacity
    <3> QED
      BY <1>4, <2>1, <2>7, <3>1, ElementsOfTail
  <2>8. CASE /\ d = c /\ guid'[c] \in Guids /\ Exists(n)
             /\ existing'[c] = Append(List(n), VersionAt(c, guid'[c]))
    <3> DEFINE own == VersionAt(c, guid'[c])
    <3>1. own \in Versions /\ List(n) \in Seq(Versions)
      BY <2>8, CallTypes, ListType DEF VersionAt, Versions, Locations
    <3>2. Elements(existing'[c]) = Elements(List(n)) \cup {own}
      BY <2>8, <3>1, ElementsOfAppend
    <3>3. CASE v = own
      BY <2>3, <2>8, <3>3
    <3>4. CASE v \in Elements(List(n))
      BY <2>2, <2>8, <3>4
    <3> QED
      BY <1>4, <2>8, <3>2, <3>3, <3>4
  <2>9. Refetch(c) => guid' = guid
    BY DEF Refetch
  <2> QED
    BY <1>4, <2>4, <2>5, <2>6, <2>7, <2>8, <2>9, HeldChange
<1>5. ASSUME NEW d \in Calls, NEW v \in Elements(existing'[d])
      PROVE  (\E e \in Calls : Owns(e, Name(d), v))'
  <2>1. PICK n \in BlobNames : n = Name(d) /\ n = chunk'[d].name
    BY <1>1, CallTypes DEF Name
  <2>2. \E e \in Calls : Owns(e, n, v)'
    BY <1>4, <1>5, <2>1
  <2>3. PICK e \in Calls : /\ chunk'[e].name = n /\ guid'[e] \in Guids
                          /\ v = VersionAt(e, guid[e])'
    BY <2>2 DEF Owns
  <2> QED
    BY <2>1, <2>3 DEF Owns, Name
<1> QED
  BY <1>3, <1>5 DEF EntriesOwned, Elements

LEMMA InitContent == Init => ContentInv
<1> SUFFICES ASSUME Init
             PROVE  ContentInv
  OBVIOUS
<1>1. \A loc \in Locations : ~Exists(loc)
  BY DEF Init, ContainerInit, Exists
<1>2. GuidsApart
  BY DEF Init, WriteInit, GuidsApart
<1>3. BlobsOwned
  BY <1>1 DEF BlobsOwned, Locations
<1>4. EntriesOwned
  <2>1. \A n \in BlobNames : Listed(n) = {}
    BY <1>1 DEF Listed, Locations
  <2>2. \A d \in Calls : existing[d] = <<>>
    BY DEF Init, WriteInit
  <2>3. Elements(<<>>) = {}
    BY EmptySeq DEF Elements
  <2> QED
    BY <2>1, <2>2, <2>3 DEF EntriesOwned
<1> QED
  BY <1>2, <1>3, <1>4 DEF ContentInv

LEMMA ContentKept ==
  ASSUME FreshGuids, TypeOK, IndexInv, ContentInv, [WriteNext]_vars
  PROVE  ContentInv'
<1>1. CASE Calls = {}
  <2>1. UNCHANGED <<blobs, chunk, existing, guid>>
    BY <1>1, StepShape DEF NoEffect
  <2>2. GuidsApart'
    BY <1>1 DEF GuidsApart
  <2>3. BlobsOwned' /\ EntriesOwned'
    BY <1>1, <2>1 DEF ContentInv, BlobsOwned, EntriesOwned, Exists, Listed
  <2> QED
    BY <2>2, <2>3 DEF ContentInv
<1>2. CASE Calls # {}
  <2>1. PICK c \in Calls : NoEffect \/ Effect(c)
    BY <1>2, StepShape
  <2>2. GuidsApart /\ BlobsOwned /\ EntriesOwned
    BY DEF ContentInv
  <2>3. GuidsApart'
    BY <2>1, <2>2, GuidsApartKept
  <2>4. BlobsOwned'
    BY <2>1, <2>2, BlobsOwnedKept
  <2>5. EntriesOwned'
    BY <2>1, <2>2, <2>3, EntriesOwnedKept
  <2> QED
    BY <2>3, <2>4, <2>5 DEF ContentInv
<1> QED
  BY <1>1, <1>2

LEMMA ContentInvariant ==
  ASSUME FreshGuids
  PROVE  Spec => [](TypeOK /\ IndexInv /\ ContentInv)
<1>1. TypeOK /\ IndexInv /\ ContentInv /\ [WriteNext]_vars => ContentInv'
  BY ContentKept
<1> QED
  BY <1>1, InitContent, IndexInvariant, PTL DEF Spec

LEMMA OwnedContent ==
  ASSUME TypeOK, ContentInv
  PROVE  ListedContentMatches
<1> SUFFICES ASSUME NEW n \in BlobNames, NEW v \in Listed(n), Exists(v.location)
             PROVE  \E c \in Calls :
                      /\ chunk[c].name = n
                      /\ chunk[c].hash = v.hash
                      /\ chunk[c].parent = v.parent
                      /\ chunk[c].buffer = blobs[v.location].buffer
                      /\ blobs[v.location].metadata.hash = v.hash
                      /\ blobs[v.location].metadata.parent = v.parent
  BY DEF ListedContentMatches, Dangling
<1>1. PICK c \in Calls : Owns(c, n, v)
  BY DEF ContentInv, EntriesOwned
<1>2. PICK g \in Guids : g = guid[c] /\ g = v.location
  BY <1>1 DEF Owns, VersionAt
<1>3. PICK d \in Calls : guid[d] = g /\ Holds(blobs[g], chunk[d])
  BY <1>2 DEF ContentInv, BlobsOwned
<1>4. c = d
  BY <1>2, <1>3, WriteAssumptions DEF ContentInv, GuidsApart
<1>5. v.hash = chunk[c].hash /\ v.parent = chunk[c].parent
  BY <1>1 DEF Owns, VersionAt
<1> QED
  BY <1>1, <1>2, <1>3, <1>4, <1>5 DEF Owns, Holds

(* For any number of calls, processes and faults, as long as GUIDs do not  *)
(* repeat: the blob at a location that the metadata of a block lists is    *)
(* the one that a call writing this block uploaded for the hash and parent *)
(* it is listed under, so that a reader never gets another block's bytes.  *)
THEOREM ContentMatches ==
  ASSUME FreshGuids
  PROVE  Spec => []ListedContentMatches
<1>1. TypeOK /\ ContentInv => ListedContentMatches
  BY OwnedContent
<1> QED
  BY <1>1, ContentInvariant, PTL

-----------------------------------------------------------------------------
(* Which listed blobs may be missing.  Only ended calls have their version *)
(* listed, once; so an entry that was dropped is never listed again, and   *)
(* the blob that a call over capacity deletes is of no list any more or of *)
(* the list the call is about to replace.                                  *)

Ended(n, v) == \E c \in Calls : Owns(c, n, v) /\ pc[c] \in Outcomes

NoRepeats(s) == \A i, j \in 1 .. Len(s) : s[i] = s[j] => i = j

ListsInv ==
  \A n \in BlobNames :
    Exists(n) => NoRepeats(List(n)) /\ \A v \in Listed(n) : Ended(n, v)

(* The entry that call c is going to evict next, or once it has pushed its *)
(* own.                                                                    *)
Oldest(c, h) ==
  /\ h = Head(existing[c])
  /\ \/ pc[c] = "uploadGuid" /\ Len(existing[c]) = MaxVersions
     \/ pc[c] = "update" /\ OverCapacity(c)

HolderInv(c) ==
  /\ pc[c] = "uploadGuid" => Len(existing[c]) <= MaxVersions
  /\ pc[c] = "update" => Len(existing[c]) <= MaxVersions + 1
  /\ pc[c] \in {"update", "refetch"} => Exists(guid[c])
  /\ \A n \in BlobNames, h \in Versions :
       n = Name(c) /\ Oldest(c, h) =>
         Ended(n, h) /\ (ETagMatches(c) \/ h \notin Listed(n))

Evicts(c, n, v) ==
  /\ chunk[c].name = n
  /\ pc[c] = "update" \/ pc[c] \in Defeats
  /\ ETagMatches(c)
  /\ v \notin Elements(existing[c])

DanglingInv ==
  \A n \in BlobNames : \A v \in Dangling(n) :
    /\ v = Head(List(n)) /\ Len(List(n)) = MaxVersions
    /\ \E c \in Calls : Evicts(c, n, v)

EvictionInv == ListsInv /\ (\A c \in Calls : HolderInv(c)) /\ DanglingInv

(* A version has one owner, and two versions at one location are one.      *)
LEMMA OneOwner ==
  ASSUME GuidsApart, NEW c \in Calls, NEW d \in Calls, NEW n, NEW m, NEW v, NEW w,
         Owns(c, n, v), Owns(d, m, w), v.location = w.location
  PROVE  c = d /\ n = m /\ v = w
<1>1. guid[c] = guid[d] /\ guid[c] # NoGuid
  BY WriteAssumptions DEF Owns, VersionAt
<1>2. c = d
  BY <1>1 DEF GuidsApart
<1> QED
  BY <1>2 DEF Owns

LEMMA EndedKept ==
  ASSUME FreshGuids, TypeOK, GuidsApart, NEW d \in Calls,
         NoEffect \/ Effect(d), NEW n, NEW v, Ended(n, v)
  PROVE  Ended(n, v)'
<1>1. PICK c \in Calls : Owns(c, n, v) /\ pc[c] \in Outcomes
  BY DEF Ended
<1>2. Owns(c, n, v)'
  BY <1>1, OwnsKept
<1>3. pc'[c] \in Outcomes
  <2>1. CASE NoEffect
    BY <1>1, <2>1 DEF NoEffect, Waits, Outcomes, Requests
  <2>2. CASE Effect(d) /\ d = c
    BY <1>1, <2>2 DEF Effect, Outcomes, FirstVersionUploaded, Fetched,
       GuidBlobUploaded, OldestDeleted, Skipped, VersionsUpdated, Refetch
  <2>3. CASE Effect(d) /\ d # c
    <3>1. pc'[c] \in {pc[c], "crashed"}
      BY <2>3, GotoPc DEF Effect, Moves, OthersPc, Refetch
    <3> QED
      BY <1>1, <3>1 DEF Outcomes
  <2> QED
    BY <2>1, <2>2, <2>3
<1> QED
  BY <1>2, <1>3 DEF Ended

LEMMA AppendNoRepeats ==
  ASSUME NEW s \in Seq(Versions), NEW v \in Versions, NoRepeats(s),
         v \notin Elements(s)
  PROVE  NoRepeats(Append(s, v))
<1>1. /\ Len(s) \in Nat /\ Len(Append(s, v)) = Len(s) + 1
      /\ Append(s, v)[Len(s) + 1] = v
      /\ \A i \in 1 .. Len(s) : Append(s, v)[i] = s[i]
  BY AppendProperties, LenProperties
<1>2. \A i \in 1 .. Len(s) + 1 : i \in 1 .. Len(s) \/ i = Len(s) + 1
  BY <1>1
<1> QED
  BY <1>1, <1>2 DEF NoRepeats, Elements

LEMMA TailNoRepeats ==
  ASSUME NEW s \in Seq(Versions), s # <<>>, NoRepeats(s)
  PROVE  NoRepeats(Tail(s)) /\ Head(s) \notin Elements(Tail(s))
<1>1. /\ Head(s) = s[1] /\ 1 \in 1 .. Len(s)
      /\ Len(Tail(s)) = Len(s) - 1
      /\ \A i \in 1 .. Len(s) - 1 : Tail(s)[i] = s[i + 1] /\ i + 1 \in 1 .. Len(s)
  BY ElementsOfTail
<1>2. Len(s) \in Nat
  BY LenProperties
<1>3. \A i \in 1 .. Len(s) - 1 : i + 1 # 1
  BY <1>2
<1>4. ASSUME NEW i \in 1 .. Len(s) - 1, NEW j \in 1 .. Len(s) - 1,
             Tail(s)[i] = Tail(s)[j]
      PROVE  i = j
  <2>1. i + 1 = j + 1
    BY <1>1, <1>4 DEF NoRepeats
  <2> QED
    BY <1>2, <2>1
<1> QED
  BY <1>1, <1>3, <1>4 DEF NoRepeats, Elements

(* The list that a call publishes.                                         *)
LEMMA PublishedList ==
  ASSUME TypeOK, IndexInv, GuidsApart, ListsInv,
         NEW c \in Calls, VersionsUpdated(c), NEW n \in BlobNames, n = Name(c),
         NEW own, own = VersionAt(c, guid[c])
  PROVE  /\ Exists(n) /\ Owns(c, n, own) /\ own \in Versions
         /\ \A v : Ended(n, v) => v # own
         /\ NoRepeats(existing[c])
         /\ \A v \in Elements(existing[c]) : v \in Listed(n) \/ v = own
         /\ Len(List(n)) = MaxVersions => Head(List(n)) \notin Elements(existing[c])
<1>1. /\ pc[c] = "update" /\ Exists(n) /\ guid[c] \in Guids
      /\ PushedOnto(existing[c], List(n), own)
      /\ ~(Len(existing[c]) > MaxVersions)
  BY DEF VersionsUpdated, IndexInv, CallInv, Requests, List, OverCapacity
<1>2. Owns(c, n, own) /\ own \in Versions
  BY <1>1, CallTypes DEF Owns, Name
<1>3. ASSUME NEW v, Ended(n, v)
      PROVE  v # own
  <2>1. PICK d \in Calls : Owns(d, n, v) /\ pc[d] \in Outcomes
    BY <1>3 DEF Ended
  <2>2. d # c
    BY <1>1, <2>1 DEF Outcomes
  <2> QED
    BY <1>2, <2>1, <2>2, OneOwner
<1>4. List(n) \in Seq(Versions) /\ Listed(n) = Elements(List(n))
  BY <1>1, ListType
<1>5. NoRepeats(List(n)) /\ own \notin Elements(List(n))
  BY <1>1, <1>3, <1>4 DEF ListsInv
<1>6. CASE existing[c] = Append(List(n), own)
  <2>1. NoRepeats(existing[c]) /\ Elements(existing[c]) = Elements(List(n)) \cup {own}
    BY <1>2, <1>4, <1>5, <1>6, AppendNoRepeats, ElementsOfAppend
  <2>2. Len(existing[c]) = Len(List(n)) + 1
    BY <1>2, <1>4, <1>6, AppendProperties
  <2>3. Len(List(n)) # MaxVersions
    BY <1>1, <1>4, <2>2, WriteAssumptions, LenProperties
  <2> QED
    BY <1>1, <1>2, <1>3, <1>4, <2>1, <2>3
<1>7. CASE List(n) # <<>> /\ existing[c] = Append(Tail(List(n)), own)
  <2>1. /\ Tail(List(n)) \in Seq(Versions) /\ NoRepeats(Tail(List(n)))
        /\ Head(List(n)) \notin Elements(Tail(List(n)))
        /\ Elements(Tail(List(n))) \subseteq Elements(List(n))
        /\ Head(List(n)) \in Elements(List(n))
    BY <1>4, <1>5, <1>7, TailNoRepeats, ElementsOfTail DEF Elements
  <2>2. PICK t \in Seq(Versions) : t = Tail(List(n))
    BY <2>1
  <2>3. NoRepeats(t) /\ own \notin Elements(t) /\ existing[c] = Append(t, own)
    BY <1>5, <1>7, <2>1, <2>2
  <2>4. NoRepeats(existing[c]) /\ Elements(existing[c]) = Elements(t) \cup {own}
    BY <1>2, <2>3, AppendNoRepeats, ElementsOfAppend
  <2> QED
    BY <1>1, <1>2, <1>3, <1>4, <1>5, <2>1, <2>2, <2>4
<1> QED
  BY <1>1, <1>6, <1>7 DEF PushedOnto

LEMMA ListsKept ==
  ASSUME FreshGuids, "resend" \notin FaultKinds,
         TypeOK, IndexInv, GuidsApart, ListsInv, NEW c \in Calls, NoEffect \/ Effect(c)
  PROVE  ListsInv'
<1> SUFFICES ASSUME NEW n \in BlobNames, Exists(n)'
             PROVE  NoRepeats(List(n)') /\ \A v \in Elements(List(n)') : Ended(n, v)'
  BY DEF ListsInv, Listed, List, NoRepeats, Elements
<1>1. CASE blobs'[n] = blobs[n] /\ Exists(n)
  <2>1. List(n)' = List(n) /\ NoRepeats(List(n)) /\ Listed(n) = Elements(List(n))
    BY <1>1, ListType DEF ListsInv, List
  <2> QED
    BY <1>1, <2>1, EndedKept DEF ListsInv
<1>2. CASE List(n)' = <<>>
  BY <1>2, EmptySeq DEF NoRepeats, Elements
<1>3. CASE VersionsUpdated(c) /\ n = Name(c) /\ List(n)' = existing[c]
  <2>1. PICK own : own = VersionAt(c, guid[c])
    OBVIOUS
  <2>2. /\ Exists(n) /\ Owns(c, n, own) /\ NoRepeats(existing[c])
        /\ \A v \in Elements(existing[c]) : v \in Listed(n) \/ v = own
    BY <1>3, <2>1, PublishedList
  <2>3. pc'[c] \in Outcomes
    <3>1. ~NoEffect
      BY <1>3, VersionsUpdatedStep DEF NoEffect, VersionsUpdated, ETagMatches, Name
    <3> QED
      BY <1>3, <3>1 DEF VersionsUpdated, Effect, Moves, FirstVersionUploaded,
         Fetched, GuidBlobUploaded, OldestDeleted, Skipped, Refetch
  <2>4. Ended(n, own)'
    BY <2>2, <2>3, OwnsKept DEF Ended
  <2>5. \A v \in Listed(n) : Ended(n, v)'
    BY <2>2, EndedKept DEF ListsInv
  <2> QED
    BY <1>3, <2>2, <2>4, <2>5
<1> QED
  BY <1>1, <1>2, <1>3, ListChange

LEMMA UploadExists ==
  ASSUME ContainerTypeOK, NEW loc \in Locations, NEW ck \in ChunkType,
         Upload(loc, ck)
  PROVE  blobs'[loc] # NoBlob
<1> DEFINE b == [etag     |-> NextETag(loc),
                 buffer   |-> ck.buffer,
                 metadata |-> [hash |-> ck.hash, parent |-> ck.parent,
                               versions |-> <<>>]]
<1>1. NextETag(loc) \in Nat \ {0}
  BY DEF ContainerTypeOK, NextETag, Exists, Blobs
<1>2. b.metadata \in Metadata /\ b.buffer \in Buffers
  BY DEF Metadata, ChunkType
<1>3. b \in Blobs
  BY <1>1, <1>2 DEF Blobs
<1>4. b # NoBlob
  BY <1>3, ContainerAssumption
<1>5. blobs'[loc] = b
  BY DEF Upload, ContainerTypeOK
<1> QED
  BY <1>4, <1>5

(* The entry that goes first is the one of an ended call.                  *)
LEMMA OldestEnded ==
  ASSUME TypeOK, IndexInv, NEW c \in Calls, HolderInv(c),
         pc[c] = "update", OverCapacity(c)
  PROVE  \E n \in BlobNames, h \in Versions :
           /\ n = Name(c) /\ h = Head(existing[c]) /\ Ended(n, h)
           /\ ETagMatches(c) \/ h \notin Listed(n)
<1>1. existing[c] \in Seq(Versions) /\ existing[c] # <<>>
  BY CallTypes, WriteAssumptions, EmptySeq DEF OverCapacity
<1>2. Head(existing[c]) \in Versions
  BY <1>1, HeadTailProperties
<1>3. PICK n \in BlobNames : n = Name(c)
  BY CallTypes
<1>4. PICK h \in Versions : h = Head(existing[c])
  BY <1>2
<1> QED
  BY <1>3, <1>4 DEF HolderInv, Oldest

(* The blob of a call that has not ended is not deleted.                   *)
LEMMA OwnBlobStays ==
  ASSUME FreshGuids, TypeOK, IndexInv, GuidsApart, NEW c \in Calls,
         NoEffect \/ Effect(c), HolderInv(c),
         NEW d \in Calls, HolderInv(d), pc[d] \in {"update", "refetch"}
  PROVE  guid'[d] = guid[d] /\ guid[d] \in Guids /\ blobs'[guid[d]] # NoBlob
<1>1. PICK g \in Guids : g = guid[d] /\ Exists(g)
  BY DEF IndexInv, CallInv, HolderInv
<1>2. guid'[d] = guid[d]
  <2>1. CASE GuidBlobUploaded(c)
    <3>1. d # c
      BY <2>1 DEF GuidBlobUploaded
    <3> QED
      BY <2>1, <3>1, GuidIsNew DEF TypeOK
  <2> QED
    BY <2>1, GuidsApartKept DEF SameGuids
<1>3. CASE GuidBlobUploaded(c)
  <2>1. PICK new \in Guids : (\A e \in Calls : guid[e] # new) /\ Upload(new, chunk[c])
    BY <1>3, GuidIsNew
  <2>2. blobs'[g] = blobs[g]
    BY <1>1, <2>1 DEF Upload, TypeOK, ContainerTypeOK, Locations
  <2> QED
    BY <1>1, <1>2, <2>2 DEF Exists
<1>4. CASE OldestDeleted(c)
  <2>1. PICK n \in BlobNames, h \in Versions : h = Head(existing[c]) /\ Ended(n, h)
    BY <1>4, OldestEnded DEF OldestDeleted
  <2>2. PICK e \in Calls : Owns(e, n, h) /\ pc[e] \in Outcomes
    BY <2>1 DEF Ended
  <2>3. e # d
    BY <2>2 DEF Outcomes
  <2>4. guid[e] # guid[d]
    BY <2>2, <2>3, WriteAssumptions DEF GuidsApart, Owns
  <2>5. h.location # g
    BY <1>1, <2>2, <2>4 DEF Owns, VersionAt
  <2>6. blobs'[g] = blobs[g]
    BY <1>4, <2>1, <2>5 DEF OldestDeleted, Delete, TypeOK, ContainerTypeOK, Locations
  <2> QED
    BY <1>1, <1>2, <2>6 DEF Exists
<1>5. CASE ~GuidBlobUploaded(c) /\ ~OldestDeleted(c)
  BY <1>1, <1>2, <1>5, GuidBlobsKept DEF Exists
<1> QED
  BY <1>3, <1>4, <1>5

LEMMA HeadOfAppend ==
  ASSUME NEW s \in Seq(Versions), s # <<>>, NEW v \in Versions
  PROVE  /\ Append(s, v) \in Seq(Versions) /\ Append(s, v) # <<>>
         /\ Len(Append(s, v)) = Len(s) + 1
         /\ Head(Append(s, v)) = Head(s)
         /\ Elements(Tail(Append(s, v))) \subseteq Elements(Tail(s)) \cup {v}
<1>1. /\ Len(s) \in Nat /\ Len(s) # 0 /\ Len(Append(s, v)) = Len(s) + 1
      /\ Append(s, v) \in Seq(Versions)
      /\ Append(s, v)[Len(s) + 1] = v
      /\ \A i \in 1 .. Len(s) : Append(s, v)[i] = s[i]
  BY AppendProperties, LenProperties, EmptySeq
<1>2. PICK t \in Seq(Versions) : t = Append(s, v) /\ Len(t) = Len(s) + 1
  BY <1>1
<1>3. t # <<>>
  BY <1>1, <1>2, EmptySeq
<1>4. /\ Head(t) = t[1] /\ Head(s) = s[1] /\ 1 \in 1 .. Len(s)
      /\ Len(Tail(t)) = Len(s) /\ Len(Tail(s)) = Len(s) - 1
      /\ \A i \in 1 .. Len(s) : Tail(t)[i] = t[i + 1]
      /\ \A i \in 1 .. Len(s) - 1 : Tail(s)[i] = s[i + 1] /\ i + 1 \in 1 .. Len(s)
  BY <1>1, <1>2, <1>3, ElementsOfTail
<1>5. ASSUME NEW i \in 1 .. Len(s)
      PROVE  Tail(t)[i] \in Elements(Tail(s)) \cup {v}
  <2>1. CASE i = Len(s)
    BY <1>1, <1>2, <1>4, <2>1
  <2>2. CASE i # Len(s)
    <3>1. i \in 1 .. Len(s) - 1
      BY <1>1, <2>2
    <3>2. Tail(t)[i] = Tail(s)[i]
      BY <1>1, <1>2, <1>4, <3>1
    <3> QED
      BY <1>4, <3>1, <3>2 DEF Elements
  <2> QED
    BY <2>1, <2>2
<1>6. Elements(Tail(t)) \subseteq Elements(Tail(s)) \cup {v}
  BY ZenonT(30), <1>4, <1>5 DEF Elements
<1>7. Head(t) = Head(s)
  BY <1>1, <1>2, <1>4
<1> QED
  BY <1>1, <1>2, <1>3, <1>6, <1>7

(* What a call that holds the current ETag evicts heads a full list.       *)
LEMMA FullListHead ==
  ASSUME TypeOK, IndexInv, NEW d \in Calls, ETagMatches(d),
         NEW n \in BlobNames, n = Name(d), NEW h, Oldest(d, h)
  PROVE  /\ Exists(n) /\ List(n) \in Seq(Versions) /\ List(n) # <<>>
         /\ Len(List(n)) = MaxVersions /\ h = Head(List(n))
         /\ pc[d] = "update" => existing[d] = Append(List(n), VersionAt(d, guid[d]))
<1>1. Exists(n) /\ Len(List(n)) <= MaxVersions
  BY DEF Oldest, IndexInv, CallInv, DefaultInv, Requests, List
<1>2. List(n) \in Seq(Versions) /\ Len(List(n)) \in Nat
  BY <1>1, ListType, LenProperties
<1>3. CASE pc[d] = "uploadGuid"
  <2>1. existing[d] = List(n) /\ Len(List(n)) = MaxVersions /\ h = Head(List(n))
    BY <1>3 DEF Oldest, IndexInv, CallInv, List
  <2> QED
    BY <1>1, <1>2, <1>3, <2>1, WriteAssumptions, EmptySeq
<1>4. CASE pc[d] = "update" /\ OverCapacity(d)
  <2>1. PICK own \in Versions : own = VersionAt(d, guid[d])
    BY <1>4, CallTypes DEF IndexInv, CallInv
  <2>2. PushedOnto(existing[d], List(n), own) /\ Len(existing[d]) > MaxVersions
    BY <1>4, <2>1 DEF IndexInv, CallInv, List, OverCapacity
  <2>3. CASE List(n) # <<>> /\ existing[d] = Append(Tail(List(n)), own)
                           /\ Len(List(n)) = MaxVersions
    <3>1. Len(existing[d]) = MaxVersions
      <4>1. PICK t \in Seq(Versions) : t = Tail(List(n)) /\ Len(t) = MaxVersions - 1
        BY <1>2, <2>3, ElementsOfTail
      <4>2. Len(Append(t, own)) = Len(t) + 1
        BY AppendProperties
      <4> QED
        BY <2>3, <4>1, <4>2, WriteAssumptions
    <3> QED
      BY <2>2, <3>1, WriteAssumptions
  <2>4. CASE existing[d] = Append(List(n), own)
    <3>1. Len(existing[d]) = Len(List(n)) + 1
      BY <1>2, <2>4, AppendProperties
    <3>2. Len(List(n)) = MaxVersions /\ List(n) # <<>>
      BY <1>1, <1>2, <2>2, <3>1, WriteAssumptions, EmptySeq
    <3>3. h = Head(List(n))
      BY <1>2, <2>4, <3>2, HeadOfAppend DEF Oldest
    <3> QED
      BY <1>1, <1>2, <2>1, <2>4, <3>2, <3>3
  <2> QED
    BY <2>2, <2>3, <2>4 DEF PushedOnto
<1> QED
  BY <1>3, <1>4 DEF Oldest

(* The call keeps what it holds, and goes on or ends.                      *)
Keeps(d) ==
  /\ existing'[d] = existing[d] /\ props'[d] = props[d] /\ guid'[d] = guid[d]
  /\ \/ pc'[d] = pc[d]
     \/ pc'[d] \in Outcomes \cup {"upload", "properties"}
     \/ pc[d] = "update" /\ pc'[d] = "refetch"

(* The steps by which a call changes what it holds.                        *)
Changes(c) ==
  \/ Fetched(c) /\ pc'[c] = "uploadGuid"
  \/ GuidBlobUploaded(c) /\ pc'[c] \in {"update"} \cup Defeats
  \/ /\ pc[c] = "update" /\ OverCapacity(c)
     /\ existing'[c] = Tail(existing[c])
     /\ pc'[c] \in {"update"} \cup Defeats
  \/ Refetch(c) /\ pc'[c] = "update"

LEMMA HolderShape ==
  ASSUME TypeOK, IndexInv, NEW c \in Calls, NoEffect \/ Effect(c), NEW d \in Calls
  PROVE  Keeps(d) \/ (d = c /\ Changes(c))
<1>1. CASE NoEffect
  BY <1>1 DEF NoEffect, Waits, Keeps, Defeats, Outcomes
<1>2. CASE Effect(c) /\ d # c
  <2>1. pc'[d] \in {pc[d], "crashed"}
    BY <1>2, GotoPc DEF Effect, Moves, OthersPc, Refetch
  <2>2. existing'[d] = existing[d] /\ props'[d] = props[d] /\ guid'[d] = guid[d]
    BY <1>2 DEF Effect, TypeOK, FirstVersionUploaded, Fetched, GuidBlobUploaded,
       OldestDeleted, Skipped, VersionsUpdated, Refetch
  <2> QED
    BY <2>1, <2>2 DEF Keeps, Outcomes
<1>3. CASE d = c /\ \/ FirstVersionUploaded(c) /\ Moves(c, Outcomes \cup {"properties"})
                    \/ VersionsUpdated(c) /\ Moves(c, Outcomes \cup {"refetch"})
  BY <1>3 DEF FirstVersionUploaded, VersionsUpdated, Moves, Keeps
<1>4. CASE OldestDeleted(c) \/ Skipped(c)
  <2>1. pc[c] = "update" /\ OverCapacity(c) /\ existing'[c] = Tail(existing[c])
    BY <1>4 DEF OldestDeleted, Skipped, TypeOK
  <2> QED
    BY <1>1, <1>2, <1>4, <2>1
       DEF Effect, Moves, Changes, Fetched, Refetch, FirstVersionUploaded,
           GuidBlobUploaded, VersionsUpdated
<1>5. CASE Refetch(c)
  BY <1>2, <1>5, GotoPc DEF Effect, Changes, Refetch
<1>6. CASE Fetched(c) /\ Moves(c, {"uploadGuid"})
  BY <1>2, <1>6 DEF Effect, Changes, Moves
<1>7. CASE GuidBlobUploaded(c) /\ Moves(c, {"update"} \cup Defeats)
  BY <1>2, <1>7 DEF Effect, Changes, Moves
<1>8. ASSUME Effect(c), d = c
      PROVE  Keeps(d) \/ (d = c /\ Changes(c))
  BY <1>3, <1>4, <1>5, <1>6, <1>7, <1>8, Zenon DEF Effect
<1> QED
  BY <1>1, <1>2, <1>8

(* An evicted entry does not come back into the list.                      *)
LEMMA OldestStaysStale ==
  ASSUME FreshGuids, TypeOK, IndexInv, GuidsApart, ListsInv,
         NEW c \in Calls, NoEffect \/ Effect(c),
         NEW d \in Calls, HolderInv(d), NEW n \in BlobNames, n = Name(d),
         NEW h \in Versions, Oldest(d, h), h \in Listed(n)'
  PROVE  /\ blobs'[n] = blobs[n] /\ ETagMatches(d)
<1>1. Ended(n, h) /\ (ETagMatches(d) \/ h \notin Listed(n))
  BY DEF HolderInv
<1>2. Exists(n) /\ Exists(n)' /\ h \in Elements(List(n)')
  BY DEF Oldest, IndexInv, CallInv, Requests, Listed, Elements, List
<1>3. CASE blobs'[n] = blobs[n]
  BY <1>1, <1>2, <1>3 DEF Listed, Exists
<1>4. CASE FirstVersionUploaded(c) /\ n = Name(c)
  BY <1>2, <1>4 DEF FirstVersionUploaded
<1>5. CASE VersionsUpdated(c) /\ n = Name(c) /\ List(n)' = existing[c]
  <2>1. PICK own : own = VersionAt(c, guid[c])
    OBVIOUS
  <2>2. h \in Listed(n)
    BY <1>1, <1>2, <1>5, <2>1, PublishedList
  <2>3. Len(List(n)) = MaxVersions /\ h = Head(List(n))
    BY <1>1, <2>2, FullListHead
  <2>4. h \notin Elements(existing[c])
    BY <1>5, <2>1, <2>3, PublishedList
  <2> QED
    BY <1>2, <1>5, <2>4
<1> QED
  BY <1>2, <1>3, <1>4, <1>5, ListChange

LEMMA NamesStay ==
  ASSUME FreshGuids, TypeOK, GuidsApart, NEW c \in Calls, NoEffect \/ Effect(c),
         NEW d \in Calls
  PROVE  chunk' = chunk /\ chunk'[d].name = Name(d)
  BY GuidsApartKept DEF SameGuids, GuidBlobUploaded, Name

LEMMA KeptHolder ==
  ASSUME FreshGuids, TypeOK, IndexInv, GuidsApart, ListsInv,
         NEW c \in Calls, NoEffect \/ Effect(c), HolderInv(c),
         NEW d \in Calls, HolderInv(d), Keeps(d)
  PROVE  HolderInv(d)'
<1>1. /\ pc'[d] = "uploadGuid" => pc[d] = "uploadGuid"
      /\ pc'[d] = "update" => pc[d] = "update"
      /\ pc'[d] \in {"update", "refetch"} => pc[d] \in {"update", "refetch"}
      /\ existing'[d] = existing[d] /\ props'[d] = props[d]
  BY DEF Keeps, Outcomes
<1>2. pc'[d] \in {"update", "refetch"} => Exists(guid[d])'
  BY <1>1, OwnBlobStays DEF Exists
<1>3. ASSUME NEW n \in BlobNames, NEW h \in Versions,
             n = chunk'[d].name, Oldest(d, h)'
      PROVE  Ended(n, h)' /\ (ETagMatches(d)' \/ h \notin Listed(n)')
  <2>1. Oldest(d, h) /\ n = Name(d)
    BY <1>1, <1>3, NamesStay DEF Oldest, OverCapacity
  <2>2. Ended(n, h)'
    BY <2>1, EndedKept DEF HolderInv
  <2>3. ASSUME h \in Listed(n)'
        PROVE  ETagMatches(d)'
    <3>1. blobs'[n] = blobs[n] /\ ETagMatches(d)
      BY <2>1, <2>3, OldestStaysStale
    <3> QED
      BY <1>1, <1>3, <2>1, <3>1 DEF ETagMatches, Name
  <2> QED
    BY <2>2, <2>3
<1> QED
  BY <1>1, <1>2, <1>3 DEF HolderInv, OverCapacity, Name

LEMMA FetchedHolder ==
  ASSUME FreshGuids, TypeOK, IndexInv, GuidsApart, ListsInv,
         NEW c \in Calls, Effect(c), Fetched(c), pc'[c] = "uploadGuid"
  PROVE  HolderInv(c)'
<1>1. PICK n \in BlobNames : n = Name(c) /\ n = chunk'[c].name
  BY CallTypes, NamesStay
<1>2. /\ Exists(n) /\ existing'[c] = List(n) /\ blobs' = blobs
      /\ props'[c].etag = blobs[n].etag
  BY <1>1 DEF Fetched, IndexInv, CallInv, Requests, List, TypeOK
<1>3. List(n) \in Seq(Versions) /\ Len(List(n)) <= MaxVersions
      /\ Listed(n) = Elements(List(n))
  BY <1>2, ListType DEF IndexInv, DefaultInv, List
<1>4. ASSUME NEW h, Oldest(c, h)'
      PROVE  Ended(n, h)' /\ ETagMatches(c)'
  <2>1. h = Head(List(n)) /\ Len(List(n)) = MaxVersions
    BY <1>2, <1>4 DEF Oldest
  <2>2. h \in Listed(n)
    BY <1>3, <2>1, WriteAssumptions, EmptySeq, ElementsOfTail DEF Elements
  <2>3. Ended(n, h)'
    BY <1>2, <2>2, EndedKept DEF ListsInv
  <2> QED
    BY <1>1, <1>2, <2>3 DEF ETagMatches, Name
<1> QED
  BY <1>1, <1>2, <1>3, <1>4 DEF HolderInv, Name

LEMMA PushedHolder ==
  ASSUME FreshGuids, TypeOK, IndexInv, GuidsApart, ListsInv,
         NEW c \in Calls, HolderInv(c), Effect(c), GuidBlobUploaded(c),
         pc'[c] \in {"update"} \cup Defeats
  PROVE  HolderInv(c)'
<1>1. PICK n \in BlobNames : n = Name(c) /\ n = chunk'[c].name
  BY CallTypes, NamesStay
<1>2. /\ pc[c] = "uploadGuid" /\ props' = props /\ blobs'[n] = blobs[n]
      /\ guid'[c] \in Guids
      /\ existing'[c] = Append(existing[c], VersionAt(c, guid'[c]))
  BY <1>1, GuidBlobUploadedStep DEF GuidBlobUploaded
<1>3. PICK own \in Versions : own = VersionAt(c, guid'[c])
  BY <1>2, CallTypes
<1>4. /\ existing[c] \in Seq(Versions) /\ Len(existing[c]) \in Nat
      /\ Len(existing[c]) <= MaxVersions
      /\ existing'[c] = Append(existing[c], own)
      /\ Len(existing'[c]) = Len(existing[c]) + 1
  BY <1>2, <1>3, CallTypes, LenProperties, AppendProperties DEF HolderInv
<1>5. Exists(guid[c])'
  <2>1. PICK g \in Guids : guid' = [guid EXCEPT ![c] = g] /\ Upload(g, chunk[c])
    BY GuidIsNew
  <2>2. blobs'[g] # NoBlob
    BY <2>1, CallTypes, UploadExists DEF TypeOK, Locations
  <2> QED
    BY <2>1, <2>2 DEF Exists, TypeOK
<1>6. ASSUME NEW h \in Versions, Oldest(c, h)'
      PROVE  Ended(n, h)' /\ (ETagMatches(c)' \/ h \notin Listed(n)')
  <2>1. Len(existing[c]) = MaxVersions
    BY <1>2, <1>4, <1>6, WriteAssumptions DEF Oldest, OverCapacity, Defeats, Outcomes
  <2>2. h = Head(existing[c])
    BY <1>4, <1>6, <2>1, WriteAssumptions, EmptySeq, HeadOfAppend DEF Oldest
  <2>3. Oldest(c, h)
    BY <1>2, <2>1, <2>2 DEF Oldest
  <2>4. Ended(n, h)'
    BY <1>1, <2>3, EndedKept DEF HolderInv
  <2>5. ETagMatches(c) \/ h \notin Listed(n)
    BY <1>1, <2>3 DEF HolderInv
  <2> QED
    BY <1>1, <1>2, <2>4, <2>5 DEF ETagMatches, Name, Listed, Exists
<1>7. pc'[c] # "uploadGuid" /\ pc'[c] # "refetch"
  BY DEF Defeats, Outcomes
<1> QED
  BY <1>1, <1>4, <1>5, <1>6, <1>7, WriteAssumptions DEF HolderInv, Name

LEMMA EvictedHolder ==
  ASSUME FreshGuids, TypeOK, IndexInv, GuidsApart, ListsInv,
         NEW c \in Calls, HolderInv(c), Effect(c), pc[c] = "update",
         OverCapacity(c), existing'[c] = Tail(existing[c]),
         pc'[c] \in {"update"} \cup Defeats
  PROVE  HolderInv(c)'
<1>1. /\ existing[c] \in Seq(Versions) /\ existing[c] # <<>>
      /\ Len(existing[c]) \in Nat /\ Len(existing[c]) = MaxVersions + 1
  BY CallTypes, WriteAssumptions, EmptySeq, LenProperties DEF OverCapacity, HolderInv
<1>2. Len(existing'[c]) = MaxVersions
  BY <1>1, ElementsOfTail, WriteAssumptions
<1>3. Exists(guid[c])'
  BY OwnBlobStays DEF Exists
<1>4. ~OverCapacity(c)' /\ pc'[c] # "uploadGuid" /\ pc'[c] # "refetch"
  BY <1>2, WriteAssumptions DEF OverCapacity, Defeats, Outcomes
<1> QED
  BY <1>2, <1>3, <1>4, WriteAssumptions DEF HolderInv, Oldest

LEMMA RefetchedHolder ==
  ASSUME FreshGuids, TypeOK, IndexInv, GuidsApart, ListsInv,
         NEW c \in Calls, HolderInv(c), Effect(c), Refetch(c), pc'[c] = "update"
  PROVE  HolderInv(c)'
<1>1. PICK n \in BlobNames : n = Name(c) /\ n = chunk'[c].name
  BY CallTypes, NamesStay
<1>2. /\ Exists(n) /\ guid[c] \in Guids
      /\ existing'[c] = Append(List(n), VersionAt(c, guid[c]))
  <2>1. PICK entries : entries = Append(List(Name(c)), VersionAt(c, guid[c]))
    OBVIOUS
  <2>2. /\ Exists(Name(c)) /\ guid[c] \in Guids
        /\ existing' = [existing EXCEPT ![c] = entries]
    BY <2>1, RefetchedList
  <2>3. existing'[c] = entries
    BY <2>2 DEF TypeOK
  <2> QED
    BY <1>1, <2>1, <2>2, <2>3
<1>3. PICK own \in Versions : own = VersionAt(c, guid[c])
  BY <1>2, CallTypes
<1>4. /\ List(n) \in Seq(Versions) /\ Len(List(n)) \in Nat
      /\ Len(List(n)) <= MaxVersions /\ Listed(n) = Elements(List(n))
      /\ Len(existing'[c]) = Len(List(n)) + 1
  BY <1>2, <1>3, ListType, LenProperties, AppendProperties
     DEF IndexInv, DefaultInv, List
<1>5. Exists(guid[c])'
  BY OwnBlobStays DEF Exists, Refetch
<1>6. ETagMatches(c)'
  BY <1>1 DEF Refetch, ETagMatches, Name, TypeOK
<1>7. ASSUME NEW h, Oldest(c, h)'
      PROVE  Ended(n, h)'
  <2>1. List(n) # <<>>
    BY <1>4, <1>7, WriteAssumptions, EmptySeq DEF Oldest, OverCapacity
  <2>2. h = Head(List(n))
    BY <1>2, <1>3, <1>4, <1>7, <2>1, HeadOfAppend DEF Oldest
  <2>3. h \in Listed(n)
    BY <1>4, <2>1, <2>2, ElementsOfTail DEF Elements
  <2> QED
    BY <1>2, <2>3, EndedKept DEF ListsInv
<1> QED
  BY <1>1, <1>4, <1>5, <1>6, <1>7, WriteAssumptions DEF HolderInv, Name

LEMMA HoldersKept ==
  ASSUME FreshGuids, TypeOK, IndexInv, GuidsApart, ListsInv,
         \A d \in Calls : HolderInv(d), NEW c \in Calls, NoEffect \/ Effect(c)
  PROVE  \A d \in Calls : HolderInv(d)'
<1> TAKE d \in Calls
<1>1. CASE Keeps(d)
  BY <1>1, KeptHolder
<1>2. CASE d = c /\ Changes(c) /\ Effect(c)
  <2>1. HolderInv(c)
    OBVIOUS
  <2>2. CASE Fetched(c) /\ pc'[c] = "uploadGuid"
    BY <1>2, <2>2, FetchedHolder
  <2>3. CASE GuidBlobUploaded(c) /\ pc'[c] \in {"update"} \cup Defeats
    BY <1>2, <2>1, <2>3, PushedHolder
  <2>4. CASE /\ pc[c] = "update" /\ OverCapacity(c)
             /\ existing'[c] = Tail(existing[c])
             /\ pc'[c] \in {"update"} \cup Defeats
    BY <1>2, <2>1, <2>4, EvictedHolder
  <2>5. CASE Refetch(c) /\ pc'[c] = "update"
    BY <1>2, <2>1, <2>5, RefetchedHolder
  <2> QED
    BY <1>2, <2>2, <2>3, <2>4, <2>5 DEF Changes
<1>3. CASE NoEffect /\ ~Keeps(d)
  BY <1>3 DEF NoEffect, Waits, Keeps, Defeats, Outcomes
<1> QED
  BY <1>1, <1>2, <1>3, HolderShape

(* A call that evicts an entry goes on to, unless it ends or publishes.    *)
LEMMA EvictsKept ==
  ASSUME FreshGuids, TypeOK, IndexInv, GuidsApart,
         NEW c \in Calls, NoEffect \/ Effect(c), NEW n \in BlobNames,
         blobs'[n] = blobs[n], NEW v, NEW d \in Calls, Evicts(d, n, v)
  PROVE  Evicts(d, n, v)'
<1>1. chunk'[d].name = n /\ n = Name(d)
  BY NamesStay DEF Evicts, Name
<1>2. /\ pc[d] = "update" \/ pc[d] \in Defeats
      /\ props[d].etag = blobs[n].etag /\ v \notin Elements(existing[d])
  BY <1>1 DEF Evicts, ETagMatches
<1>3. SUFFICES /\ pc'[d] = "update" \/ pc'[d] \in Defeats
               /\ props'[d] = props[d] /\ v \notin Elements(existing'[d])
  BY <1>1, <1>2 DEF Evicts, ETagMatches, Name, Elements
<1>4. CASE NoEffect
  <2>1. ETagMatches(d)
    BY DEF Evicts
  <2> QED
    BY <1>2, <1>4, <2>1 DEF NoEffect, Waits, Defeats, Outcomes
<1>5. CASE Effect(c) /\ d # c
  <2>1. pc'[d] \in {pc[d], "crashed"}
    BY <1>5, GotoPc DEF Effect, Moves, OthersPc, Refetch
  <2>2. existing'[d] = existing[d] /\ props'[d] = props[d]
    BY <1>5 DEF Effect, TypeOK, FirstVersionUploaded, Fetched, GuidBlobUploaded,
       OldestDeleted, Skipped, VersionsUpdated, Refetch
  <2> QED
    BY <1>2, <2>1, <2>2 DEF Defeats, Outcomes
<1>6. CASE Effect(c) /\ d = c
  <2>1. ~VersionsUpdated(c)
    <3>1. ASSUME VersionsUpdated(c)
          PROVE  FALSE
      <4>1. ~ETagMatches(c)' /\ props' = props
        BY <3>1, VersionsUpdatedStep DEF VersionsUpdated
      <4> QED
        BY <1>1, <1>2, <1>6, <4>1 DEF ETagMatches, Name
    <3> QED
      BY <3>1
  <2>2. /\ OldestDeleted(c) \/ Skipped(c)
        /\ pc'[c] \in {"update"} \cup Defeats
    BY <1>2, <1>6, <2>1 DEF Effect, Moves, Defeats, Outcomes,
       FirstVersionUploaded, Fetched, GuidBlobUploaded, Refetch
  <2>3. /\ OverCapacity(c) /\ props' = props
        /\ existing'[c] = Tail(existing[c])
    BY <2>2 DEF OldestDeleted, Skipped, TypeOK
  <2>4. existing[c] \in Seq(Versions) /\ existing[c] # <<>>
    BY <2>3, CallTypes, WriteAssumptions, EmptySeq DEF OverCapacity
  <2>5. Elements(existing'[c]) \subseteq Elements(existing[c])
    BY <2>3, <2>4, ElementsOfTail
  <2> QED
    BY <1>2, <1>6, <2>2, <2>3, <2>5
<1> QED
  BY <1>4, <1>5, <1>6

(* Whose blob is deleted is not listed by anybody else.                    *)
LEMMA DeletedIsEvicted ==
  ASSUME FreshGuids, TypeOK, IndexInv, GuidsApart, ListsInv,
         NEW c \in Calls, HolderInv(c), Effect(c), OldestDeleted(c),
         NEW n \in BlobNames, NEW v \in Versions, v \in Listed(n), Exists(n),
         Exists(v.location), blobs'[v.location] = NoBlob
  PROVE  v = Head(List(n)) /\ Len(List(n)) = MaxVersions /\ Evicts(c, n, v)'
<1>1. pc[c] = "update" /\ OverCapacity(c) /\ props' = props
      /\ existing'[c] = Tail(existing[c])
  BY DEF OldestDeleted, TypeOK
<1>2. PICK m \in BlobNames, h \in Versions :
        /\ m = Name(c) /\ h = Head(existing[c]) /\ Ended(m, h)
        /\ ETagMatches(c) \/ h \notin Listed(m)
  BY <1>1, OldestEnded
<1>3. h.location = v.location
  BY <1>2 DEF OldestDeleted, Delete, TypeOK, ContainerTypeOK, Exists, Versions, Locations
<1>4. PICK d \in Calls : Owns(d, m, h)
  BY <1>2 DEF Ended
<1>5. PICK e \in Calls : Owns(e, n, v) /\ pc[e] \in Outcomes
  BY DEF ListsInv, Ended
<1>6. m = n /\ h = v
  BY <1>3, <1>4, <1>5, OneOwner
<1>7. ETagMatches(c) /\ Oldest(c, v)
  BY <1>1, <1>2, <1>6 DEF Oldest
<1>8. PICK own \in Versions : own = VersionAt(c, guid[c])
  BY <1>1, CallTypes DEF IndexInv, CallInv
<1>9. /\ List(n) \in Seq(Versions) /\ List(n) # <<>> /\ Len(List(n)) = MaxVersions
      /\ v = Head(List(n)) /\ existing[c] = Append(List(n), own)
  BY <1>1, <1>2, <1>6, <1>7, <1>8, FullListHead
<1>10. v # own
  <2>1. Owns(c, n, own)
    BY <1>1, <1>2, <1>6, <1>8 DEF Owns, Name, IndexInv, CallInv
  <2>2. e # c
    BY <1>1, <1>5 DEF Outcomes
  <2> QED
    BY <1>5, <2>1, <2>2, OneOwner
<1>11. v \notin Elements(existing'[c])
  <2>1. v \notin Elements(Tail(List(n)))
    BY <1>9, TailNoRepeats DEF ListsInv
  <2>2. Elements(existing'[c]) \subseteq Elements(Tail(List(n))) \cup {own}
    BY <1>1, <1>9, HeadOfAppend
  <2> QED
    BY <1>10, <2>1, <2>2
<1>12. pc'[c] = "update" \/ pc'[c] \in Defeats
  BY <1>1 DEF Effect, Moves, FirstVersionUploaded, Fetched, GuidBlobUploaded,
     VersionsUpdated, Refetch
<1>13. ETagMatches(c)' /\ chunk'[c].name = n
  <2>1. blobs'[n] = blobs[n]
    BY <1>2, <1>6, OldestDeletedStep
  <2> QED
    BY <1>1, <1>2, <1>6, <1>7, <2>1, NamesStay DEF ETagMatches, Name
<1> QED
  BY <1>9, <1>11, <1>12, <1>13 DEF Evicts, Elements

LEMMA DanglingKept ==
  ASSUME FreshGuids, TypeOK, IndexInv, GuidsApart, ListsInv, DanglingInv,
         \A d \in Calls : HolderInv(d), NEW c \in Calls, NoEffect \/ Effect(c)
  PROVE  DanglingInv'
<1> SUFFICES ASSUME NEW n \in BlobNames, NEW v, v \in Listed(n)',
                    blobs'[v.location] = NoBlob
             PROVE  /\ v = Head(List(n)') /\ Len(List(n)') = MaxVersions
                    /\ \E d \in Calls : Evicts(d, n, v)'
  BY DEF DanglingInv, Dangling, Exists
<1>1. Exists(n)' /\ v \in Elements(List(n)')
  BY DEF Listed, Elements, List
<1>2. ASSUME Exists(n), v \in Listed(n)
      PROVE  v \in Versions /\ v.location \in Guids
  <2>1. List(n) \in Seq(Versions) /\ v \in Elements(List(n))
    BY <1>2, ListType
  <2>2. v \in Versions
    BY <2>1 DEF Elements
  <2> QED
    BY <2>2 DEF Versions
<1>3. CASE blobs'[n] = blobs[n] /\ Exists(n)
  <2>1. v \in Listed(n) /\ List(n)' = List(n)
    BY <1>1, <1>3, ListType DEF List
  <2>2. PICK g \in Guids : g = v.location
    BY <1>2, <1>3, <2>1
  <2>3. CASE blobs[g] = NoBlob
    <3>1. v \in Dangling(n)
      BY <2>1, <2>2, <2>3 DEF Dangling, Exists
    <3>2. PICK d \in Calls : Evicts(d, n, v)
      BY <3>1 DEF DanglingInv
    <3>3. Evicts(d, n, v)'
      BY <1>3, <3>2, EvictsKept
    <3> QED
      BY <2>1, <3>1, <3>3 DEF DanglingInv
  <2>4. CASE blobs[g] # NoBlob
    <3>1. ~GuidBlobUploaded(c)
      <4>1. ASSUME GuidBlobUploaded(c)
            PROVE  FALSE
        <5>1. PICK new \in Guids : Upload(new, chunk[c])
          BY <4>1, GuidIsNew
        <5>2. blobs'[new] # NoBlob
          BY <5>1, CallTypes, UploadExists DEF TypeOK, Locations
        <5>3. g # new => blobs'[g] = blobs[g]
          BY <5>1 DEF Upload, TypeOK, ContainerTypeOK, Locations
        <5> QED
          BY <2>2, <2>4, <5>2, <5>3
      <4> QED
        BY <4>1
    <3>2. OldestDeleted(c)
      BY <2>2, <2>4, <3>1, GuidBlobsKept
    <3>3. Effect(c)
      <4>1. ~NoEffect
        BY <2>2, <2>4 DEF NoEffect
      <4> QED
        BY <4>1
    <3>4. v = Head(List(n)) /\ Len(List(n)) = MaxVersions /\ Evicts(c, n, v)'
      BY <1>2, <1>3, <2>1, <2>2, <2>4, <3>2, <3>3, DeletedIsEvicted DEF Exists
    <3> QED
      BY <2>1, <3>4
  <2> QED
    BY <2>3, <2>4
<1>4. CASE List(n)' = <<>>
  BY <1>1, <1>4, EmptySeq DEF Elements
<1>5. CASE VersionsUpdated(c) /\ n = Name(c) /\ List(n)' = existing[c]
  <2>1. PICK own : own = VersionAt(c, guid[c])
    OBVIOUS
  <2>2. v # own
    <3>1. blobs'[guid[c]] # NoBlob
      BY <1>5, OwnBlobStays DEF VersionsUpdated
    <3> QED
      BY <2>1, <3>1 DEF VersionAt
  <2>3. Exists(n) /\ v \in Listed(n)
    BY <1>1, <1>5, <2>1, <2>2, PublishedList
  <2>4. blobs[v.location] = NoBlob
    <3>1. /\ blobs \in [Locations -> Blobs \cup {NoBlob}]
          /\ v.location \in Locations /\ v.location # n
      BY <1>2, <2>3, ContainerAssumption DEF TypeOK, ContainerTypeOK, Locations
    <3> QED
      BY <1>5, <3>1 DEF VersionsUpdated, SetMetadata
  <2>5. v = Head(List(n)) /\ Len(List(n)) = MaxVersions
    BY <2>3, <2>4 DEF DanglingInv, Dangling, Exists
  <2>6. v \notin Elements(existing[c])
    BY <1>5, <2>1, <2>5, PublishedList
  <2> QED
    BY <1>1, <1>5, <2>6
<1> QED
  BY <1>1, <1>3, <1>4, <1>5, ListChange

LEMMA InitEviction == Init => EvictionInv
<1> SUFFICES ASSUME Init
             PROVE  EvictionInv
  OBVIOUS
<1>1. \A n \in BlobNames : ~Exists(n)
  BY DEF Init, ContainerInit, Exists, Locations
<1>2. \A c \in Calls : pc[c] = "idle"
  BY DEF Init, WriteInit
<1> QED
  BY <1>1, <1>2 DEF EvictionInv, ListsInv, DanglingInv, Dangling, Listed,
     HolderInv, Oldest

LEMMA EvictionKept ==
  ASSUME FreshGuids, "resend" \notin FaultKinds, TypeOK, IndexInv, ContentInv,
         EvictionInv, [WriteNext]_vars
  PROVE  EvictionInv'
<1>1. GuidsApart /\ ListsInv /\ DanglingInv /\ \A d \in Calls : HolderInv(d)
  BY DEF ContentInv, EvictionInv
<1>2. CASE Calls = {}
  <2>1. UNCHANGED blobs
    BY <1>2, StepShape DEF NoEffect
  <2>2. ListsInv'
    BY <1>1, <1>2, <2>1 DEF ListsInv, Exists, List, Listed, Ended
  <2>3. DanglingInv'
    BY <1>1, <1>2, <2>1 DEF DanglingInv, Dangling, Exists, List, Listed
  <2> QED
    BY <1>2, <2>2, <2>3 DEF EvictionInv
<1>3. CASE Calls # {}
  <2>1. PICK c \in Calls : NoEffect \/ Effect(c)
    BY <1>3, StepShape
  <2>2. ListsInv'
    BY <1>1, <2>1, ListsKept
  <2>3. \A d \in Calls : HolderInv(d)'
    BY <1>1, <2>1, HoldersKept
  <2>4. DanglingInv'
    BY <1>1, <2>1, DanglingKept
  <2> QED
    BY <2>2, <2>3, <2>4 DEF EvictionInv
<1> QED
  BY <1>2, <1>3

(* For any number of calls, processes, versions and retries, and with      *)
(* requests that fail, answers that are lost and processes that crash, as  *)
(* long as GUIDs do not repeat and no request is sent twice: a listed blob *)
(* is missing only where a call that still holds the current ETag has      *)
(* evicted it, and has yet to publish the list without it or has ended.    *)
THEOREM DanglingIsEvicted ==
  ASSUME FreshGuids, "resend" \notin FaultKinds
  PROVE  Spec => []DanglingOnlyWhileEvicting
<1>1. TypeOK /\ IndexInv /\ ContentInv /\ EvictionInv /\ [WriteNext]_vars
        => EvictionInv'
  BY EvictionKept
<1>2. EvictionInv => DanglingOnlyWhileEvicting
  BY DEF EvictionInv, DanglingInv, Evicts, DanglingOnlyWhileEvicting, Defeats
<1> QED
  BY <1>1, <1>2, InitEviction, ContentInvariant, PTL DEF Spec

-----------------------------------------------------------------------------
(* What calls leave behind when nothing fails.                             *)

NoFaults == FaultKinds = {}

LEMMA FaultFree ==
  ASSUME NoFaults, [WriteNext]_vars
  PROVE  UNCHANGED vars \/ \E c \in Calls : WriteAsync(c) \/ CallStep(c)
BY DEF NoFaults, WriteNext, RequestFails, AnswerLost, RequestResent, ServerCrash, Fault

(* A call in its round r has lost r - 1 times, each to another publication *)
(* under its name.                                                         *)
RoundsInv(c) ==
  /\ pc[c] \in {"idle", "upload", "properties"} => retry[c] = 0
  /\ pc[c] \in {"uploadGuid", "update"} => retry[c] < props[c].etag
  /\ pc[c] = "refetch" => retry[c] < blobs[Name(c)].etag
  /\ pc[c] = "failed" => Exists(Name(c)) /\ blobs[Name(c)].etag > MaxRetries

LEMMA OtherRounds ==
  ASSUME TypeOK, IndexInv, DefaultsStep, chunk' = chunk, NEW d \in Calls, RoundsInv(d),
         pc'[d] \in {pc[d], "crashed"}, props'[d] = props[d], retry'[d] = retry[d]
  PROVE  RoundsInv(d)'
<1>1. PICK n \in BlobNames : n = Name(d) /\ n = chunk'[d].name
  BY CallTypes DEF Name
<1>2. Exists(n) => blobs[n] \in Blobs
  BY <1>1, CallTypes
<1>3. Exists(n) => /\ Exists(n)'
                   /\ blobs'[n].etag = blobs[n].etag \/ blobs'[n].etag = blobs[n].etag + 1
  BY DEF DefaultsStep, Evolves, Exists
<1>4. pc[d] = "refetch" => Exists(n)
  BY <1>1 DEF IndexInv, CallInv, Requests
<1>5. retry[d] \in Nat /\ (Exists(n) => blobs[n].etag \in Nat)
  BY <1>2 DEF TypeOK, Blobs
<1>6. CASE pc'[d] = "refetch"
  <2>1. retry[d] < blobs'[n].etag
    BY <1>1, <1>3, <1>4, <1>5, <1>6 DEF RoundsInv
  <2> QED
    BY <1>1, <1>6, <2>1 DEF RoundsInv, Name
<1>7. CASE pc'[d] = "failed"
  <2>1. Exists(n)' /\ blobs'[n].etag > MaxRetries
    BY <1>1, <1>3, <1>5, <1>7, WriteAssumptions DEF RoundsInv
  <2> QED
    BY <1>1, <1>7, <2>1 DEF RoundsInv, Name, Exists
<1>8. CASE pc'[d] \notin {"refetch", "failed"}
  BY <1>8 DEF RoundsInv
<1> QED
  BY <1>6, <1>7, <1>8

LEMMA OwnRounds ==
  ASSUME TypeOK, IndexInv, NEW c \in Calls, WriteAsync(c) \/ CallStep(c), RoundsInv(c)
  PROVE  RoundsInv(c)'
<1>1. PICK n \in BlobNames : n = Name(c)
  BY CallTypes
<1>2. /\ Exists(n) => blobs[n].etag \in Nat \ {0}
      /\ retry[c] \in Nat /\ MaxRetries \in Nat
  BY <1>1, CallTypes, WriteAssumptions DEF TypeOK, Blobs
<1>3. CASE WriteAsync(c) \/ UploadFirstVersion(c)
  BY <1>3, GotoPc DEF WriteAsync, UploadFirstVersion, FirstVersionUploaded, RoundsInv
<1>4. CASE CheckVersions(c)
  <2>1. Exists(n) /\ retry[c] = 0 /\ retry' = retry
    BY <1>1, <1>4 DEF CheckVersions, IndexInv, CallInv, Requests, RoundsInv
  <2>2. CASE Goto(c, "returned")
    BY <2>2, GotoPc DEF RoundsInv
  <2>3. CASE Goto(c, "uploadGuid") /\ props'[c].etag = blobs[n].etag
    BY <1>2, <2>1, <2>3, GotoPc DEF RoundsInv
  <2> QED
    BY <1>1, <1>4, <2>2, <2>3 DEF CheckVersions, TypeOK
<1>5. CASE UploadGuidBlob(c)
  BY <1>5, GotoPc DEF UploadGuidBlob, GuidBlobUploaded, RoundsInv
<1>6. CASE EvictOldest(c)
  BY <1>6 DEF EvictOldest, OldestDeleted, RoundsInv
<1>7. CASE UpdateMetadata(c)
  <2>1. CASE Goto(c, "returned")
    BY <2>1, GotoPc DEF RoundsInv
  <2>2. CASE ~ETagMatches(c) /\ PreconditionFailed(c) /\ UNCHANGED <<blobs, chunk>>
    <3>1. /\ Exists(n) /\ blobs[n].etag \in Nat
          /\ retry[c] < props[c].etag /\ props[c].etag \in 1 .. blobs[n].etag
          /\ props[c].etag # blobs[n].etag
      BY <1>1, <1>2, <1>7, <2>2
         DEF UpdateMetadata, VersionsUpdated, RoundsInv, IndexInv, CallInv,
             Requests, ETagMatches
    <3>2. retry[c] + 1 < blobs[n].etag
      BY <1>2, <3>1
    <3>3. CASE retry[c] = MaxRetries - 1 /\ StorageException(c)
      <4>1. MaxRetries < blobs[n].etag
        BY <1>2, <3>2, <3>3
      <4>2. pc'[c] \in Outcomes
        BY <1>7, <3>3, StorageExceptionPc
           DEF UpdateMetadata, VersionsUpdated, InFlight, Requests
      <4> QED
        BY <1>1, <2>2, <3>1, <4>1, <4>2 DEF RoundsInv, Outcomes, Name, Exists
    <3>4. CASE retry' = [retry EXCEPT ![c] = @ + 1] /\ Goto(c, "refetch")
      <4>1. retry'[c] = retry[c] + 1 /\ pc'[c] = "refetch"
        BY <3>4, GotoPc DEF TypeOK
      <4> QED
        BY <1>1, <2>2, <3>2, <4>1 DEF RoundsInv, Name
    <3> QED
      BY <2>2, <3>3, <3>4 DEF PreconditionFailed
  <2> QED
    BY <1>7, <2>1, <2>2 DEF UpdateMetadata
<1>8. CASE Refetch(c)
  <2>1. /\ pc'[c] = "update" /\ retry' = retry /\ retry[c] < blobs[n].etag
        /\ props'[c].etag = blobs[n].etag
    BY <1>1, <1>8, GotoPc DEF Refetch, RoundsInv, TypeOK
  <2> QED
    BY <2>1 DEF RoundsInv
<1> QED
  BY <1>3, <1>4, <1>5, <1>6, <1>7, <1>8 DEF CallStep

LEMMA OthersAside ==
  ASSUME TypeOK, NEW c \in Calls, WriteAsync(c) \/ CallStep(c), NEW d \in Calls, d # c
  PROVE  /\ chunk' = chunk /\ pc'[d] \in {pc[d], "crashed"}
         /\ props'[d] = props[d] /\ retry'[d] = retry[d]
<1>1. OthersPc(c)
  <2>1. CASE UpdateMetadata(c) /\ PreconditionFailed(c) /\ pc[c] = "update"
    BY <2>1, PreconditionFailedPc DEF InFlight, Requests
  <2>2. CASE EvictOldest(c)
    BY <2>2 DEF EvictOldest, OthersPc
  <2>3. CASE \E label : Goto(c, label)
    BY <2>3, GotoPc
  <2> QED
    BY <2>1, <2>2, <2>3 DEF CallStep, WriteAsync, UploadFirstVersion, CheckVersions,
       UploadGuidBlob, UpdateMetadata, Refetch
<1>2. chunk' = chunk /\ props'[d] = props[d]
  BY DEF CallStep, WriteAsync, UploadFirstVersion, CheckVersions, UploadGuidBlob,
     EvictOldest, UpdateMetadata, Refetch, FirstVersionUploaded, GuidBlobUploaded,
     OldestDeleted, VersionsUpdated, TypeOK
<1>3. retry'[d] = retry[d]
  BY DEF CallStep, WriteAsync, UploadFirstVersion, CheckVersions, UploadGuidBlob,
     EvictOldest, UpdateMetadata, Refetch, FirstVersionUploaded, GuidBlobUploaded,
     OldestDeleted, PreconditionFailed, TypeOK
<1> QED
  BY <1>1, <1>2, <1>3 DEF OthersPc

LEMMA RoundsKept ==
  ASSUME NoFaults, TypeOK, IndexInv, \A c \in Calls : RoundsInv(c), [WriteNext]_vars
  PROVE  \A c \in Calls : RoundsInv(c)'
<1> TAKE d \in Calls
<1>1. CASE UNCHANGED vars
  BY <1>1 DEF vars, writeVars, RoundsInv, Name, Exists
<1>2. ASSUME NEW c \in Calls, WriteAsync(c) \/ CallStep(c)
      PROVE  RoundsInv(d)'
  <2>1. DefaultsStep
    BY NextOK DEF StepOK
  <2>2. CASE d = c
    BY <1>2, <2>2, OwnRounds
  <2>3. CASE d # c
    BY <1>2, <2>1, <2>3, OthersAside, OtherRounds
  <2> QED
    BY <2>2, <2>3
<1> QED
  BY <1>1, <1>2, FaultFree

(* Without faults a call gives up only after at least MaxRetries           *)
(* publications of versions of its block, whatever the numbers of rounds,  *)
(* calls and versions: contention alone can make a write fail, but then    *)
(* others have got through, as many as the call had rounds.                *)
THEOREM GivesUpWhenBeaten ==
  ASSUME NoFaults
  PROVE  Spec => []GivesUpOnlyWhenBeaten
<1>1. Init => \A c \in Calls : RoundsInv(c)
  BY DEF Init, WriteInit, RoundsInv
<1>2. /\ TypeOK /\ IndexInv /\ (\A c \in Calls : RoundsInv(c)) /\ [WriteNext]_vars
      => (\A c \in Calls : RoundsInv(c))'
  BY RoundsKept
<1>3. (\A c \in Calls : RoundsInv(c)) => GivesUpOnlyWhenBeaten
  BY DEF RoundsInv, GivesUpOnlyWhenBeaten
<1> QED
  BY <1>1, <1>2, <1>3, IndexInvariant, PTL DEF Spec

(* Where the steps without faults, of a build without assertions, lead.    *)
QuietStep(c) ==
  \/ /\ UNCHANGED <<blobs, chunk, props, existing, guid>>
     /\ pc'[c] \in {"upload", "properties", "refetch", "failed", "returned"}
     /\ pc'[c] = "returned" => pc[c] \in Early
  \/ FirstVersionUploaded(c) /\ pc[c] \in Early /\ pc'[c] = "returned"
  \/ Fetched(c) /\ pc'[c] = "uploadGuid"
  \/ GuidBlobUploaded(c) /\ pc'[c] = "update"
  \/ OldestDeleted(c) /\ pc'[c] = "update"
  \/ VersionsUpdated(c) /\ pc'[c] = "returned"
  \/ Refetch(c) /\ pc'[c] = "update"

LEMMA QuietShape ==
  ASSUME TypeOK, ~AssertsEnabled, NEW c \in Calls, WriteAsync(c) \/ CallStep(c)
  PROVE  /\ \A d \in Calls \ {c} : pc'[d] = pc[d]
         /\ QuietStep(c)
<1>1. ASSUME NEW label, Goto(c, label)
      PROVE  pc'[c] = label /\ \A d \in Calls \ {c} : pc'[d] = pc[d]
  BY <1>1 DEF Goto, TypeOK
<1>2. CASE WriteAsync(c)
  BY <1>1, <1>2 DEF WriteAsync, QuietStep
<1>3. CASE UploadFirstVersion(c)
  BY <1>1, <1>3 DEF UploadFirstVersion, FirstVersionUploaded, Early, QuietStep
<1>4. CASE CheckVersions(c)
  <2>1. CASE UNCHANGED <<props, existing>> /\ Goto(c, "returned")
    BY <1>1, <1>4, <2>1 DEF CheckVersions, Early, QuietStep
  <2>2. CASE ~(UNCHANGED <<props, existing>> /\ Goto(c, "returned"))
    <3>1. Fetched(c) /\ Goto(c, "uploadGuid")
      BY <1>4, <2>2 DEF CheckVersions, Fetched
    <3> QED
      BY <1>1, <3>1 DEF QuietStep
  <2> QED
    BY <2>1, <2>2
<1>5. CASE UploadGuidBlob(c)
  BY <1>1, <1>5 DEF UploadGuidBlob, QuietStep
<1>6. CASE EvictOldest(c)
  BY <1>6 DEF EvictOldest, OldestDeleted, QuietStep
<1>7. CASE UpdateMetadata(c)
  <2>1. CASE VersionsUpdated(c) /\ Goto(c, "returned")
    BY <1>1, <2>1 DEF QuietStep
  <2>2. CASE PreconditionFailed(c) /\ UNCHANGED <<blobs, chunk, props, existing, guid>>
    <3>1. Goto(c, "failed") \/ Goto(c, "refetch")
      BY <2>2 DEF PreconditionFailed, StorageException
    <3> QED
      BY <1>1, <1>7, <2>2, <3>1 DEF QuietStep
  <2> QED
    BY <1>7, <2>1, <2>2 DEF UpdateMetadata
<1>8. CASE Refetch(c)
  BY <1>1, <1>8 DEF Refetch, QuietStep
<1> QED
  BY <1>2, <1>3, <1>4, <1>5, <1>6, <1>7, <1>8 DEF CallStep

(* What a call is about to drop from the list it has deleted.              *)
EvictedGone(d) ==
  \A n \in BlobNames :
    n = Name(d) /\ pc[d] = "update" /\ ETagMatches(d) =>
      \A v \in Listed(n) : v \in Elements(existing[d]) \/ ~Exists(v.location)

(* The call that answers for the blob at a GUID: it is not done with it,   *)
(* gave up, or has it listed.                                              *)
Accounts(e, g) ==
  /\ guid[e] = g
  /\ \/ InFlight(e) \/ pc[e] = "failed"
     \/ /\ pc[e] = "returned"
        /\ \E n \in BlobNames : \E v \in Listed(n) : v.location = g

LeakInv ==
  /\ \A d \in Calls : EvictedGone(d)
  /\ \A g \in Guids : Exists(g) => \E e \in Calls : Accounts(e, g)

LEMMA ElementsOfHeadTail ==
  ASSUME NEW s \in Seq(Versions), s # <<>>, NEW v \in Elements(s)
  PROVE  v = Head(s) \/ v \in Elements(Tail(s))
<1>1. PICK i \in 1 .. Len(s) : v = s[i]
  BY DEF Elements
<1>2. /\ Len(s) \in Nat /\ Head(s) = s[1] /\ Len(Tail(s)) = Len(s) - 1
      /\ \A j \in 1 .. Len(s) - 1 : Tail(s)[j] = s[j + 1]
  BY ElementsOfTail, LenProperties
<1>3. CASE i # 1
  <2>1. i - 1 \in 1 .. Len(s) - 1 /\ (i - 1) + 1 = i
    BY <1>2, <1>3
  <2>2. Tail(s)[i - 1] = v
    BY <1>1, <1>2, <2>1
  <2> QED
    BY <1>2, <2>1, <2>2 DEF Elements
<1> QED
  BY <1>1, <1>2, <1>3

(* A listed blob that is gone does not come back.                          *)
LEMMA GoneStaysGone ==
  ASSUME FreshGuids, TypeOK, IndexInv, ContentInv, NEW c \in Calls, NoEffect \/ Effect(c),
         NEW n \in BlobNames, NEW v \in Listed(n), ~Exists(v.location)
  PROVE  blobs'[v.location] = NoBlob
<1>1. PICK e \in Calls : Owns(e, n, v)
  BY DEF ContentInv, EntriesOwned
<1>2. PICK g \in Guids : g = v.location /\ g = guid[e]
  BY <1>1 DEF Owns, VersionAt
<1>3. CASE GuidBlobUploaded(c)
  <2>1. PICK new \in Guids : Upload(new, chunk[c]) /\ \A d \in Calls : guid[d] # new
    BY <1>3, GuidIsNew
  <2>2. blobs'[g] = blobs[g]
    BY <1>2, <2>1 DEF Upload, TypeOK, ContainerTypeOK, Locations
  <2> QED
    BY <1>2, <2>2 DEF Exists
<1>4. CASE ~GuidBlobUploaded(c)
  BY <1>2, <1>4, GuidBlobsKept DEF Exists
<1> QED
  BY <1>3, <1>4

LEMMA OtherEvictedGone ==
  ASSUME FreshGuids, TypeOK, IndexInv, ContentInv,
         NEW c \in Calls, NoEffect \/ Effect(c),
         NEW d \in Calls, EvictedGone(d), pc'[d] = "update" => pc[d] = "update",
         props'[d] = props[d], existing'[d] = existing[d]
  PROVE  EvictedGone(d)'
<1> SUFFICES ASSUME NEW n \in BlobNames, n = chunk'[d].name, pc'[d] = "update",
                    props'[d].etag = blobs'[n].etag, NEW v \in Listed(n)'
             PROVE  v \in Elements(existing[d]) \/ blobs'[v.location] = NoBlob
  BY DEF EvictedGone, ETagMatches, Name, Exists, Elements
<1>1. /\ n = Name(d) /\ pc[d] = "update" /\ Exists(n)
      /\ props[d].etag \in 1 .. blobs[n].etag /\ blobs[n].etag \in Nat
  <2>1. n = Name(d)
    BY NamesStay DEF ContentInv
  <2> QED
    BY <2>1, CallTypes DEF IndexInv, CallInv, Requests, Blobs
<1>2. Exists(n)' /\ v \in Elements(List(n)')
  BY DEF Listed, Elements, List
<1>3. CASE blobs'[n] = blobs[n]
  <2>1. v \in Listed(n) /\ ETagMatches(d)
    BY <1>1, <1>2, <1>3 DEF Listed, Exists, ETagMatches
  <2>2. v \in Elements(existing[d]) \/ ~Exists(v.location)
    BY <1>1, <2>1 DEF EvictedGone
  <2> QED
    BY <2>1, <2>2, GoneStaysGone
<1>4. CASE FirstVersionUploaded(c) /\ n = Name(c)
  BY <1>1, <1>4 DEF FirstVersionUploaded
<1>5. CASE VersionsUpdated(c) /\ n = Name(c)
  <2>1. blobs'[n].etag = blobs[n].etag + 1
    BY <1>1, <1>5
       DEF VersionsUpdated, SetMetadata, NextETag, TypeOK, ContainerTypeOK, Locations
  <2> QED
    BY <1>1, <2>1
<1> QED
  BY <1>2, <1>3, <1>4, <1>5, ListChange

LEMMA OwnEvictedGone ==
  ASSUME FreshGuids, TypeOK, IndexInv, ContentInv, NEW c \in Calls, NoEffect \/ Effect(c),
         EvictedGone(c),
         \/ GuidBlobUploaded(c)
         \/ OldestDeleted(c)
         \/ Refetch(c)
  PROVE  EvictedGone(c)'
<1> SUFFICES ASSUME NEW n \in BlobNames, n = chunk'[c].name,
                    props'[c].etag = blobs'[n].etag, NEW v \in Listed(n)'
             PROVE  v \in Elements(existing'[c]) \/ blobs'[v.location] = NoBlob
  BY DEF EvictedGone, ETagMatches, Name, Exists, Elements
<1>1. n = Name(c) /\ Exists(n)
  <2>1. n = Name(c)
    BY NamesStay DEF ContentInv
  <2> QED
    BY <2>1 DEF GuidBlobUploaded, OldestDeleted, Refetch, IndexInv, CallInv, Requests
<1>2. blobs'[n] = blobs[n]
  BY <1>1, GuidBlobUploadedStep, OldestDeletedStep DEF Refetch
<1>3. v \in Listed(n) /\ List(n) \in Seq(Versions) /\ Listed(n) = Elements(List(n))
  BY <1>1, <1>2, ListType DEF Listed, Exists
<1>4. ASSUME guid'[c] \in Guids, existing'[c] = Append(List(n), VersionAt(c, guid'[c]))
      PROVE  v \in Elements(existing'[c])
  <2>1. PICK own \in Versions : own = VersionAt(c, guid'[c])
    BY <1>4, CallTypes
  <2>2. Elements(existing'[c]) = Elements(List(n)) \cup {own}
    BY <1>3, <1>4, <2>1, ElementsOfAppend
  <2> QED
    BY <1>3, <2>2
<1>5. CASE GuidBlobUploaded(c)
  <2>1. existing[c] = List(n)
    BY <1>1, <1>2, <1>5
       DEF GuidBlobUploaded, IndexInv, CallInv, ETagMatches, List
  <2> QED
    BY <1>4, <1>5, <2>1, GuidBlobUploadedStep
<1>6. CASE Refetch(c)
  <2>1. guid[c] \in Guids /\ existing'[c] = Append(List(n), VersionAt(c, guid[c]))
    BY <1>1, <1>6, RefetchedList DEF TypeOK
  <2>2. guid'[c] = guid[c]
    BY <1>6 DEF Refetch
  <2> QED
    BY <1>4, <2>1, <2>2
<1>7. CASE OldestDeleted(c)
  <2>1. /\ pc[c] = "update" /\ OverCapacity(c) /\ ETagMatches(c)
        /\ existing'[c] = Tail(existing[c])
    BY <1>1, <1>2, <1>7 DEF OldestDeleted, ETagMatches, TypeOK
  <2>2. existing[c] \in Seq(Versions) /\ existing[c] # <<>>
    BY <2>1, CallTypes, WriteAssumptions, EmptySeq DEF OverCapacity
  <2>3. v \in Elements(existing[c]) \/ ~Exists(v.location)
    BY <1>1, <1>3, <2>1 DEF EvictedGone
  <2>4. CASE ~Exists(v.location)
    BY <1>3, <2>4, GoneStaysGone
  <2>5. CASE v = Head(existing[c])
    <3>1. v \in Versions
      BY <2>2, <2>5, HeadTailProperties
    <3> QED
      BY <1>7, <2>5, <3>1
         DEF OldestDeleted, Delete, TypeOK, ContainerTypeOK, Versions, Locations
  <2> QED
    BY <2>1, <2>2, <2>3, <2>4, <2>5, ElementsOfHeadTail
<1> QED
  BY <1>5, <1>6, <1>7

(* A listed version whose blob is there stays listed.                      *)
LEMMA ListedStays ==
  ASSUME FreshGuids, TypeOK, IndexInv, ContentInv, DefaultsStep,
         NEW c \in Calls, NoEffect \/ Effect(c), EvictedGone(c),
         NEW n \in BlobNames, NEW v \in Listed(n), blobs'[v.location] # NoBlob
  PROVE  v \in Listed(n)'
<1>1. Exists(n) /\ Exists(n)'
  BY DEF Listed, DefaultsStep, Evolves, Exists
<1>2. CASE blobs'[n] = blobs[n]
  BY <1>1, <1>2 DEF Listed, Exists
<1>3. CASE FirstVersionUploaded(c) /\ n = Name(c)
  BY <1>1, <1>3 DEF FirstVersionUploaded
<1>4. CASE VersionsUpdated(c) /\ n = Name(c) /\ List(n)' = existing[c]
  <2>1. v \in Elements(existing[c]) \/ ~Exists(v.location)
    BY <1>4 DEF EvictedGone, VersionsUpdated
  <2>2. v \in Elements(existing[c])
    BY <2>1, GoneStaysGone
  <2>3. blobs'[n].metadata.versions = existing[c] /\ blobs'[n] # NoBlob
    BY <1>1, <1>4 DEF List, Exists
  <2> QED
    BY <2>2, <2>3 DEF Listed, Exists, Elements
<1> QED
  BY <1>1, <1>2, <1>3, <1>4, ListChange

LEMMA PublisherListed ==
  ASSUME FreshGuids, TypeOK, IndexInv, NEW c \in Calls, VersionsUpdated(c)
  PROVE  \E n \in BlobNames : \E v \in Listed(n)' : v.location = guid[c]
<1>1. PICK n \in BlobNames : n = Name(c)
  BY CallTypes
<1>2. /\ Exists(n) /\ guid[c] \in Guids
      /\ PushedOnto(existing[c], List(n), VersionAt(c, guid[c]))
  BY <1>1 DEF VersionsUpdated, IndexInv, CallInv, Requests, List
<1>3. PICK own \in Versions : own = VersionAt(c, guid[c])
  BY <1>2, CallTypes
<1>4. own \in Elements(existing[c])
  BY <1>2, <1>3, ListType, PushedIsElement
<1>5. blobs'[n].metadata.versions = existing[c]
  BY <1>1 DEF VersionsUpdated, SetMetadata, TypeOK, ContainerTypeOK, Locations
<1>6. blobs'[n] # NoBlob
  <2>1. Name(c)' = n
    BY <1>1 DEF VersionsUpdated, Name
  <2> QED
    BY <2>1, VersionsUpdatedStep DEF Exists
<1>7. own \in Listed(n)'
  BY <1>4, <1>5, <1>6 DEF Listed, Exists, Elements
<1> QED
  BY <1>3, <1>7 DEF VersionAt

LEMMA AccountsKept ==
  ASSUME FreshGuids, ~AssertsEnabled, TypeOK, IndexInv, ContentInv, LeakInv, DefaultsStep,
         NEW c \in Calls, WriteAsync(c) \/ CallStep(c),
         NEW g \in Guids, blobs'[g] # NoBlob
  PROVE  \E e \in Calls : Accounts(e, g)'
<1>1. NoEffect \/ Effect(c)
  BY CallShape
<1>2. GuidsApart /\ EvictedGone(c)
  BY DEF ContentInv, LeakInv
<1>3. ASSUME NEW e \in Calls, e # c, Accounts(e, g), guid'[e] = guid[e]
      PROVE  Accounts(e, g)'
  <2>1. pc'[e] = pc[e]
    BY <1>3, QuietShape
  <2>2. ASSUME NEW n \in BlobNames, NEW v \in Listed(n), v.location = g
        PROVE  v \in Listed(n)'
    BY <1>1, <1>2, <2>2, ListedStays
  <2> QED
    BY <1>3, <2>1, <2>2 DEF Accounts, InFlight
<1>4. CASE GuidBlobUploaded(c)
  <2>1. PICK new \in Guids : /\ guid' = [guid EXCEPT ![c] = new]
                            /\ Upload(new, chunk[c])
    BY <1>4, GuidIsNew
  <2>2. CASE g = new
    <3>1. guid'[c] = g /\ guid[c] # g
      BY <1>2, <1>4, <2>1, <2>2, WriteAssumptions
         DEF GuidBlobUploaded, GuidsApart, Early, TypeOK
    <3>2. pc'[c] = "update"
      BY <3>1, QuietShape DEF QuietStep, FirstVersionUploaded, Fetched,
         VersionsUpdated
    <3> QED
      BY <3>1, <3>2 DEF Accounts, InFlight, Requests
  <2>3. CASE g # new
    <3>1. Exists(g)
      BY <2>1, <2>3 DEF Upload, TypeOK, ContainerTypeOK, Locations, Exists
    <3>2. PICK e \in Calls : Accounts(e, g)
      BY <3>1 DEF LeakInv
    <3>3. guid[c] = NoGuid
      BY <1>2, <1>4 DEF GuidBlobUploaded, GuidsApart, Early
    <3>4. e # c
      BY <3>2, <3>3, WriteAssumptions DEF Accounts
    <3>5. guid'[e] = guid[e]
      BY <2>1, <3>4 DEF TypeOK
    <3> QED
      BY <1>3, <3>2, <3>4, <3>5
  <2> QED
    BY <2>2, <2>3
<1>5. CASE ~GuidBlobUploaded(c)
  <2>1. guid' = guid
    BY <1>1, <1>2, <1>5, GuidsApartKept DEF SameGuids
  <2>2. Exists(g)
    BY <1>1, <1>5, GuidBlobsKept DEF Exists
  <2>3. PICK e \in Calls : Accounts(e, g)
    BY <2>2 DEF LeakInv
  <2>4. CASE e # c
    BY <1>3, <2>1, <2>3, <2>4
  <2>5. CASE e = c
    <3>1. guid'[c] = g /\ guid[c] = g /\ pc[c] \notin Early
      BY <1>2, <2>1, <2>3, <2>5, WriteAssumptions DEF Accounts, GuidsApart
    <3>2. \/ pc'[c] \in Requests \cup {"failed"}
          \/ VersionsUpdated(c) /\ pc'[c] = "returned"
      BY <1>5, <3>1, QuietShape DEF QuietStep, Requests
    <3>3. CASE pc'[c] \in Requests \cup {"failed"}
      BY <3>1, <3>3 DEF Accounts, InFlight
    <3>4. CASE VersionsUpdated(c) /\ pc'[c] = "returned"
      <4>1. \E n \in BlobNames : \E v \in Listed(n)' : v.location = g
        BY <3>1, <3>4, PublisherListed
      <4> QED
        BY <3>1, <3>4, <4>1 DEF Accounts
    <3> QED
      BY <3>2, <3>3, <3>4
  <2> QED
    BY <2>4, <2>5
<1> QED
  BY <1>4, <1>5

LEMMA LeakKept ==
  ASSUME FreshGuids, NoFaults, ~AssertsEnabled, TypeOK, IndexInv, ContentInv, LeakInv,
         [WriteNext]_vars
  PROVE  LeakInv'
<1>1. CASE UNCHANGED vars
  BY <1>1 DEF vars, writeVars, LeakInv, EvictedGone, Accounts, Exists, Listed,
     ETagMatches, Name, InFlight, Elements
<1>2. ASSUME NEW c \in Calls, WriteAsync(c) \/ CallStep(c)
      PROVE  LeakInv'
  <2>1. (NoEffect \/ Effect(c)) /\ DefaultsStep
    BY <1>2, CallShape, NextOK DEF StepOK
  <2>2. ASSUME NEW d \in Calls, d # c
        PROVE  EvictedGone(d)'
    <3>1. pc'[d] = pc[d]
      BY <1>2, <2>2, QuietShape
    <3>2. props'[d] = props[d] /\ existing'[d] = existing[d]
      BY <2>1, <2>2, HolderShape DEF Keeps
    <3>3. EvictedGone(d)
      BY DEF LeakInv
    <3> QED
      BY <2>1, <3>1, <3>2, <3>3, OtherEvictedGone
  <2>3. EvictedGone(c)'
    <3>1. CASE pc'[c] # "update"
      BY <3>1 DEF EvictedGone
    <3>2. CASE pc'[c] = "update"
      <4>1. GuidBlobUploaded(c) \/ OldestDeleted(c) \/ Refetch(c)
        BY <1>2, <3>2, QuietShape DEF QuietStep
      <4>2. EvictedGone(c)
        BY DEF LeakInv
      <4> QED
        BY <2>1, <4>1, <4>2, OwnEvictedGone
    <3> QED
      BY <3>1, <3>2
  <2>4. \A g \in Guids : Exists(g)' => \E e \in Calls : Accounts(e, g)'
    BY <1>2, <2>1, AccountsKept DEF Exists
  <2> QED
    BY <2>2, <2>3, <2>4 DEF LeakInv
<1> QED
  BY <1>1, <1>2, FaultFree

(* Without faults, and as long as GUIDs do not repeat, no upload is left   *)
(* behind for nothing: the blob at a GUID is listed, or its call is still  *)
(* at work or gave up, for any number of calls, rounds and versions.       *)
(* (An assertion would leave the blobs of the other calls of its process.) *)
THEOREM NoUploadLeaks ==
  ASSUME FreshGuids, NoFaults, ~AssertsEnabled
  PROVE  Spec => []NoLeakedGuidBlob
<1>1. Init => LeakInv
  <2>1. Init => \A loc \in Locations : ~Exists(loc)
    BY DEF Init, ContainerInit, Exists
  <2>2. Init => \A c \in Calls : pc[c] # "update"
    BY DEF Init, WriteInit
  <2> QED
    BY <2>1, <2>2 DEF LeakInv, EvictedGone, Locations
<1>2. TypeOK /\ IndexInv /\ ContentInv /\ LeakInv /\ [WriteNext]_vars => LeakInv'
  BY LeakKept
<1>3. LeakInv => NoLeakedGuidBlob
  BY DEF LeakInv, Accounts, NoLeakedGuidBlob
<1> QED
  BY <1>1, <1>2, <1>3, ContentInvariant, PTL DEF Spec

=============================================================================
