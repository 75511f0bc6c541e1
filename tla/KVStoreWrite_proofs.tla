------------------------ MODULE KVStoreWrite_proofs ------------------------
(***************************************************************************)
(* Theorems about KVStoreWrite, for any number of calls, chunks, processes *)
(* and versions, any faults and any repetition of GUIDs.                   *)
(***************************************************************************)
EXTENDS KVStoreWrite, SequenceTheorems, TLAPS

-----------------------------------------------------------------------------
(* Type correctness.                                                       *)

PcValues == {"idle"} \cup Requests \cup Outcomes

(* The request-independent effects of a step keep pc in its type.          *)
LEMMA GotoType ==
  ASSUME TypeOK, NEW c \in Calls, NEW label \in PcValues, Goto(c, label)
  PROVE  pc' \in [Calls -> PcValues]
  BY DEF TypeOK, Goto, PcValues

LEMMA ProcessDiesType ==
  ASSUME TypeOK, NEW s, ProcessDies(s)
  PROVE  pc' \in [Calls -> PcValues]
  BY DEF TypeOK, ProcessDies, PcValues, Outcomes

LEMMA StorageExceptionType ==
  ASSUME TypeOK, NEW c \in Calls, StorageException(c)
  PROVE  pc' \in [Calls -> PcValues]
  <1>1. "failed" \in PcValues
    BY DEF PcValues, Outcomes
  <1> QED
    BY <1>1, GotoType, ProcessDiesType DEF StorageException

LEMMA PreconditionFailedType ==
  ASSUME TypeOK, NEW c \in Calls, PreconditionFailed(c)
  PROVE  pc' \in [Calls -> PcValues] /\ retry' \in [Calls -> Nat]
  <1>1. "refetch" \in PcValues
    BY DEF PcValues, Requests
  <1>2. retry \in [Calls -> Nat]
    BY DEF TypeOK
  <1>3. CASE /\ retry[c] = MaxRetries - 1
             /\ StorageException(c)
             /\ UNCHANGED retry
    BY <1>2, <1>3, StorageExceptionType
  <1>4. CASE /\ retry' = [retry EXCEPT ![c] = @ + 1]
             /\ Goto(c, "refetch")
    BY <1>1, <1>2, <1>4, GotoType
  <1> QED
    BY <1>3, <1>4 DEF PreconditionFailed

(* What a call finds in the container and carries around is well typed.    *)
LEMMA CallTypes ==
  ASSUME TypeOK, NEW c \in Calls
  PROVE  /\ chunk[c] \in ChunkType
         /\ Name(c) \in BlobNames /\ Name(c) \in Locations
         /\ \A g \in Guids : g \in Locations /\ VersionAt(c, g) \in Versions
         /\ Exists(Name(c)) => blobs[Name(c)] \in Blobs
         /\ existing[c] \in Seq(Versions)
         /\ props[c] \in [etag : Nat, metadata : Metadata]
  <1>1. chunk[c] \in ChunkType
    BY WriteAssumptions DEF TypeOK
  <1>2. Name(c) \in BlobNames /\ Name(c) \in Locations
    BY <1>1 DEF Name, ChunkType, Locations
  <1>3. \A g \in Guids : g \in Locations /\ VersionAt(c, g) \in Versions
    BY <1>1 DEF VersionAt, Versions, ChunkType, Locations
  <1>4. Exists(Name(c)) => blobs[Name(c)] \in Blobs
    BY <1>2 DEF TypeOK, ContainerTypeOK, Exists
  <1> QED
    BY <1>1, <1>2, <1>3, <1>4 DEF TypeOK

LEMMA UploadType ==
  ASSUME ContainerTypeOK, NEW loc \in Locations, NEW ck \in ChunkType,
         Upload(loc, ck)
  PROVE  ContainerTypeOK'
  <1>1. NextETag(loc) \in Nat \ {0}
    BY DEF ContainerTypeOK, NextETag, Exists, Blobs
  <1>2. <<>> \in Seq(Versions)
    OBVIOUS
  <1>3. [hash |-> ck.hash, parent |-> ck.parent, versions |-> <<>>] \in Metadata
    BY <1>2 DEF Metadata, ChunkType
  <1>4. ck.buffer \in Buffers
    BY DEF ChunkType
  <1>5. [etag     |-> NextETag(loc),
         buffer   |-> ck.buffer,
         metadata |-> [hash |-> ck.hash, parent |-> ck.parent,
                       versions |-> <<>>]] \in Blobs
    BY <1>1, <1>3, <1>4 DEF Blobs
  <1> QED
    BY <1>5 DEF ContainerTypeOK, Upload

LEMMA SetMetadataType ==
  ASSUME ContainerTypeOK, NEW loc \in Locations, Exists(loc),
         NEW md \in Metadata, SetMetadata(loc, md)
  PROVE  ContainerTypeOK'
  <1>1. blobs[loc] \in Blobs
    BY DEF ContainerTypeOK, Exists
  <1>2. NextETag(loc) \in Nat \ {0}
    BY <1>1 DEF NextETag, Blobs
  <1>3. [etag     |-> NextETag(loc),
         buffer   |-> blobs[loc].buffer,
         metadata |-> md] \in Blobs
    BY <1>1, <1>2 DEF Blobs
  <1> QED
    BY <1>3 DEF ContainerTypeOK, SetMetadata

LEMMA DeleteType ==
  ASSUME ContainerTypeOK, NEW loc, Delete(loc)
  PROVE  ContainerTypeOK'
  BY DEF ContainerTypeOK, Delete

-----------------------------------------------------------------------------
(* What a step may do to the default blobs, in the terms of the abstract   *)
(* index and in those the other calls depend on.                           *)

IndexOf == [n \in BlobNames |-> VersionIndexOf(n)]

Evolves(n) ==
  \/ blobs'[n] = blobs[n]
  \/ ~Exists(n)
  \/ /\ Exists(n)'
     /\ blobs'[n].etag = blobs[n].etag + 1
     /\ blobs'[n].metadata.hash = blobs[n].metadata.hash
     /\ blobs'[n].metadata.parent = blobs[n].metadata.parent

DefaultsStep ==
  /\ ContainerTypeOK'
  /\ \A n \in BlobNames : Evolves(n) /\ DefaultInv(n)'
  /\ [Index!Next]_IndexOf

(* A step that leaves the default blobs alone.                             *)
LEMMA SameDefaults ==
  ASSUME IndexInv, ContainerTypeOK',
         \A n \in BlobNames : blobs'[n] = blobs[n]
  PROVE  DefaultsStep
  <1>1. \A n \in BlobNames : Evolves(n) /\ DefaultInv(n)'
    BY DEF IndexInv, Evolves, DefaultInv, Exists
  <1>2. IndexOf' = IndexOf
    BY DEF IndexOf, VersionIndexOf, Exists
  <1> QED
    BY <1>1, <1>2 DEF DefaultsStep

LEMMA FirstVersionUploadedStep ==
  ASSUME TypeOK, IndexInv, NEW c \in Calls, FirstVersionUploaded(c)
  PROVE  DefaultsStep /\ Exists(Name(c))'
  <1>0. PICK n \in BlobNames : n = Name(c)
    BY CallTypes
  <1> DEFINE b == [etag     |-> 1,
                   buffer   |-> chunk[c].buffer,
                   metadata |-> [hash     |-> chunk[c].hash,
                                 parent   |-> chunk[c].parent,
                                 versions |-> <<>>]]
  <1>1. n \in Locations /\ chunk[c] \in ChunkType /\ chunk' = chunk
    BY <1>0, CallTypes DEF FirstVersionUploaded
  <1>2. ContainerTypeOK'
    BY <1>0, <1>1, UploadType DEF FirstVersionUploaded, TypeOK
  <1>3. blobs' = [blobs EXCEPT ![n] = b]
    BY <1>0 DEF FirstVersionUploaded, Upload, NextETag
  <1>4. blobs'[n] = b /\ \A m \in BlobNames \ {n} : blobs'[m] = blobs[m]
    BY <1>1, <1>3 DEF TypeOK, ContainerTypeOK, Locations
  <1>5. Exists(n)'
    <2>1. b \in Blobs
      BY <1>1, <1>4, EmptySeq DEF ChunkType, Blobs, Metadata
    <2> QED
      BY <1>4, <2>1, ContainerAssumption DEF Exists
  <1>6. ~Exists(n)
    BY <1>0 DEF FirstVersionUploaded
  <1>7. ASSUME NEW m \in BlobNames
        PROVE  Evolves(m) /\ DefaultInv(m)'
    <2>1. CASE m # n
      BY <1>4, <2>1 DEF Evolves, DefaultInv, Exists, IndexInv
    <2>2. CASE m = n
      <3>1. Evolves(m)
        BY <1>6, <2>2 DEF Evolves
      <3>2. Len(b.metadata.versions) <= MaxVersions /\ ~(b.etag > 1)
        BY WriteAssumptions, EmptySeq
      <3> HIDE DEF b
      <3>3. DefaultInv(m)'
        BY <1>4, <2>2, <3>2 DEF DefaultInv
      <3> QED
        BY <3>1, <3>3
    <2> QED
      BY <2>1, <2>2
  <1>8. Index!Next
    <2> DEFINE f == [hash |-> chunk[c].hash, parent |-> chunk[c].parent,
                     buffer |-> chunk[c].buffer]
    <2>1. f \in [hash : Hashes, parent : Hashes, buffer : Buffers]
      BY <1>1 DEF ChunkType
    <2>2. IndexOf[n] = NoBlob
      BY <1>1, <1>6 DEF IndexOf, VersionIndexOf
    <2>3. VersionIndexOf(n)' = [first |-> f, additional |-> <<>>]
      BY <1>4, <1>5 DEF VersionIndexOf
    <2>4. \A m \in BlobNames \ {n} : VersionIndexOf(m)' = VersionIndexOf(m)
      BY <1>4 DEF VersionIndexOf, Exists
    <2>5. IndexOf' = [IndexOf EXCEPT ![n] = [first |-> f, additional |-> <<>>]]
      BY <1>1, <2>3, <2>4 DEF IndexOf
    <2>6. Index!Create(n)
      BY <2>1, <2>2, <2>5 DEF Index!Create, IndexOf
    <2> QED
      BY <1>1, <2>6 DEF Index!Next
  <1>9. Exists(Name(c))'
    BY <1>0, <1>1, <1>5 DEF Exists, Name
  <1> QED
    BY <1>2, <1>7, <1>8, <1>9 DEF DefaultsStep

LEMMA GuidBlobUploadedStep ==
  ASSUME TypeOK, IndexInv, NEW c \in Calls, GuidBlobUploaded(c)
  PROVE  /\ DefaultsStep
         /\ blobs[Name(c)] = blobs'[Name(c)]
         /\ guid' \in [Calls -> Guids \cup {NoGuid}]
         /\ existing' \in [Calls -> Seq(Versions)]
         /\ guid'[c] \in Guids
         /\ existing'[c] = Append(existing[c], VersionAt(c, guid'[c]))
         /\ \A d \in Calls \ {c} : guid'[d] = guid[d] /\ existing'[d] = existing[d]
  <1>1. PICK g \in Guids :
          /\ guid' = [guid EXCEPT ![c] = g]
          /\ Upload(g, chunk[c])
          /\ existing' = [existing EXCEPT ![c] = Append(@, VersionAt(c, g))]
    BY DEF GuidBlobUploaded
  <1>2. /\ g \in Locations /\ chunk[c] \in ChunkType
        /\ VersionAt(c, g) \in Versions /\ existing[c] \in Seq(Versions)
    BY CallTypes
  <1>3. ContainerTypeOK'
    BY <1>1, <1>2, UploadType DEF TypeOK
  <1>4. \A n \in BlobNames : blobs'[n] = blobs[n]
    BY <1>1, ContainerAssumption DEF Upload, TypeOK, ContainerTypeOK, Locations
  <1>5. DefaultsStep
    BY <1>3, <1>4, SameDefaults
  <1>6. Append(existing[c], VersionAt(c, g)) \in Seq(Versions)
    BY <1>2, AppendProperties
  <1>7. guid' \in [Calls -> Guids \cup {NoGuid}] /\ guid'[c] = g
    BY <1>1 DEF TypeOK
  <1>8. /\ existing' \in [Calls -> Seq(Versions)]
        /\ existing'[c] = Append(existing[c], VersionAt(c, g))
    BY <1>1, <1>6 DEF TypeOK
  <1>9. \A d \in Calls \ {c} : guid'[d] = guid[d] /\ existing'[d] = existing[d]
    BY <1>1 DEF TypeOK
  <1> QED
    BY <1>4, <1>5, <1>7, <1>8, <1>9, CallTypes

LEMMA OldestDeletedStep ==
  ASSUME TypeOK, IndexInv, NEW c \in Calls, OldestDeleted(c)
  PROVE  /\ DefaultsStep
         /\ blobs[Name(c)] = blobs'[Name(c)]
  <1>1. existing[c] \in Seq(Versions) /\ existing[c] # <<>>
    <2>1. Len(existing[c]) > MaxVersions
      BY DEF OldestDeleted, OverCapacity
    <2> QED
      BY <2>1, CallTypes, WriteAssumptions, EmptySeq
  <1>2. Head(existing[c]) \in Versions
    BY <1>1, HeadTailProperties
  <1>3. Head(existing[c]).location \in Guids
    BY <1>2 DEF Versions
  <1>4. ContainerTypeOK'
    BY DeleteType DEF OldestDeleted, TypeOK
  <1>5. \A n \in BlobNames : blobs'[n] = blobs[n]
    BY <1>3, ContainerAssumption
       DEF OldestDeleted, Delete, TypeOK, ContainerTypeOK, Locations
  <1> QED
    BY <1>4, <1>5, SameDefaults, CallTypes

(* Dropping the oldest entry is the only thing the eviction does to the    *)
(* list, whether or not the Delete succeeds.                               *)
LEMMA Evicted ==
  ASSUME TypeOK, IndexInv, NEW c \in Calls, pc[c] = "update",
         OverCapacity(c), existing' = [existing EXCEPT ![c] = Tail(@)]
  PROVE  /\ existing' \in [Calls -> Seq(Versions)]
         /\ \A d \in Calls \ {c} : existing'[d] = existing[d]
         /\ ETagMatches(c) =>
              PushedOnto(existing'[c], blobs[Name(c)].metadata.versions,
                         VersionAt(c, guid[c]))
  <1>1. existing[c] \in Seq(Versions) /\ Len(existing[c]) > MaxVersions
    BY CallTypes DEF OverCapacity
  <1>2. existing[c] # <<>> /\ Tail(existing[c]) \in Seq(Versions)
    BY <1>1, WriteAssumptions, EmptySeq, HeadTailProperties
  <1>3. /\ existing' \in [Calls -> Seq(Versions)]
        /\ existing'[c] = Tail(existing[c])
        /\ \A d \in Calls \ {c} : existing'[d] = existing[d]
    BY <1>2 DEF TypeOK
  <1>4. ASSUME ETagMatches(c)
        PROVE  PushedOnto(Tail(existing[c]), blobs[Name(c)].metadata.versions,
                          VersionAt(c, guid[c]))
    <2> DEFINE t == blobs[Name(c)].metadata.versions
               v == VersionAt(c, guid[c])
    <2>1. Exists(Name(c)) /\ guid[c] \in Guids /\ Name(c) \in BlobNames
      BY CallTypes DEF IndexInv, CallInv, Requests
    <2>2. blobs[Name(c)] \in Blobs
      BY <2>1, CallTypes
    <2>3. t \in Seq(Versions) /\ v \in Versions
      BY <2>1, <2>2, CallTypes DEF Blobs, Metadata
    <2>4. Len(t) <= MaxVersions
      BY <2>1 DEF IndexInv, DefaultInv
    <2>5. PushedOnto(existing[c], t, v)
      BY <1>4 DEF IndexInv, CallInv
    <2> HIDE DEF t, v
    <2>6. Len(Append(t, v)) = Len(t) + 1
      BY <2>3, AppendProperties
    <2>7. CASE existing[c] = Append(t, v)
      <3>1. Len(t) = MaxVersions /\ t # <<>>
        BY <1>1, <2>3, <2>4, <2>6, <2>7, WriteAssumptions, EmptySeq, LenProperties
      <3>2. Tail(existing[c]) = Append(Tail(t), v)
        BY <2>3, <2>7, <3>1
      <3> QED
        BY <3>1, <3>2 DEF PushedOnto, t, v
    <2>8. CASE /\ t # <<>> /\ Len(t) = MaxVersions
               /\ existing[c] = Append(Tail(t), v)
      <3>1. Tail(t) \in Seq(Versions) /\ Len(Tail(t)) = MaxVersions - 1
        BY <2>3, <2>8, HeadTailProperties
      <3>2. Len(existing[c]) = MaxVersions
        BY <2>3, <2>8, <3>1, AppendProperties, WriteAssumptions
      <3> QED
        BY <1>1, <3>2, WriteAssumptions
    <2> QED
      BY <2>5, <2>7, <2>8 DEF PushedOnto
  <1> QED
    BY <1>3, <1>4

(* The heart of it: an ETag that still matches means that the list did not *)
(* change since it was fetched, so that writing existingVersions back is   *)
(* publishing one version.                                                 *)
LEMMA VersionsUpdatedStep ==
  ASSUME TypeOK, IndexInv, NEW c \in Calls, VersionsUpdated(c)
  PROVE  /\ DefaultsStep
         /\ Exists(Name(c)) /\ Exists(Name(c))'
         /\ props'[c].etag \in 1 .. blobs'[Name(c)].etag
         /\ props'[c].metadata.hash = blobs'[Name(c)].metadata.hash
         /\ props'[c].metadata.parent = blobs'[Name(c)].metadata.parent
         /\ ~ETagMatches(c)'
  <1>0. PICK n \in BlobNames : n = Name(c)
    BY CallTypes
  <1> DEFINE b  == blobs[n]
             t  == b.metadata.versions
             v  == VersionAt(c, guid[c])
             s  == existing[c]
             md == [hash     |-> props[c].metadata.hash,
                    parent   |-> props[c].metadata.parent,
                    versions |-> s]
             b1 == [etag |-> b.etag + 1, buffer |-> b.buffer, metadata |-> md]
  <1>1. /\ n \in Locations /\ chunk' = chunk /\ Name(c)' = n
        /\ props' = props /\ pc[c] = "update"
    BY <1>0 DEF VersionsUpdated, Locations, Name
  <1>2. /\ Exists(n) /\ guid[c] \in Guids
        /\ props[c].etag \in 1 .. b.etag
        /\ props[c].etag = b.etag
        /\ props[c].metadata.hash = b.metadata.hash
        /\ props[c].metadata.parent = b.metadata.parent
        /\ PushedOnto(s, t, v)
        /\ Len(s) <= MaxVersions
    <2>1. CallInv(c) /\ ETagMatches(c) /\ ~OverCapacity(c) /\ pc[c] = "update"
      BY DEF IndexInv, VersionsUpdated
    <2>2. Len(s) \in Nat
      BY CallTypes, LenProperties
    <2> QED
      BY <1>0, <2>1, <2>2, WriteAssumptions
         DEF CallInv, ETagMatches, Requests, OverCapacity
  <1>3. /\ b \in Blobs /\ t \in Seq(Versions) /\ v \in Versions
        /\ s \in Seq(Versions) /\ b.etag \in Nat \ {0}
    <2>1. b \in Blobs
      BY <1>0, <1>2, CallTypes
    <2> QED
      BY <1>2, <2>1, CallTypes DEF Blobs, Metadata
  <1>4. /\ md = [hash |-> b.metadata.hash, parent |-> b.metadata.parent,
                 versions |-> s]
        /\ md \in Metadata
    <2>1. props[c].metadata \in Metadata
      BY CallTypes
    <2> QED
      BY <1>2, <1>3, <2>1 DEF Metadata
  <1>5. SetMetadata(n, md)
    BY <1>0 DEF VersionsUpdated
  <1>6. ContainerTypeOK'
    BY <1>1, <1>2, <1>4, <1>5, SetMetadataType DEF TypeOK
  <1>7. blobs'[n] = b1 /\ \A m \in BlobNames \ {n} : blobs'[m] = blobs[m]
    BY <1>1, <1>2, <1>5
       DEF SetMetadata, NextETag, TypeOK, ContainerTypeOK, Locations
  <1>8. b1 \in Blobs
    BY <1>3, <1>4 DEF Blobs
  <1>9. Exists(n)'
    BY <1>7, <1>8, ContainerAssumption DEF Exists
  <1>10. s # <<>>
    <2>1. CASE s = Append(t, v)
      BY <1>3, <2>1, AppendProperties
    <2>2. CASE t # <<>> /\ s = Append(Tail(t), v)
      BY <1>3, <2>2, HeadTailProperties, AppendProperties
    <2> QED
      BY <1>2, <2>1, <2>2 DEF PushedOnto
  <1>11. s = Index!Published(t, v)
    <2>1. CASE s = Append(t, v)
      <3>1. Len(s) = Len(t) + 1 /\ Len(t) \in Nat
        BY <1>3, <2>1, AppendProperties, LenProperties
      <3>2. Len(t) < MaxVersions
        BY <1>2, <3>1, WriteAssumptions
      <3> QED
        BY <2>1, <3>2 DEF Index!Published
    <2>2. CASE Len(t) = MaxVersions /\ s = Append(Tail(t), v)
      <3>1. ~(Len(t) < MaxVersions)
        BY <2>2, WriteAssumptions
      <3> QED
        BY <2>2, <3>1 DEF Index!Published
    <2> QED
      BY <1>2, <2>1, <2>2 DEF PushedOnto
  <1>12. /\ b1.etag = b.etag + 1 /\ b1.buffer = b.buffer
         /\ b1.metadata.hash = b.metadata.hash
         /\ b1.metadata.parent = b.metadata.parent
         /\ b1.metadata.versions = s
    BY <1>4
  <1> HIDE DEF b1, md
  <1>13. ASSUME NEW m \in BlobNames
         PROVE  Evolves(m) /\ DefaultInv(m)'
    <2>1. CASE m # n
      BY <1>7, <2>1 DEF Evolves, DefaultInv, Exists, IndexInv
    <2>2. CASE m = n
      <3>1. Evolves(m)
        BY <1>7, <1>9, <1>12, <2>2 DEF Evolves
      <3>2. DefaultInv(m)'
        BY <1>2, <1>7, <1>10, <1>12, <2>2 DEF DefaultInv
      <3> QED
        BY <3>1, <3>2
    <2> QED
      BY <2>1, <2>2
  <1>14. Index!Next
    <2> DEFINE f == [hash   |-> b.metadata.hash,
                     parent |-> b.metadata.parent,
                     buffer |-> b.buffer]
    <2>1. IndexOf[n] = [first |-> f, additional |-> t]
      BY <1>2 DEF IndexOf, VersionIndexOf
    <2>2. VersionIndexOf(n)' = [first |-> f, additional |-> s]
      BY <1>7, <1>9, <1>12 DEF VersionIndexOf
    <2>3. \A m \in BlobNames \ {n} : VersionIndexOf(m)' = VersionIndexOf(m)
      BY <1>7 DEF VersionIndexOf, Exists
    <2>4. IndexOf' = [IndexOf EXCEPT
                        ![n] = [first      |-> IndexOf[n].first,
                                additional |-> Index!Published(
                                                 IndexOf[n].additional, v)]]
      <3>1. IndexOf' = [IndexOf EXCEPT ![n] = [first |-> f, additional |-> s]]
        BY <2>2, <2>3 DEF IndexOf
      <3>2. IndexOf[n].first = f /\ IndexOf[n].additional = t
        BY <2>1
      <3> QED
        BY <1>11, <3>1, <3>2
    <2>5. IndexOf[n] # NoBlob
      <3>1. [first |-> f, additional |-> t] \in Index!Entries
        BY <1>3 DEF Index!Entries, Blobs, Metadata
      <3> QED
        BY <2>1, <3>1, IndexAssumption
    <2>6. Index!Publish(n)
      BY <1>3, <2>4, <2>5 DEF Index!Publish, IndexOf
    <2> QED
      BY <2>6 DEF Index!Next
  <1>15. /\ props'[c].etag \in 1 .. blobs'[n].etag
         /\ props'[c].etag # blobs'[n].etag
         /\ props'[c].metadata.hash = blobs'[n].metadata.hash
         /\ props'[c].metadata.parent = blobs'[n].metadata.parent
    BY <1>1, <1>2, <1>3, <1>7, <1>12
  <1> QED
    BY <1>0, <1>1, <1>2, <1>6, <1>9, <1>13, <1>14, <1>15
       DEF DefaultsStep, ETagMatches, Exists

-----------------------------------------------------------------------------
(* The invariant of a call survives the steps of the others, and holds     *)
(* trivially once the call has ended.                                      *)

Untouched(d) ==
  /\ pc'[d] \in {pc[d], "crashed"}
  /\ props'[d] = props[d]
  /\ existing'[d] = existing[d]
  /\ guid'[d] = guid[d]

LEMMA EndedKeepsInv ==
  ASSUME NEW d \in Calls, pc'[d] \in Outcomes
  PROVE  CallInv(d)'
  BY DEF CallInv, Outcomes, Requests

LEMMA UntouchedKeepsInv ==
  ASSUME TypeOK, IndexInv, DefaultsStep, NEW d \in Calls, Untouched(d),
         chunk' = chunk
  PROVE  CallInv(d)'
  <1>0. PICK n \in BlobNames : n = Name(d)
    BY CallTypes
  <1>1. Name(d)' = n /\ VersionAt(d, guid[d])' = VersionAt(d, guid[d])
    BY <1>0 DEF Name, VersionAt, Untouched
  <1>2. Evolves(n) /\ CallInv(d)
    BY DEF DefaultsStep, IndexInv
  <1>3. CASE pc'[d] # pc[d]
    BY <1>3, EndedKeepsInv DEF Untouched, Outcomes
  <1>4. CASE pc'[d] = pc[d] /\ pc[d] \notin Requests \ {"upload"}
    BY <1>4 DEF CallInv, Requests
  <1>5. CASE pc'[d] = pc[d] /\ pc[d] \in Requests \ {"upload"}
    <2>1. Exists(n) /\ blobs[n] \in Blobs /\ blobs[n].etag \in Nat
      BY <1>0, <1>2, <1>5, CallTypes DEF CallInv, Blobs
    <2>2. props[d].etag \in Nat
      BY CallTypes
    <2>3. CASE blobs'[n] = blobs[n]
      BY <1>0, <1>1, <1>2, <1>5, <2>3
         DEF CallInv, Untouched, Exists, ETagMatches, VersionAt
    <2>4. CASE /\ Exists(n)'
               /\ blobs'[n].etag = blobs[n].etag + 1
               /\ blobs'[n].metadata.hash = blobs[n].metadata.hash
               /\ blobs'[n].metadata.parent = blobs[n].metadata.parent
      <3>1. pc[d] \in {"uploadGuid", "update", "refetch"} =>
              /\ props[d].etag \in 1 .. blobs[n].etag
              /\ props[d].metadata.hash = blobs[n].metadata.hash
              /\ props[d].metadata.parent = blobs[n].metadata.parent
        BY <1>0, <1>2 DEF CallInv
      <3>2. pc[d] \in {"uploadGuid", "update", "refetch"} =>
              /\ props'[d].etag \in 1 .. blobs'[n].etag
              /\ props'[d].metadata.hash = blobs'[n].metadata.hash
              /\ props'[d].metadata.parent = blobs'[n].metadata.parent
              /\ ~ETagMatches(d)'
        BY <1>1, <2>1, <2>2, <2>4, <3>1 DEF ETagMatches, Untouched
      <3>3. Exists(Name(d))'
        BY <1>1, <2>4 DEF Exists
      <3>4. pc[d] \in {"update", "refetch"} => guid'[d] \in Guids
        BY <1>2 DEF CallInv, Untouched
      <3> QED
        BY <1>1, <1>5, <3>2, <3>3, <3>4 DEF CallInv
    <2> QED
      BY <1>2, <2>1, <2>3, <2>4 DEF Evolves
  <1> QED
    BY <1>3, <1>4, <1>5

(* So it suffices to look at the default blobs and at the call that moves. *)
LEMMA OneCallMoves ==
  ASSUME TypeOK, IndexInv, DefaultsStep, chunk' = chunk, NEW c \in Calls,
         CallInv(c)', \A d \in Calls \ {c} : Untouched(d)
  PROVE  IndexInv'
  <1>1. \A n \in BlobNames : DefaultInv(n)'
    BY DEF DefaultsStep
  <1>2. \A d \in Calls \ {c} : CallInv(d)'
    BY UntouchedKeepsInv
  <1> QED
    BY <1>1, <1>2 DEF IndexInv

(* Where the other calls stand after the ways a call's step may end.       *)
OthersPc(c) == \A d \in Calls \ {c} : pc'[d] \in {pc[d], "crashed"}

LEMMA GotoPc ==
  ASSUME TypeOK, NEW c \in Calls, NEW label, Goto(c, label)
  PROVE  pc'[c] = label /\ OthersPc(c)
  BY DEF TypeOK, Goto, OthersPc

LEMMA StorageExceptionPc ==
  ASSUME TypeOK, NEW c \in Calls, InFlight(c), StorageException(c)
  PROVE  pc'[c] \in Outcomes /\ OthersPc(c)
  <1>1. CASE AssertsEnabled
    BY <1>1 DEF StorageException, ProcessDies, Outcomes, OthersPc
  <1>2. CASE ~AssertsEnabled
    BY <1>2, GotoPc DEF StorageException, Outcomes
  <1> QED
    BY <1>1, <1>2

LEMMA PreconditionFailedPc ==
  ASSUME TypeOK, NEW c \in Calls, InFlight(c), PreconditionFailed(c)
  PROVE  pc'[c] \in Outcomes \cup {"refetch"} /\ OthersPc(c)
  BY GotoPc, StorageExceptionPc DEF PreconditionFailed

(* What every step establishes.                                            *)
StepOK == TypeOK' /\ IndexInv' /\ DefaultsStep

(* Only call c may move, up to calls that crash.                           *)
OthersUntouched(c) == \A d \in Calls \ {c} : Untouched(d)

LEMMA OthersKept ==
  ASSUME NEW c \in Calls, OthersPc(c), props' = props,
         \A d \in Calls \ {c} : existing'[d] = existing[d] /\ guid'[d] = guid[d]
  PROVE  OthersUntouched(c)
  BY DEF OthersPc, OthersUntouched, Untouched

LEMMA SameBlobs ==
  ASSUME TypeOK, IndexInv, blobs' = blobs
  PROVE  DefaultsStep
  <1>1. ContainerTypeOK'
    BY DEF TypeOK, ContainerTypeOK
  <1> QED
    BY <1>1, SameDefaults

(* A call that ends has nothing to keep.                                   *)
LEMMA CallEnded ==
  ASSUME TypeOK, IndexInv, DefaultsStep, chunk' = chunk, NEW c \in Calls,
         OthersUntouched(c), pc'[c] \in Outcomes
  PROVE  IndexInv'
  BY EndedKeepsInv, OneCallMoves DEF OthersUntouched

-----------------------------------------------------------------------------
(* One lemma per action.                                                   *)

LEMMA WriteAsyncOK ==
  ASSUME TypeOK, IndexInv, NEW c \in Calls, WriteAsync(c)
  PROVE  StepOK
  <1>1. Goto(c, "upload") /\ "upload" \in PcValues
    BY DEF WriteAsync, PcValues, Requests
  <1>2. pc' \in [Calls -> PcValues] /\ pc'[c] = "upload" /\ OthersPc(c)
    BY <1>1, GotoType, GotoPc
  <1>3. DefaultsStep
    BY SameBlobs DEF WriteAsync
  <1>4. TypeOK'
    BY <1>2, <1>3 DEF TypeOK, DefaultsStep, WriteAsync, PcValues
  <1>5. OthersUntouched(c)
    BY <1>2, OthersKept DEF WriteAsync
  <1>6. CallInv(c)'
    BY <1>2 DEF CallInv, Requests
  <1>7. IndexInv'
    BY <1>3, <1>5, <1>6, OneCallMoves DEF OthersUntouched, WriteAsync
  <1> QED
    BY <1>3, <1>4, <1>7 DEF StepOK

LEMMA UploadFirstVersionOK ==
  ASSUME TypeOK, IndexInv, NEW c \in Calls, UploadFirstVersion(c)
  PROVE  StepOK
  <1>1. {"returned", "properties"} \subseteq PcValues
    BY DEF PcValues, Requests, Outcomes
  <1>2. UNCHANGED <<chunk, props, existing, guid, retry, faults>>
    BY DEF UploadFirstVersion, FirstVersionUploaded
  <1>3. CASE FirstVersionUploaded(c) /\ Goto(c, "returned")
    <2>1. pc' \in [Calls -> PcValues] /\ pc'[c] = "returned" /\ OthersPc(c)
      BY <1>1, <1>3, GotoType, GotoPc
    <2>2. DefaultsStep
      BY <1>3, FirstVersionUploadedStep
    <2>3. IndexInv'
      BY <1>2, <2>1, <2>2, OthersKept, CallEnded DEF Outcomes
    <2> QED
      BY <1>2, <2>1, <2>2, <2>3 DEF StepOK, TypeOK, DefaultsStep, PcValues
  <1>4. CASE /\ Exists(Name(c))
             /\ Goto(c, "properties")
             /\ blobs' = blobs
    <2>1. pc' \in [Calls -> PcValues] /\ pc'[c] = "properties" /\ OthersPc(c)
      BY <1>1, <1>4, GotoType, GotoPc
    <2>2. DefaultsStep
      BY <1>4, SameBlobs
    <2>3. CallInv(c)'
      BY <1>2, <1>4, <2>1 DEF CallInv, Exists, Name
    <2>4. IndexInv'
      BY <1>2, <2>1, <2>2, <2>3, OthersKept, OneCallMoves DEF OthersUntouched
    <2> QED
      BY <1>2, <2>1, <2>2, <2>4 DEF StepOK, TypeOK, DefaultsStep, PcValues
  <1> QED
    BY <1>3, <1>4 DEF UploadFirstVersion

LEMMA UploadGuidBlobOK ==
  ASSUME TypeOK, IndexInv, NEW c \in Calls, UploadGuidBlob(c)
  PROVE  StepOK
  <1>1. "update" \in PcValues
    BY DEF PcValues, Requests
  <1>2. /\ GuidBlobUploaded(c) /\ Goto(c, "update") /\ pc[c] = "uploadGuid"
        /\ UNCHANGED <<chunk, props, retry, faults>>
    BY DEF UploadGuidBlob, GuidBlobUploaded
  <1>3. pc' \in [Calls -> PcValues] /\ pc'[c] = "update" /\ OthersPc(c)
    BY <1>1, <1>2, GotoType, GotoPc
  <1>4. /\ DefaultsStep
        /\ blobs[Name(c)] = blobs'[Name(c)]
        /\ guid' \in [Calls -> Guids \cup {NoGuid}]
        /\ existing' \in [Calls -> Seq(Versions)]
        /\ guid'[c] \in Guids
        /\ existing'[c] = Append(existing[c], VersionAt(c, guid'[c]))
        /\ \A d \in Calls \ {c} : guid'[d] = guid[d] /\ existing'[d] = existing[d]
    BY <1>2, GuidBlobUploadedStep
  <1>5. OthersUntouched(c)
    BY <1>2, <1>3, <1>4, OthersKept
  <1>6. PICK n \in BlobNames : n = Name(c)
    BY CallTypes
  <1>7. Name(c)' = n /\ VersionAt(c, guid[c])' = VersionAt(c, guid'[c])
    BY <1>2, <1>6 DEF Name, VersionAt
  <1>8. /\ Exists(n)
        /\ props[c].etag \in 1 .. blobs[n].etag
        /\ props[c].metadata.hash = blobs[n].metadata.hash
        /\ props[c].metadata.parent = blobs[n].metadata.parent
        /\ props[c].etag = blobs[n].etag => existing[c] = blobs[n].metadata.versions
    BY <1>2, <1>6 DEF IndexInv, CallInv, Requests, ETagMatches
  <1>9. CallInv(c)'
    BY <1>2, <1>3, <1>4, <1>6, <1>7, <1>8
       DEF CallInv, Exists, ETagMatches, PushedOnto
  <1>10. IndexInv'
    BY <1>2, <1>4, <1>5, <1>9, OneCallMoves DEF OthersUntouched
  <1> QED
    BY <1>2, <1>3, <1>4, <1>10 DEF StepOK, TypeOK, DefaultsStep, PcValues

LEMMA CheckVersionsOK ==
  ASSUME TypeOK, IndexInv, NEW c \in Calls, CheckVersions(c)
  PROVE  StepOK
  <1> DEFINE b == blobs[Name(c)]
  <1>1. {"returned", "uploadGuid"} \subseteq PcValues
    BY DEF PcValues, Requests, Outcomes
  <1>2. /\ UNCHANGED <<blobs, chunk, guid, retry, faults>>
        /\ pc[c] = "properties"
    BY DEF CheckVersions
  <1>3. DefaultsStep
    BY <1>2, SameBlobs
  <1>4. CASE Goto(c, "returned") /\ UNCHANGED <<props, existing>>
    <2>1. pc' \in [Calls -> PcValues] /\ pc'[c] = "returned" /\ OthersPc(c)
      BY <1>1, <1>4, GotoType, GotoPc
    <2>2. IndexInv'
      BY <1>2, <1>3, <1>4, <2>1, OthersKept, CallEnded DEF Outcomes
    <2> QED
      BY <1>2, <1>3, <1>4, <2>1, <2>2 DEF StepOK, TypeOK, DefaultsStep, PcValues
  <1>5. CASE /\ props' = [props EXCEPT ![c] = [etag     |-> b.etag,
                                               metadata |-> b.metadata]]
             /\ existing' = [existing EXCEPT ![c] = b.metadata.versions]
             /\ Goto(c, "uploadGuid")
    <2>1. pc' \in [Calls -> PcValues] /\ pc'[c] = "uploadGuid" /\ OthersPc(c)
      BY <1>1, <1>5, GotoType, GotoPc
    <2>2. PICK n \in BlobNames : n = Name(c)
      BY CallTypes
    <2>3. Exists(n) /\ blobs[n] \in Blobs
      BY <1>2, <2>2, CallTypes DEF IndexInv, CallInv, Requests
    <2>4. /\ blobs[n].etag \in Nat \ {0} /\ blobs[n].metadata \in Metadata
          /\ blobs[n].metadata.versions \in Seq(Versions)
      BY <2>3 DEF Blobs, Metadata
    <2>5. /\ props' \in [Calls -> [etag : Nat, metadata : Metadata]]
          /\ existing' \in [Calls -> Seq(Versions)]
          /\ props'[c] = [etag |-> blobs[n].etag, metadata |-> blobs[n].metadata]
          /\ existing'[c] = blobs[n].metadata.versions
      BY <1>5, <2>2, <2>4 DEF TypeOK
    <2>6. OthersUntouched(c)
      BY <1>2, <1>5, <2>1 DEF OthersUntouched, Untouched, OthersPc, TypeOK
    <2>7. Name(c)' = n /\ blobs' = blobs
      BY <1>2, <2>2 DEF Name
    <2>8. /\ Exists(n)'
          /\ props'[c].etag \in 1 .. blobs[n].etag
          /\ props'[c].metadata.hash = blobs[n].metadata.hash
          /\ props'[c].metadata.parent = blobs[n].metadata.parent
      BY <2>3, <2>4, <2>5, <2>7 DEF Exists
    <2>9. CallInv(c)'
      BY <2>1, <2>5, <2>7, <2>8 DEF CallInv, ETagMatches
    <2>10. IndexInv'
      BY <1>2, <1>3, <2>6, <2>9, OneCallMoves DEF OthersUntouched
    <2> QED
      BY <1>2, <1>3, <2>1, <2>5, <2>10 DEF StepOK, TypeOK, DefaultsStep, PcValues
  <1> QED
    BY <1>4, <1>5 DEF CheckVersions

(* A call whose existingVersions lose their head and that stays where it is.*)
LEMMA EvictedOK ==
  ASSUME TypeOK, IndexInv, NEW c \in Calls, pc[c] = "update",
         OverCapacity(c), existing' = [existing EXCEPT ![c] = Tail(@)],
         DefaultsStep, blobs'[Name(c)] = blobs[Name(c)],
         UNCHANGED <<pc, chunk, props, guid, retry>>, faults' \in Nat
  PROVE  StepOK
  <1>1. /\ existing' \in [Calls -> Seq(Versions)]
        /\ \A d \in Calls \ {c} : existing'[d] = existing[d]
        /\ ETagMatches(c) =>
             PushedOnto(existing'[c], blobs[Name(c)].metadata.versions,
                        VersionAt(c, guid[c]))
    BY Evicted
  <1>2. OthersUntouched(c)
    BY <1>1 DEF OthersUntouched, Untouched
  <1>3. PICK n \in BlobNames : n = Name(c)
    BY CallTypes
  <1>4. Name(c)' = n /\ VersionAt(c, guid[c])' = VersionAt(c, guid[c])
    BY <1>3 DEF Name, VersionAt
  <1>5. CallInv(c)
    BY DEF IndexInv
  <1>6. CallInv(c)'
    BY <1>1, <1>3, <1>4, <1>5 DEF CallInv, Exists, ETagMatches, Requests
  <1>7. IndexInv'
    BY <1>2, <1>6, OneCallMoves DEF OthersUntouched
  <1> QED
    BY <1>1, <1>7 DEF StepOK, TypeOK, DefaultsStep

LEMMA EvictOldestOK ==
  ASSUME TypeOK, IndexInv, NEW c \in Calls, EvictOldest(c)
  PROVE  StepOK
  <1>1. OldestDeleted(c) /\ UNCHANGED <<pc, faults>>
    BY DEF EvictOldest
  <1>2. DefaultsStep /\ blobs'[Name(c)] = blobs[Name(c)]
    BY <1>1, OldestDeletedStep
  <1> QED
    BY <1>1, <1>2, EvictedOK DEF OldestDeleted, TypeOK

LEMMA UpdateMetadataOK ==
  ASSUME TypeOK, IndexInv, NEW c \in Calls, UpdateMetadata(c)
  PROVE  StepOK
  <1>1. UNCHANGED <<chunk, props, existing, guid, faults>> /\ pc[c] = "update"
    BY DEF UpdateMetadata, VersionsUpdated
  <1>2. CASE VersionsUpdated(c) /\ Goto(c, "returned") /\ UNCHANGED retry
    <2>1. "returned" \in PcValues
      BY DEF PcValues, Outcomes
    <2>2. pc' \in [Calls -> PcValues] /\ pc'[c] = "returned" /\ OthersPc(c)
      BY <1>2, <2>1, GotoType, GotoPc
    <2>3. DefaultsStep
      BY <1>2, VersionsUpdatedStep
    <2>4. IndexInv'
      BY <1>1, <2>2, <2>3, OthersKept, CallEnded DEF Outcomes
    <2> QED
      BY <1>1, <1>2, <2>2, <2>3, <2>4 DEF StepOK, TypeOK, DefaultsStep, PcValues
  <1>3. CASE /\ ~ETagMatches(c)
             /\ PreconditionFailed(c)
             /\ blobs' = blobs
    <2>1. pc' \in [Calls -> PcValues] /\ retry' \in [Calls -> Nat]
      BY <1>3, PreconditionFailedType
    <2>2. pc'[c] \in Outcomes \cup {"refetch"} /\ OthersPc(c)
      BY <1>1, <1>3, PreconditionFailedPc DEF InFlight, Requests
    <2>3. DefaultsStep /\ OthersUntouched(c)
      BY <1>1, <1>3, <2>2, SameBlobs, OthersKept
    <2>4. CASE pc'[c] \in Outcomes
      BY <1>1, <2>1, <2>3, <2>4, CallEnded
         DEF StepOK, TypeOK, DefaultsStep, PcValues
    <2>5. CASE pc'[c] = "refetch"
      <3>1. CallInv(c)
        BY DEF IndexInv
      <3>2. CallInv(c)'
        BY <1>1, <1>3, <2>5, <3>1
           DEF CallInv, Exists, ETagMatches, Name, Requests
      <3>3. IndexInv'
        BY <1>1, <2>3, <3>2, OneCallMoves DEF OthersUntouched
      <3> QED
        BY <1>1, <2>1, <2>3, <3>3 DEF StepOK, TypeOK, DefaultsStep, PcValues
    <2> QED
      BY <2>2, <2>4, <2>5
  <1> QED
    BY <1>2, <1>3 DEF UpdateMetadata

(* The call lost to another, so that the list it fetches has entries and   *)
(* replaces the one it had.                                                *)
LEMMA RefetchOK ==
  ASSUME TypeOK, IndexInv, NEW c \in Calls, Refetch(c)
  PROVE  StepOK
  <1>1. /\ UNCHANGED <<blobs, chunk, guid, retry, faults>>
        /\ pc[c] = "refetch" /\ Goto(c, "update")
    BY DEF Refetch
  <1>2. PICK n \in BlobNames : n = Name(c)
    BY CallTypes
  <1>3. /\ Exists(n) /\ guid[c] \in Guids
        /\ props[c].etag \in 1 .. blobs[n].etag
        /\ props[c].etag # blobs[n].etag
    BY <1>1, <1>2 DEF IndexInv, CallInv, Requests, ETagMatches
  <1>4. blobs[n] \in Blobs
    BY <1>2, <1>3, CallTypes
  <1>5. /\ blobs[n].etag \in Nat \ {0} /\ blobs[n].metadata \in Metadata
        /\ blobs[n].metadata.versions \in Seq(Versions)
    BY <1>4 DEF Blobs, Metadata
  <1>6. blobs[n].metadata.versions # <<>>
    <2>1. blobs[n].etag > 1
      BY <1>3, <1>5
    <2> QED
      BY <1>3, <2>1 DEF IndexInv, DefaultInv
  <1> DEFINE s == Append(blobs[n].metadata.versions, VersionAt(c, guid[c]))
  <1>7. s \in Seq(Versions)
    BY <1>3, <1>5, CallTypes, AppendProperties
  <1>8. /\ props' = [props EXCEPT ![c] = [etag     |-> blobs[n].etag,
                                          metadata |-> blobs[n].metadata]]
        /\ existing' = [existing EXCEPT ![c] = s]
    BY <1>2, <1>6 DEF Refetch
  <1> HIDE DEF s
  <1>9. /\ props' \in [Calls -> [etag : Nat, metadata : Metadata]]
        /\ existing' \in [Calls -> Seq(Versions)]
        /\ props'[c] = [etag |-> blobs[n].etag, metadata |-> blobs[n].metadata]
        /\ existing'[c] = s
    BY <1>5, <1>7, <1>8 DEF TypeOK
  <1>10. pc' \in [Calls -> PcValues] /\ pc'[c] = "update" /\ OthersPc(c)
    <2>1. "update" \in PcValues
      BY DEF PcValues, Requests
    <2> QED
      BY <1>1, <2>1, GotoType, GotoPc
  <1>11. OthersUntouched(c)
    BY <1>1, <1>8, <1>10 DEF OthersUntouched, Untouched, OthersPc, TypeOK
  <1>12. DefaultsStep
    BY <1>1, SameBlobs
  <1>13. CallInv(c)'
    <2>1. Name(c)' = n /\ VersionAt(c, guid[c])' = VersionAt(c, guid[c])
      BY <1>1, <1>2 DEF Name, VersionAt
    <2>2. /\ Exists(n)' /\ guid'[c] \in Guids
          /\ props'[c].etag \in 1 .. blobs'[n].etag
          /\ props'[c].metadata.hash = blobs'[n].metadata.hash
          /\ props'[c].metadata.parent = blobs'[n].metadata.parent
      BY <1>1, <1>3, <1>5, <1>9 DEF Exists
    <2>3. PushedOnto(existing'[c], blobs'[n].metadata.versions,
                     VersionAt(c, guid[c]))
      BY <1>1, <1>9 DEF PushedOnto, s
    <2> QED
      BY <1>10, <2>1, <2>2, <2>3 DEF CallInv
  <1>14. IndexInv'
    BY <1>1, <1>11, <1>12, <1>13, OneCallMoves DEF OthersUntouched
  <1> QED
    BY <1>1, <1>9, <1>10, <1>12, <1>14 DEF StepOK, TypeOK, DefaultsStep, PcValues

(* A call that ends by an exception, for the three faults of a request.    *)
LEMMA ThrowsPc ==
  ASSUME TypeOK, NEW c \in Calls, InFlight(c),
         StorageException(c) \/ Goto(c, "threw")
  PROVE  /\ pc' \in [Calls -> PcValues]
         /\ pc'[c] \in Outcomes
         /\ OthersPc(c)
  <1>1. "threw" \in PcValues /\ "threw" \in Outcomes
    BY DEF PcValues, Outcomes
  <1> QED
    BY <1>1, StorageExceptionType, StorageExceptionPc, GotoType, GotoPc

LEMMA FaultType ==
  ASSUME TypeOK, NEW kind, Fault(kind)
  PROVE  faults' \in Nat
  BY DEF TypeOK, Fault

LEMMA RequestFailsOK ==
  ASSUME TypeOK, IndexInv, NEW c \in Calls, RequestFails(c)
  PROVE  StepOK
  <1>1. /\ InFlight(c) /\ faults' \in Nat
        /\ UNCHANGED <<blobs, chunk, props, guid, retry>>
    BY FaultType DEF RequestFails
  <1>2. DefaultsStep
    BY <1>1, SameBlobs
  <1>3. CASE /\ StorageException(c) \/ Goto(c, "threw")
             /\ UNCHANGED existing
    <2>1. pc' \in [Calls -> PcValues] /\ pc'[c] \in Outcomes /\ OthersPc(c)
      BY <1>1, <1>3, ThrowsPc
    <2>2. IndexInv'
      BY <1>1, <1>2, <1>3, <2>1, OthersKept, CallEnded
    <2> QED
      BY <1>1, <1>2, <1>3, <2>1, <2>2 DEF StepOK, TypeOK, DefaultsStep, PcValues
  <1>4. CASE /\ Deleting(c)
             /\ existing' = [existing EXCEPT ![c] = Tail(@)]
             /\ UNCHANGED pc
    BY <1>1, <1>2, <1>4, EvictedOK DEF Deleting
  <1> QED
    BY <1>3, <1>4 DEF RequestFails

LEMMA AnswerLostOK ==
  ASSUME TypeOK, IndexInv, NEW c \in Calls, AnswerLost(c)
  PROVE  StepOK
  <1>1. faults' \in Nat
    BY FaultType DEF AnswerLost
  <1>2. CASE /\ FirstVersionUploaded(c)
             /\ StorageException(c) \/ Goto(c, "threw")
    <2>1. /\ InFlight(c)
          /\ UNCHANGED <<chunk, props, existing, guid, retry>>
      BY <1>2 DEF FirstVersionUploaded, InFlight, Requests
    <2>2. pc' \in [Calls -> PcValues] /\ pc'[c] \in Outcomes /\ OthersPc(c)
      BY <1>2, <2>1, ThrowsPc
    <2>3. DefaultsStep
      BY <1>2, FirstVersionUploadedStep
    <2>4. IndexInv'
      BY <2>1, <2>2, <2>3, OthersKept, CallEnded
    <2> QED
      BY <1>1, <2>1, <2>2, <2>3, <2>4 DEF StepOK, TypeOK, DefaultsStep, PcValues
  <1>3. CASE /\ GuidBlobUploaded(c)
             /\ StorageException(c) \/ Goto(c, "threw")
    <2>1. InFlight(c) /\ UNCHANGED <<chunk, props, retry>>
      BY <1>3 DEF GuidBlobUploaded, InFlight, Requests
    <2>2. pc' \in [Calls -> PcValues] /\ pc'[c] \in Outcomes /\ OthersPc(c)
      BY <1>3, <2>1, ThrowsPc
    <2>3. /\ DefaultsStep
          /\ guid' \in [Calls -> Guids \cup {NoGuid}]
          /\ existing' \in [Calls -> Seq(Versions)]
          /\ \A d \in Calls \ {c} : guid'[d] = guid[d] /\ existing'[d] = existing[d]
      BY <1>3, GuidBlobUploadedStep
    <2>4. IndexInv'
      BY <2>1, <2>2, <2>3, OthersKept, CallEnded
    <2> QED
      BY <1>1, <2>1, <2>2, <2>3, <2>4 DEF StepOK, TypeOK, DefaultsStep, PcValues
  <1>4. CASE /\ VersionsUpdated(c) /\ UNCHANGED retry
             /\ StorageException(c) \/ Goto(c, "threw")
    <2>1. /\ InFlight(c)
          /\ UNCHANGED <<chunk, props, existing, guid, retry>>
      BY <1>4 DEF VersionsUpdated, InFlight, Requests
    <2>2. pc' \in [Calls -> PcValues] /\ pc'[c] \in Outcomes /\ OthersPc(c)
      BY <1>4, <2>1, ThrowsPc
    <2>3. DefaultsStep
      BY <1>4, VersionsUpdatedStep
    <2>4. IndexInv'
      BY <2>1, <2>2, <2>3, OthersKept, CallEnded
    <2> QED
      BY <1>1, <2>1, <2>2, <2>3, <2>4 DEF StepOK, TypeOK, DefaultsStep, PcValues
  <1>5. CASE OldestDeleted(c) /\ Goto(c, "threw")
    <2>1. /\ InFlight(c) /\ pc[c] = "update" /\ OverCapacity(c)
          /\ existing' = [existing EXCEPT ![c] = Tail(@)]
          /\ UNCHANGED <<chunk, props, guid, retry>>
      BY <1>5 DEF OldestDeleted, InFlight, Requests
    <2>2. pc' \in [Calls -> PcValues] /\ pc'[c] \in Outcomes /\ OthersPc(c)
      BY <1>5, <2>1, ThrowsPc
    <2>3. DefaultsStep
      BY <1>5, OldestDeletedStep
    <2>4. /\ existing' \in [Calls -> Seq(Versions)]
          /\ \A d \in Calls \ {c} : existing'[d] = existing[d]
      BY <2>1, Evicted
    <2>5. IndexInv'
      BY <2>1, <2>2, <2>3, <2>4, OthersKept, CallEnded
    <2> QED
      BY <1>1, <2>1, <2>2, <2>3, <2>4, <2>5
         DEF StepOK, TypeOK, DefaultsStep, PcValues
  <1> QED
    BY <1>2, <1>3, <1>4, <1>5 DEF AnswerLost

LEMMA RequestResentOK ==
  ASSUME TypeOK, IndexInv, NEW c \in Calls, RequestResent(c)
  PROVE  StepOK
  <1>1. faults' \in Nat
    BY FaultType DEF RequestResent
  <1>2. CASE FirstVersionUploaded(c) /\ Goto(c, "properties")
    <2>1. UNCHANGED <<chunk, props, existing, guid, retry>>
      BY <1>2 DEF FirstVersionUploaded
    <2>2. pc' \in [Calls -> PcValues] /\ pc'[c] = "properties" /\ OthersPc(c)
      <3>1. "properties" \in PcValues
        BY DEF PcValues, Requests
      <3> QED
        BY <1>2, <3>1, GotoType, GotoPc
    <2>3. DefaultsStep /\ Exists(Name(c))'
      BY <1>2, FirstVersionUploadedStep
    <2>4. CallInv(c)'
      BY <2>2, <2>3 DEF CallInv
    <2>5. IndexInv'
      BY <2>1, <2>2, <2>3, <2>4, OthersKept, OneCallMoves DEF OthersUntouched
    <2> QED
      BY <1>1, <2>1, <2>2, <2>3, <2>5 DEF StepOK, TypeOK, DefaultsStep, PcValues
  <1>3. CASE VersionsUpdated(c) /\ PreconditionFailed(c)
    <2>1. InFlight(c) /\ UNCHANGED <<chunk, props, existing, guid>>
      BY <1>3 DEF VersionsUpdated, InFlight, Requests
    <2>2. pc' \in [Calls -> PcValues] /\ retry' \in [Calls -> Nat]
      BY <1>3, PreconditionFailedType
    <2>3. pc'[c] \in Outcomes \cup {"refetch"} /\ OthersPc(c)
      BY <1>3, <2>1, PreconditionFailedPc
    <2>4. DefaultsStep /\ OthersUntouched(c)
      BY <1>3, <2>1, <2>3, VersionsUpdatedStep, OthersKept
    <2>5. CASE pc'[c] \in Outcomes
      BY <1>1, <2>1, <2>2, <2>4, <2>5, CallEnded
         DEF StepOK, TypeOK, DefaultsStep, PcValues
    <2>6. CASE pc'[c] = "refetch"
      <3>1. guid'[c] \in Guids
        BY <1>3, <2>1 DEF VersionsUpdated, IndexInv, CallInv
      <3>2. Name(c)' = Name(c)
        BY <2>1 DEF Name
      <3>3. PICK n \in BlobNames : n = Name(c)
        BY CallTypes
      <3>4. /\ Exists(n)'
            /\ props'[c].etag \in 1 .. blobs'[n].etag
            /\ props'[c].metadata.hash = blobs'[n].metadata.hash
            /\ props'[c].metadata.parent = blobs'[n].metadata.parent
            /\ ~ETagMatches(c)'
        <4>1. Exists(n)' <=> Exists(Name(c))'
          BY <3>2, <3>3 DEF Exists
        <4> QED
          BY <1>3, <3>3, <4>1, VersionsUpdatedStep
      <3>5. CallInv(c)'
        BY <2>6, <3>1, <3>2, <3>3, <3>4 DEF CallInv
      <3>6. IndexInv'
        BY <2>1, <2>4, <3>5, OneCallMoves DEF OthersUntouched
      <3> QED
        BY <1>1, <2>1, <2>2, <2>4, <3>6 DEF StepOK, TypeOK, DefaultsStep, PcValues
    <2> QED
      BY <2>3, <2>5, <2>6
  <1> QED
    BY <1>2, <1>3 DEF RequestResent

LEMMA ServerCrashOK ==
  ASSUME TypeOK, IndexInv, NEW s \in Servers, ServerCrash(s)
  PROVE  StepOK
  <1>1. /\ faults' \in Nat /\ ProcessDies(s)
        /\ UNCHANGED <<blobs, chunk, props, existing, guid, retry>>
    BY FaultType DEF ServerCrash
  <1>2. pc' \in [Calls -> PcValues] /\ DefaultsStep
    BY <1>1, ProcessDiesType, SameBlobs
  <1>3. \A d \in Calls : Untouched(d)
    BY <1>1 DEF Untouched, ProcessDies
  <1>4. \A d \in Calls : CallInv(d)'
    BY <1>1, <1>2, <1>3, UntouchedKeepsInv
  <1>5. IndexInv'
    BY <1>2, <1>4 DEF IndexInv, DefaultsStep
  <1> QED
    BY <1>1, <1>2, <1>5 DEF StepOK, TypeOK, DefaultsStep, PcValues

LEMMA StutterOK ==
  ASSUME TypeOK, IndexInv, UNCHANGED vars
  PROVE  StepOK
  <1>1. UNCHANGED <<blobs, pc, chunk, props, existing, guid, retry, faults>>
    BY DEF vars, writeVars
  <1>2. DefaultsStep
    BY <1>1, SameBlobs
  <1>3. \A d \in Calls : CallInv(d)'
    BY <1>1, <1>2, UntouchedKeepsInv DEF Untouched
  <1>4. IndexInv'
    BY <1>2, <1>3 DEF IndexInv, DefaultsStep
  <1> QED
    BY <1>1, <1>2, <1>4 DEF StepOK, TypeOK, DefaultsStep

-----------------------------------------------------------------------------
(* The invariant, and what it is for.                                      *)

LEMMA InitOK ==
  ASSUME Init
  PROVE  TypeOK /\ IndexInv /\ Index!Init
  <1>1. \A loc \in Locations : blobs[loc] = NoBlob
    BY DEF Init, ContainerInit
  <1>2. NoProps \in [etag : Nat, metadata : Metadata]
    <2>1. <<>> \in Seq(Versions)
      OBVIOUS
    <2> QED
      BY <2>1, ContainerAssumption DEF NoProps, Metadata
  <1>3. TypeOK
    <2>1. <<>> \in Seq(Versions)
      OBVIOUS
    <2> QED
      BY <1>2, <2>1 DEF Init, ContainerInit, WriteInit, TypeOK, ContainerTypeOK
  <1>4. \A n \in BlobNames : ~Exists(n)
    BY <1>1 DEF Exists, Locations
  <1>5. IndexInv
    BY <1>4 DEF IndexInv, DefaultInv, CallInv, Init, WriteInit, Requests
  <1>6. Index!Init
    BY <1>4 DEF Index!Init, VersionIndexOf
  <1> QED
    BY <1>3, <1>5, <1>6

LEMMA NextOK ==
  ASSUME TypeOK, IndexInv, [WriteNext]_vars
  PROVE  StepOK
  BY WriteAsyncOK, UploadFirstVersionOK, CheckVersionsOK, UploadGuidBlobOK,
     EvictOldestOK, UpdateMetadataOK, RefetchOK, RequestFailsOK, AnswerLostOK,
     RequestResentOK, ServerCrashOK, StutterOK
     DEF WriteNext, CallStep

(* The inductive invariant of the ETag protocol: as long as the ETag of a  *)
(* call is current, its existingVersions are the current list with its own *)
(* version pushed, and a call that fetches again has really lost.          *)
THEOREM IndexInvariant == Spec => [](TypeOK /\ IndexInv)
  <1>1. Init => TypeOK /\ IndexInv
    BY InitOK
  <1>2. TypeOK /\ IndexInv /\ [WriteNext]_vars => TypeOK' /\ IndexInv'
    BY NextOK DEF StepOK
  <1> QED
    BY <1>1, <1>2, PTL DEF Spec

(* Every variable of the calls and of the container keeps the shape the    *)
(* code gives it; that no Head, Tail or lookup of WriteAsync is applied to *)
(* a value it is not made for rests on IndexInv.                           *)
THEOREM TypeCorrect == Spec => []TypeOK
  BY IndexInvariant, PTL

(* The calls of WriteAsync, in any number of processes, with any faults,   *)
(* implement the version index: no published version is ever lost to a     *)
(* concurrent update, replaced, or dropped other than as the oldest of a   *)
(* full list.                                                              *)
THEOREM Refinement == Spec => ImplementsVersionIndex
  <1>1. Init => Index!Init
    BY InitOK
  <1>2. TypeOK /\ IndexInv /\ [WriteNext]_vars => [Index!Next]_IndexOf
    BY NextOK DEF StepOK, DefaultsStep
  <1> QED
    BY <1>1, <1>2, IndexInvariant, PTL
       DEF Spec, ImplementsVersionIndex, Index!Spec, IndexOf

-----------------------------------------------------------------------------
(* Success means stored.                                                   *)

StoredBy(c) ==
  (pc[c] # "returned" /\ pc'[c] = "returned") =>
    Stored(c)'

(* The call that pushes its version onto the list can be found in it.      *)
LEMMA PushedIsElement ==
  ASSUME NEW t \in Seq(Versions), NEW v \in Versions, NEW s,
         PushedOnto(s, t, v)
  PROVE  s \in Seq(Versions) /\ v \in Elements(s)
  <1>1. ASSUME NEW u \in Seq(Versions), s = Append(u, v)
        PROVE  s \in Seq(Versions) /\ v \in Elements(s)
    <2>1. /\ s \in Seq(Versions) /\ Len(s) = Len(u) + 1
          /\ s[Len(u) + 1] = v /\ Len(u) \in Nat
      BY <1>1, AppendProperties, LenProperties
    <2>2. Len(u) + 1 \in 1 .. Len(s)
      BY <2>1
    <2> QED
      BY <2>1, <2>2 DEF Elements
  <1>2. CASE s = Append(t, v)
    BY <1>1, <1>2
  <1>3. CASE t # <<>> /\ s = Append(Tail(t), v)
    <2>1. Tail(t) \in Seq(Versions)
      BY <1>3, HeadTailProperties
    <2> QED
      BY <1>1, <1>3, <2>1
  <1> QED
    BY <1>2, <1>3 DEF PushedOnto

(* Nothing but the three normal ends of the code makes a call return.      *)
LEMMA OnlyEndsReturn ==
  ASSUME TypeOK, IndexInv, [WriteNext]_vars, NEW c \in Calls,
         pc[c] # "returned", pc'[c] = "returned"
  PROVE  \/ FirstVersionUploaded(c)
         \/ CheckVersions(c) /\ Known(blobs[Name(c)].metadata, chunk[c])
         \/ VersionsUpdated(c)
  <1> DEFINE Goal == \/ FirstVersionUploaded(c)
                     \/ CheckVersions(c) /\ Known(blobs[Name(c)].metadata, chunk[c])
                     \/ VersionsUpdated(c)
  <1>1. ASSUME NEW d \in Calls, NEW label, Goto(d, label)
        PROVE  d = c /\ label = "returned"
    BY <1>1 DEF Goto, TypeOK
  <1>2. ~\E s : ProcessDies(s)
    BY DEF ProcessDies
  <1>3. ~\E d \in Calls : StorageException(d) \/ PreconditionFailed(d)
    BY <1>1, <1>2 DEF StorageException, PreconditionFailed
  <1>4. ~UNCHANGED pc
    OBVIOUS
  <1>5. ASSUME NEW d \in Calls, WriteAsync(d) \/ CallStep(d)
        PROVE  Goal
    <2>1. CASE UploadFirstVersion(d)
      BY <1>1, <2>1 DEF UploadFirstVersion
    <2>2. CASE CheckVersions(d)
      <3>1. d = c
        BY <1>1, <2>2 DEF CheckVersions
      <3>2. Known(blobs[Name(c)].metadata, chunk[c])
        BY <1>1, <2>2, <3>1 DEF CheckVersions
      <3> QED
        BY <2>2, <3>1, <3>2
    <2>3. CASE UpdateMetadata(d)
      BY <1>1, <1>3, <2>3 DEF UpdateMetadata
    <2>4. CASE WriteAsync(d) \/ UploadGuidBlob(d) \/ EvictOldest(d) \/ Refetch(d)
      BY <1>1, <1>4, <2>4 DEF WriteAsync, UploadGuidBlob, EvictOldest, Refetch
    <2> QED
      BY <1>5, <2>1, <2>2, <2>3, <2>4 DEF CallStep
  <1>6. ASSUME NEW d \in Calls,
               RequestFails(d) \/ AnswerLost(d) \/ RequestResent(d)
        PROVE  FALSE
    BY <1>1, <1>3, <1>4, <1>6 DEF RequestFails, AnswerLost, RequestResent
  <1>7. ~\E s \in Servers : ServerCrash(s)
    BY <1>2 DEF ServerCrash
  <1>8. ~UNCHANGED vars
    BY <1>4 DEF vars, writeVars
  <1> QED
    BY <1>5, <1>6, <1>7, <1>8 DEF WriteNext

LEMMA ReturnStores ==
  ASSUME TypeOK, IndexInv, [WriteNext]_vars, NEW c \in Calls
  PROVE  StoredBy(c)
  <1> SUFFICES ASSUME pc[c] # "returned", pc'[c] = "returned"
               PROVE  Stored(c)'
    BY DEF StoredBy
  <1>1. PICK n \in BlobNames : n = Name(c)
    BY CallTypes
  <1>2. n \in Locations /\ blobs \in [Locations -> Blobs \cup {NoBlob}]
    BY <1>1 DEF Locations, TypeOK, ContainerTypeOK
  <1>3. CASE FirstVersionUploaded(c)
    <2>1. chunk' = chunk /\ Name(c)' = n
      BY <1>1, <1>3 DEF FirstVersionUploaded, Name
    <2>2. /\ blobs'[n].metadata.hash = chunk[c].hash
          /\ blobs'[n].metadata.parent = chunk[c].parent
      BY <1>1, <1>2, <1>3 DEF FirstVersionUploaded, Upload
    <2>3. Exists(n)'
      BY <1>1, <1>3, <2>1, FirstVersionUploadedStep DEF Exists
    <2> QED
      BY <2>1, <2>2, <2>3 DEF Stored, Known
  <1>4. CASE CheckVersions(c) /\ Known(blobs[Name(c)].metadata, chunk[c])
    <2>1. Exists(Name(c))
      BY <1>4 DEF CheckVersions, IndexInv, CallInv, Requests
    <2> QED
      BY <1>4, <2>1 DEF CheckVersions, Name, Stored, Known, Exists
  <1>5. CASE VersionsUpdated(c)
    <2> DEFINE t == blobs[n].metadata.versions
               v == VersionAt(c, guid[c])
    <2>1. chunk' = chunk /\ Name(c)' = n
      BY <1>1, <1>5 DEF VersionsUpdated, Name
    <2>2. Exists(n) /\ guid[c] \in Guids /\ PushedOnto(existing[c], t, v)
      BY <1>1, <1>5 DEF VersionsUpdated, IndexInv, CallInv, Requests
    <2>3. t \in Seq(Versions) /\ v \in Versions
      BY <1>1, <2>2, CallTypes DEF Blobs, Metadata
    <2>4. v \in Elements(existing[c])
      BY <2>2, <2>3, PushedIsElement
    <2>5. blobs'[n].metadata.versions = existing[c]
      BY <1>1, <1>2, <1>5 DEF VersionsUpdated, SetMetadata
    <2>6. v.hash = chunk[c].hash /\ v.parent = chunk[c].parent
      BY DEF VersionAt
    <2> HIDE DEF t, v
    <2>7. \E w \in Elements(existing[c]) :
             w.hash = chunk[c].hash /\ w.parent = chunk[c].parent
      BY <2>4, <2>6
    <2>8. Elements(blobs'[n].metadata.versions) = Elements(existing[c])
      BY <2>5
    <2>9. Exists(n)'
      BY <1>1, <1>5, <2>1, VersionsUpdatedStep DEF Exists
    <2> QED
      BY <2>1, <2>7, <2>8, <2>9 DEF Stored, Known, Elements
  <1> QED
    BY <1>3, <1>4, <1>5, OnlyEndsReturn

(* A call that returns without an exception has left its version where     *)
(* Lookup will find it, whatever failed, was lost or was sent twice on the *)
(* way: it returns only after the first upload, after finding the version  *)
(* there, or after the metadata update that lists it.                      *)
THEOREM ReturnedIsStored == Spec => StoredWhenReturned
  <1>1. TypeOK /\ IndexInv /\ [WriteNext]_vars => \A c \in Calls : StoredBy(c)
    BY ReturnStores
  <1>2. TypeOK /\ IndexInv /\ [WriteNext]_vars =>
          [\A c \in Calls :
             (pc[c] # "returned" /\ pc'[c] = "returned") => Stored(c)']_vars
    BY <1>1 DEF StoredBy
  <1> QED
    BY <1>2, IndexInvariant, PTL DEF Spec, StoredWhenReturned

=============================================================================
