---------------------------- MODULE KVStoreWrite ----------------------------
(***************************************************************************)
(* AzureStorageKVStoreLibV2::WriteAsync, run by any number of concurrent   *)
(* calls in any number of server processes over one blob container.        *)
(*                                                                         *)
(* Each call is a thread that sends one request at a time; a step is one   *)
(* request together with the local work up to the next one.  pc[c] names   *)
(* the request the call sends next:                                        *)
(*   upload      Upload of the default blob, IfNoneMatch = *               *)
(*   properties  GetProperties after the 409, and the duplicate check      *)
(*   uploadGuid  Upload of the blob of the additional version              *)
(*   update      Deletes of evicted versions, then SetMetadata IfMatch     *)
(*   refetch     GetProperties after the 412                               *)
(* and how it ended:                                                       *)
(*   returned    the future holds no exception                             *)
(*   failed      a StorageException reached the outermost catch, which     *)
(*               swallows it: the future holds no exception either         *)
(*   threw       an exception of another type is in the future             *)
(*   crashed     the process died                                          *)
(***************************************************************************)
EXTENDS BlobContainer, FiniteSets

CONSTANTS Calls,          \* the calls of WriteAsync
          Chunks,         \* the chunks they may be asked to write
          Servers,        \* server processes
          ServerOf,       \* the process each call runs in
          MaxVersions,    \* maxVersions
          MaxRetries,     \* maxRetries
          FreshGuids,     \* TRUE: GenerateGuid never repeats a value
          AssertsEnabled, \* TRUE: built without NDEBUG
          FaultKinds,     \* which faults may happen,
          MaxFaults,      \* and how often (bound of the model)
          NoGuid          \* guidLocation before it is generated

ASSUME WriteAssumptions ==
  /\ Chunks \subseteq ChunkType
  /\ ServerOf \in [Calls -> Servers]
  /\ MaxVersions \in Nat \ {0}
  /\ MaxRetries \in Nat \ {0}
  /\ FreshGuids \in BOOLEAN
  /\ AssertsEnabled \in BOOLEAN
  /\ FaultKinds \subseteq {"fail", "lost", "resend", "crash"}
  /\ MaxFaults \in Nat
  /\ NoGuid \notin Guids

VARIABLES pc,        \* [Calls -> pc value], see above
          chunk,     \* the argument of the call
          props,     \* currentETag and metadata, as last fetched
          existing,  \* existingVersions
          guid,      \* guidLocation
          retry,     \* the loop counter
          faults     \* faults so far

writeVars == <<pc, chunk, props, existing, guid, retry, faults>>
vars == <<blobs, writeVars>>

Requests == {"upload", "properties", "uploadGuid", "update", "refetch"}
Outcomes == {"returned", "failed", "threw", "crashed"}

NoProps == [etag |-> 0, metadata |-> [hash |-> ZeroHash, parent |-> ZeroHash,
                                      versions |-> <<>>]]

(* The type invariant: every variable has the shape the code gives it.     *)
TypeOK ==
  /\ ContainerTypeOK
  /\ pc \in [Calls -> {"idle"} \cup Requests \cup Outcomes]
  /\ chunk \in [Calls -> Chunks]
  /\ props \in [Calls -> [etag : Nat, metadata : Metadata]]
  /\ existing \in [Calls -> Seq(Versions)]
  /\ guid \in [Calls -> Guids \cup {NoGuid}]
  /\ retry \in [Calls -> Nat]
  /\ faults \in Nat

WriteInit ==
  /\ pc = [c \in Calls |-> "idle"]
  /\ chunk \in [Calls -> Chunks]
  /\ props = [c \in Calls |-> NoProps]
  /\ existing = [c \in Calls |-> <<>>]
  /\ guid = [c \in Calls |-> NoGuid]
  /\ retry = [c \in Calls |-> 0]
  /\ faults = 0

-----------------------------------------------------------------------------
Name(c) == chunk[c].name

InFlight(c) == pc[c] \in Requests

Goto(c, label) == pc' = [pc EXCEPT ![c] = label]

(* The version that call c adds to the list, at location g.                *)
VersionAt(c, g) ==
  [hash |-> chunk[c].hash, parent |-> chunk[c].parent, location |-> g]

Elements(s) == {s[i] : i \in 1 .. Len(s)}

(* The same (hash, parentHash) as the default blob or a listed version.    *)
Known(md, ck) ==
  \/ md.hash = ck.hash /\ md.parent = ck.parent
  \/ \E v \in Elements(md.versions) : v.hash = ck.hash /\ v.parent = ck.parent

(* Mutant: GUIDs repeat.                                                   *)
AnyGuid(g) == g \in Guids

GenerateGuid(g) == FreshGuids => \A c \in Calls : guid[c] # g

(* All calls of the process of c that are still running die with it.       *)
ProcessDies(s) ==
  pc' = [d \in Calls |->
           IF InFlight(d) /\ ServerOf[d] = s THEN "crashed" ELSE pc[d]]

(* Mutant: the outermost catch takes the failure for the end of the work.  *)
EndsAsIfStored(c) == Goto(c, "returned")

(* A StorageException other than the 409 and the 412 the code retries: the *)
(* outermost catch logs it and asserts.                                    *)
StorageException(c) ==
  IF AssertsEnabled THEN ProcessDies(ServerOf[c]) ELSE Goto(c, "failed")

(* Mutants: the loop gives up one round early; it is left by a break that  *)
(* passes for success.                                                     *)
GivesUpEarly(c) ==
  \/ retry[c] = MaxRetries - 2 /\ StorageException(c) /\ UNCHANGED retry
  \/ /\ retry[c] # MaxRetries - 2
     /\ retry' = [retry EXCEPT ![c] = @ + 1]
     /\ Goto(c, "refetch")
BreaksOut(c) ==
  \/ retry[c] = MaxRetries - 1 /\ Goto(c, "returned") /\ UNCHANGED retry
  \/ /\ retry[c] # MaxRetries - 1
     /\ retry' = [retry EXCEPT ![c] = @ + 1]
     /\ Goto(c, "refetch")

(* 412: the retry loop goes round again, or gives up.                      *)
PreconditionFailed(c) ==
  \/ /\ retry[c] = MaxRetries - 1
     /\ StorageException(c)
     /\ UNCHANGED retry
  \/ /\ retry[c] # MaxRetries - 1
     /\ retry' = [retry EXCEPT ![c] = @ + 1]
     /\ Goto(c, "refetch")

-----------------------------------------------------------------------------
(* The requests that change the container, apart from what the call does   *)
(* with the answer.                                                        *)

(* Mutant: Upload without the IfNoneMatch condition.                       *)
UploadedAnyway(c) ==
  /\ pc[c] = "upload"
  /\ Upload(Name(c), chunk[c])
  /\ UNCHANGED <<chunk, props, existing, guid, retry>>

FirstVersionUploaded(c) ==
  /\ pc[c] = "upload"
  /\ ~Exists(Name(c))
  /\ Upload(Name(c), chunk[c])
  /\ UNCHANGED <<chunk, props, existing, guid, retry>>

(* Mutant: the version is built before guidLocation is set.                *)
ListedBeforeNamed(c) ==
  /\ pc[c] = "uploadGuid"
  /\ \E g \in Guids :
       /\ GenerateGuid(g)
       /\ guid' = [guid EXCEPT ![c] = g]
       /\ Upload(g, chunk[c])
  /\ existing' = [existing EXCEPT ![c] = Append(@, VersionAt(c, guid[c]))]
  /\ UNCHANGED <<chunk, props, retry>>

GuidBlobUploaded(c) ==
  /\ pc[c] = "uploadGuid"
  /\ \E g \in Guids :
       /\ GenerateGuid(g)
       /\ guid' = [guid EXCEPT ![c] = g]
       /\ Upload(g, chunk[c])
       /\ existing' = [existing EXCEPT ![c] = Append(@, VersionAt(c, g))]
  /\ UNCHANGED <<chunk, props, retry>>

OverCapacity(c) == Len(existing[c]) > MaxVersions

(* Mutants: back() for front(); the entry goes and the blob stays; the     *)
(* blob goes and the entry stays.                                          *)
NewestDeleted(c) ==
  /\ pc[c] = "update" /\ OverCapacity(c)
  /\ Delete(existing[c][Len(existing[c])].location)
  /\ existing' = [existing EXCEPT ![c] = Tail(@)]
  /\ UNCHANGED <<chunk, props, guid, retry>>
OldestForgotten(c) ==
  /\ pc[c] = "update" /\ OverCapacity(c)
  /\ existing' = [existing EXCEPT ![c] = Tail(@)]
  /\ UNCHANGED <<blobs, chunk, props, guid, retry>>
OldestNotErased(c) ==
  /\ pc[c] = "update" /\ OverCapacity(c)
  /\ Delete(Head(existing[c]).location)
  /\ UNCHANGED <<chunk, props, existing, guid, retry>>

OldestDeleted(c) ==
  /\ pc[c] = "update"
  /\ OverCapacity(c)
  /\ Delete(Head(existing[c]).location)
  /\ existing' = [existing EXCEPT ![c] = Tail(@)]
  /\ UNCHANGED <<chunk, props, guid, retry>>

(* Mutant: SetMetadata without the IfMatch condition.                      *)
NoCondition(c) == c \in Calls

ETagMatches(c) == props[c].etag = blobs[Name(c)].etag

VersionsUpdated(c) ==
  /\ pc[c] = "update"
  /\ ~OverCapacity(c)
  /\ ETagMatches(c)
  /\ SetMetadata(Name(c), [hash     |-> props[c].metadata.hash,
                           parent   |-> props[c].metadata.parent,
                           versions |-> existing[c]])
  /\ UNCHANGED <<chunk, props, existing, guid>>

-----------------------------------------------------------------------------
(* The call, when the storage answers every request.                       *)

WriteAsync(c) ==
  /\ pc[c] = "idle"
  /\ Goto(c, "upload")
  /\ UNCHANGED <<blobs, chunk, props, existing, guid, retry, faults>>

UploadFirstVersion(c) ==
  /\ \/ FirstVersionUploaded(c) /\ Goto(c, "returned")
     \/ /\ pc[c] = "upload"
        /\ Exists(Name(c))
        /\ Goto(c, "properties")
        /\ UNCHANGED <<blobs, chunk, props, existing, guid, retry>>
  /\ UNCHANGED faults

CheckVersions(c) ==
  /\ pc[c] = "properties"
  /\ LET b == blobs[Name(c)]
     IN \/ /\ Known(b.metadata, chunk[c])
           /\ Goto(c, "returned")
           /\ UNCHANGED <<props, existing>>
        \/ /\ ~Known(b.metadata, chunk[c])
           /\ props' = [props EXCEPT ![c] = [etag     |-> b.etag,
                                             metadata |-> b.metadata]]
           /\ existing' = [existing EXCEPT ![c] = b.metadata.versions]
           /\ Goto(c, "uploadGuid")
  /\ UNCHANGED <<blobs, chunk, guid, retry, faults>>

UploadGuidBlob(c) ==
  /\ GuidBlobUploaded(c)
  /\ Goto(c, "update")
  /\ UNCHANGED faults

EvictOldest(c) ==
  /\ OldestDeleted(c)
  /\ UNCHANGED <<pc, faults>>

UpdateMetadata(c) ==
  /\ \/ VersionsUpdated(c) /\ Goto(c, "returned") /\ UNCHANGED retry
     \/ /\ pc[c] = "update"
        /\ ~OverCapacity(c)
        /\ ~ETagMatches(c)
        /\ PreconditionFailed(c)
        /\ UNCHANGED <<blobs, chunk, props, existing, guid>>
  /\ UNCHANGED faults

(* Mutant: the versions are not parsed again.                              *)
RefetchesOnlyETag(c) ==
  /\ pc[c] = "refetch"
  /\ LET b == blobs[Name(c)]
     IN props' = [props EXCEPT ![c] = [etag     |-> b.etag,
                                       metadata |-> b.metadata]]
  /\ existing' = [existing EXCEPT ![c] = Append(@, VersionAt(c, guid[c]))]
  /\ Goto(c, "update")
  /\ UNCHANGED <<blobs, chunk, guid, retry, faults>>

(* existingVersions is only replaced when the metadata has the key; the    *)
(* duplicate check is not repeated.                                        *)
Refetch(c) ==
  /\ pc[c] = "refetch"
  /\ LET b == blobs[Name(c)]
         kept == IF b.metadata.versions = <<>> THEN existing[c]
                 ELSE b.metadata.versions
     IN /\ props' = [props EXCEPT ![c] = [etag     |-> b.etag,
                                          metadata |-> b.metadata]]
        /\ existing' = [existing EXCEPT
                          ![c] = Append(kept, VersionAt(c, guid[c]))]
  /\ Goto(c, "update")
  /\ UNCHANGED <<blobs, chunk, guid, retry, faults>>

CallStep(c) ==
  \/ UploadFirstVersion(c)
  \/ CheckVersions(c)
  \/ UploadGuidBlob(c)
  \/ EvictOldest(c)
  \/ UpdateMetadata(c)
  \/ Refetch(c)

-----------------------------------------------------------------------------
(* Faults.  The SDK re-sends a request whose answer it does not get, twice *)
(* at most; after that the call sees a StorageException (the service       *)
(* answered an error) or an exception of another type (nothing arrived).   *)

Fault(kind) ==
  /\ kind \in FaultKinds
  /\ faults < MaxFaults
  /\ faults' = faults + 1

Deleting(c) == pc[c] = "update" /\ OverCapacity(c)

(* The request has no effect and the call sees an exception; the one of a  *)
(* Delete is caught on the spot if it is a StorageException.               *)
RequestFails(c) ==
  /\ Fault("fail")
  /\ InFlight(c)
  /\ \/ ~Deleting(c) /\ StorageException(c) /\ UNCHANGED existing
     \/ Goto(c, "threw") /\ UNCHANGED existing
     \/ /\ Deleting(c)
        /\ existing' = [existing EXCEPT ![c] = Tail(@)]
        /\ UNCHANGED pc
  /\ UNCHANGED <<blobs, chunk, props, guid, retry>>

(* The request takes effect and the call sees an exception.                *)
AnswerLost(c) ==
  /\ Fault("lost")
  /\ \/ /\ \/ FirstVersionUploaded(c)
           \/ GuidBlobUploaded(c)
           \/ VersionsUpdated(c) /\ UNCHANGED retry
        /\ StorageException(c) \/ Goto(c, "threw")
     \/ OldestDeleted(c) /\ Goto(c, "threw")

(* The request takes effect, its answer is lost, and the SDK's second try  *)
(* fails its precondition.  (Trying the other requests twice is the same   *)
(* as trying them once.)                                                   *)
RequestResent(c) ==
  /\ Fault("resend")
  /\ \/ FirstVersionUploaded(c) /\ Goto(c, "properties")
     \/ VersionsUpdated(c) /\ PreconditionFailed(c)

ServerCrash(s) ==
  /\ Fault("crash")
  /\ \E c \in Calls : InFlight(c) /\ ServerOf[c] = s
  /\ ProcessDies(s)
  /\ UNCHANGED <<blobs, chunk, props, existing, guid, retry>>

WriteNext ==
  \/ \E c \in Calls : \/ WriteAsync(c)
                      \/ CallStep(c)
                      \/ RequestFails(c)
                      \/ AnswerLost(c)
                      \/ RequestResent(c)
  \/ \E s \in Servers : ServerCrash(s)

Init == ContainerInit /\ WriteInit

(* A call is a thread of its own: the scheduler runs it and the storage    *)
(* answers it.  Nothing says that a call is ever made.                     *)
WriteFairness == \A c \in Calls : WF_vars(CallStep(c))

Spec == Init /\ [][WriteNext]_vars

FairSpec == Spec /\ WriteFairness

-----------------------------------------------------------------------------
(* Properties.                                                             *)

Listed(n) == IF Exists(n) THEN Elements(blobs[n].metadata.versions) ELSE {}

(* The entries that the metadata lists but whose blob is gone.             *)
Dangling(n) == {v \in Listed(n) : ~Exists(v.location)}

(* What the calls add up to, whatever fails and however often GUIDs        *)
(* repeat: the first version under a name never changes, and the list of   *)
(* additional versions is one FIFO in which no concurrent update is lost   *)
(* (the IfNoneMatch upload, the IfMatch metadata update and its retries).  *)
VersionIndexOf(n) ==
  IF Exists(n)
  THEN [first      |-> [hash   |-> blobs[n].metadata.hash,
                        parent |-> blobs[n].metadata.parent,
                        buffer |-> blobs[n].buffer],
        additional |-> blobs[n].metadata.versions]
  ELSE NoBlob

Index == INSTANCE VersionIndex WITH
  Names      <- BlobNames,
  Firsts     <- [hash : Hashes, parent : Hashes, buffer : Buffers],
  Additional <- Versions,
  NoEntry    <- NoBlob,
  index      <- [n \in BlobNames |-> VersionIndexOf(n)]

ASSUME IndexAssumption == NoBlob \notin Index!Entries

ImplementsVersionIndex == Index!Spec

(* Why: the list stays within its capacity, and has entries once the blob  *)
(* was changed; a call past the 409 has a default blob to work on, whose   *)
(* hash and parent it knows; and as long as the ETag it holds is current,  *)
(* its existingVersions are the current list, with its own version pushed  *)
(* and at most the oldest evicted.  A call that fetches again has lost to  *)
(* another, so that it will find the key it only copies when present.      *)
DefaultInv(n) ==
  Exists(n) => /\ Len(blobs[n].metadata.versions) <= MaxVersions
               /\ blobs[n].etag > 1 => blobs[n].metadata.versions # <<>>

PushedOnto(s, t, v) ==
  \/ s = Append(t, v)
  \/ t # <<>> /\ Len(t) = MaxVersions /\ s = Append(Tail(t), v)

CallInv(c) ==
  /\ pc[c] \in Requests \ {"upload"} => Exists(Name(c))
  /\ pc[c] \in {"uploadGuid", "update", "refetch"} =>
       /\ props[c].etag \in 1 .. blobs[Name(c)].etag
       /\ props[c].metadata.hash = blobs[Name(c)].metadata.hash
       /\ props[c].metadata.parent = blobs[Name(c)].metadata.parent
  /\ pc[c] = "uploadGuid" /\ ETagMatches(c) =>
       existing[c] = blobs[Name(c)].metadata.versions
  /\ pc[c] \in {"update", "refetch"} => guid[c] \in Guids
  /\ pc[c] = "update" /\ ETagMatches(c) =>
       PushedOnto(existing[c], blobs[Name(c)].metadata.versions,
                  VersionAt(c, guid[c]))
  /\ pc[c] = "refetch" => ~ETagMatches(c)

IndexInv ==
  /\ \A n \in BlobNames : DefaultInv(n)
  /\ \A c \in Calls : CallInv(c)

(* As long as GUIDs do not repeat, the blob at a listed location holds     *)
(* what was written for the hash, the parent and the block of tokens it is *)
(* listed under: no writer overwrites another's GUID blob or lists it      *)
(* under a name of its own.                                                *)
ListedContentMatches ==
  \A n \in BlobNames : \A v \in Listed(n) \ Dangling(n) :
    \E c \in Calls :
      /\ chunk[c].name = n
      /\ chunk[c].hash = v.hash
      /\ chunk[c].parent = v.parent
      /\ chunk[c].buffer = blobs[v.location].buffer
      /\ blobs[v.location].metadata.hash = v.hash
      /\ blobs[v.location].metadata.parent = v.parent

(* The eviction deletes the blob before the metadata stops listing it.     *)
(* The only entries whose blob is missing are those that a call evicted    *)
(* which still holds the current ETag: its SetMetadata is about to drop    *)
(* them, unless it ended before it got there.  (Not so when a re-sent      *)
(* SetMetadata makes a call list its own version twice.)                   *)
DanglingOnlyWhileEvicting ==
  \A n \in BlobNames : \A v \in Dangling(n) :
    \E c \in Calls :
      /\ chunk[c].name = n
      /\ pc[c] = "update" \/ pc[c] \in Outcomes \ {"returned"}
      /\ ETagMatches(c)
      /\ v \notin Elements(existing[c])

(* When nothing fails, a GUID blob is never left behind: it is listed, or  *)
(* the call that uploaded it is still running or gave up after MaxRetries. *)
NoLeakedGuidBlob ==
  \A g \in Guids :
    Exists(g) =>
      \/ \E n \in BlobNames : \E v \in Listed(n) : v.location = g
      \/ \E c \in Calls : guid[c] = g /\ (InFlight(c) \/ pc[c] = "failed")

(* When nothing fails, a call only gives up where the first version and at *)
(* least MaxRetries more have been published under its name (those from    *)
(* before it began among them): some call always gets through.             *)
GivesUpOnlyWhenBeaten ==
  \A c \in Calls :
    pc[c] = "failed" => blobs[Name(c)].etag > MaxRetries

(* The version of call c is the default version or listed.               *)
Stored(c) == Exists(Name(c)) /\ Known(blobs[Name(c)].metadata, chunk[c])

(* A call that gets to a "return" of WriteAsync, rather than to one of the *)
(* catches, leaves its version where Lookup finds it: at that moment it is *)
(* the default version or it is listed, whatever failed on the way.        *)
StoredWhenReturned ==
  [][\A c \in Calls :
       (pc[c] # "returned" /\ pc'[c] = "returned") => Stored(c)']_vars

(* WriteAsync asserts that no StorageException gets to its outermost catch *)
(* ("Azure StorageException during WriteAsync").                           *)
NoStorageException == \A c \in Calls : pc[c] # "failed"

(* Every call ends, whatever the others do: the loops are bounded.         *)
CallsEnd == \A c \in Calls : InFlight(c) ~> ~InFlight(c)

(* A location that Lookup may hand out but that cannot be read goes away,  *)
(* because the metadata update follows the delete, unless some call under  *)
(* that name ended in between, with an exception or with its process.      *)
DanglingIsTransient ==
  \A n \in BlobNames, g \in Guids :
    (\E v \in Dangling(n) : v.location = g)
      ~> \/ ~(\E v \in Dangling(n) : v.location = g)
         \/ \E c \in Calls : /\ chunk[c].name = n
                            /\ pc[c] \in Outcomes \ {"returned"}

=============================================================================
