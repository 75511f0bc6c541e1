--------------------------- MODULE BlobContainer ---------------------------
(***************************************************************************)
(* The Azure Blob container the service stores everything in, as           *)
(* AzureStorageKVStoreLibV2 uses it.  The container is the only state the  *)
(* calls of all server processes share; every request to it is atomic.     *)
(*                                                                         *)
(* A location is either the name EncodeTokensToBlobName gives a block of   *)
(* 128 tokens (the default blob of that block) or a generated GUID (the    *)
(* blob of one additional version).  A blob is the buffer it was uploaded  *)
(* with, its ETag, and the metadata the library reads back: "hash",        *)
(* "parenthash" and "additionalversions"; an absent "additionalversions"   *)
(* key is the empty sequence, which the library never writes.  ETags are   *)
(* counted per blob: all the library does with one is compare it.          *)
(***************************************************************************)
EXTENDS Naturals, Sequences

CONSTANTS BlobNames,  \* default locations, one per distinct block of tokens
          Guids,      \* values GenerateGuid can return
          Hashes,     \* hash_t
          ZeroHash,   \* hash_t 0, what Lookup takes for the parent of block 0
          Buffers,    \* payloads
          NoBlob      \* what a location without a blob holds

Locations == BlobNames \cup Guids

(* One entry of the "additionalversions" metadata (AdditionalVersion).     *)
Versions == [hash : Hashes, parent : Hashes, location : Guids]

Metadata == [hash : Hashes, parent : Hashes, versions : Seq(Versions)]

Blobs == [etag : Nat \ {0}, buffer : Buffers, metadata : Metadata]

(* What WriteAsync is given: the part of PromptChunk that it uses, with    *)
(* the tokens replaced by the blob name they encode to.                    *)
ChunkType == [name : BlobNames, hash : Hashes, parent : Hashes,
              buffer : Buffers]

ASSUME ContainerAssumption ==
  /\ BlobNames \cap Guids = {}
  /\ ZeroHash \in Hashes
  /\ NoBlob \notin Blobs

VARIABLE blobs

ContainerTypeOK == blobs \in [Locations -> Blobs \cup {NoBlob}]

ContainerInit == blobs = [loc \in Locations |-> NoBlob]

Exists(loc) == blobs[loc] # NoBlob

(* The ETag that a request changing the blob at loc gives it.              *)
NextETag(loc) == IF Exists(loc) THEN blobs[loc].etag + 1 ELSE 1

(* Upload of a block blob: creates or replaces content and metadata.       *)
Upload(loc, ck) ==
  blobs' = [blobs EXCEPT ![loc] =
              [etag     |-> NextETag(loc),
               buffer   |-> ck.buffer,
               metadata |-> [hash |-> ck.hash, parent |-> ck.parent,
                             versions |-> <<>>]]]

(* SetMetadata replaces all the metadata of an existing blob.              *)
SetMetadata(loc, md) ==
  blobs' = [blobs EXCEPT ![loc] = [etag     |-> NextETag(loc),
                                   buffer   |-> blobs[loc].buffer,
                                   metadata |-> md]]

(* Deleting a blob that is not there answers 404, which no caller minds.   *)
Delete(loc) == blobs' = [blobs EXCEPT ![loc] = NoBlob]

=============================================================================
