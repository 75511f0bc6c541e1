---------------------------- MODULE KVStoreLookup ----------------------------
(***************************************************************************)
(* AzureStorageKVStoreLibV2::Lookup and ReadAsync over a blob container    *)
(* that others are writing to.                                             *)
(*                                                                         *)
(* A lookup asks for the properties of the default blob of every block of  *)
(* the prompt at once, one thread per block, so each answer shows the      *)
(* container at a moment of its own.  When all are in, it follows the      *)
(* chain of parent hashes from block to block.  The caller then reads the  *)
(* locations it got, again all at once and later still.                    *)
(***************************************************************************)
EXTENDS BlobContainer

CONSTANTS Lookups,      \* the calls of Lookup
          Prompts,      \* what they may ask for: sequences of full blocks
          Failures,     \* what a failing request may be taken for
          Pending,      \* no answer yet
          NotFound,     \* what a StorageException is taken for
          Broken        \* another exception in the future

(* What ReadAsync returns of the blob at a location.                       *)
Downloads == [hash : Hashes, parent : Hashes, buffer : Buffers]

ASSUME LookupAssumptions ==
  /\ Prompts \subseteq Seq(BlobNames)
  /\ Failures \subseteq {NotFound, Broken}
  /\ {Pending, NotFound, Broken} \cap (Metadata \cup Downloads) = {}
  /\ Pending # NotFound /\ Pending # Broken /\ NotFound # Broken

VARIABLES lpc,      \* [Lookups -> "idle", "fetching", "found" or "threw"]
          prompt,   \* the blocks asked for
          fetched,  \* the answers of GetProperties, by block
          result,   \* LookupResult.locations
          answers   \* what ReadAsync returned, by location of the result

lookupVars == <<lpc, prompt, fetched, result, answers>>

BlockLocations == [hash : Hashes, location : Locations]

LookupTypeOK ==
  /\ lpc \in [Lookups -> {"idle", "fetching", "found", "threw"}]
  /\ prompt \in [Lookups -> Prompts]
  /\ fetched \in [Lookups -> Seq(Metadata \cup {Pending, NotFound, Broken})]
  /\ result \in [Lookups -> Seq(BlockLocations)]
  /\ answers \in [Lookups -> Seq(Downloads \cup {Pending, NotFound, Broken})]
  /\ \A l \in Lookups : /\ Len(fetched[l]) = Len(prompt[l])
                        /\ Len(answers[l]) = Len(result[l])
                        /\ Len(result[l]) <= Len(prompt[l])

AllPending(s) == [i \in 1 .. Len(s) |-> Pending]

LookupInit ==
  /\ lpc = [l \in Lookups |-> "idle"]
  /\ prompt \in [Lookups -> Prompts]
  /\ fetched = [l \in Lookups |-> AllPending(prompt[l])]
  /\ result = [l \in Lookups |-> <<>>]
  /\ answers = [l \in Lookups |-> <<>>]

-----------------------------------------------------------------------------
(* The listed versions with the expected parent, by their positions.       *)
Hits(md, expectedParent) ==
  {j \in 1 .. Len(md.versions) : md.versions[j].parent = expectedParent}

FirstHit(md, expectedParent) ==
  LET hits == Hits(md, expectedParent)
  IN md.versions[CHOOSE j \in hits : \A k \in hits : j <= k]

(* Mutant: the fields are swapped.                                         *)
HashForLocation(v) == [hash |-> v.location, location |-> v.hash]
Location(v) == [hash |-> v.hash, location |-> v.location]

(* Mutant: the default location instead of that of the hit.                *)
HitAtDefault(i, name, md, expectedParent) ==
  IF md \in {NotFound, Broken} THEN <<>>
  ELSE IF i = 1 \/ md.parent = expectedParent
  THEN <<[hash |-> md.hash, location |-> name]>>
  ELSE IF Hits(md, expectedParent) = {} THEN <<>>
  ELSE <<[hash |-> FirstHit(md, expectedParent).hash, location |-> name]>>

(* The location for block i, in a sequence, or the empty sequence: the     *)
(* default blob if its parent is the expected one, which is not checked    *)
(* for the first block, or else the first listed version with that parent. *)
Match(i, name, md, expectedParent) ==
  IF md \in {NotFound, Broken} THEN <<>>
  ELSE IF i = 1 \/ md.parent = expectedParent
  THEN <<[hash |-> md.hash, location |-> name]>>
  ELSE IF Hits(md, expectedParent) = {} THEN <<>>
  ELSE <<Location(FirstHit(md, expectedParent))>>

ExpectedParent(chain, i) == IF i = 1 THEN ZeroHash ELSE chain[i - 1].hash

(* The chain up to block i, from the one up to the block before.           *)
Extend(names, mds, i, chain) ==
  IF Len(chain) < i - 1 THEN chain
  ELSE chain \o Match(i, names[i], mds[i], ExpectedParent(chain, i))

(* The chain through the blocks of names with properties mds, up to the    *)
(* first block that has no match.                                          *)
Chain(names, mds) ==
  LET upTo[i \in 0 .. Len(names)] ==
        IF i = 0 THEN <<>> ELSE Extend(names, mds, i, upTo[i - 1])
  IN upTo[Len(names)]

(* Lookup: launches the requests.                                          *)
StartLookup(l) ==
  /\ lpc[l] = "idle"
  /\ lpc' = [lpc EXCEPT ![l] = "fetching"]
  /\ UNCHANGED <<blobs, prompt, fetched, result, answers>>

(* The request for the properties of block i is answered.                  *)
GetProperties(l, i) ==
  /\ lpc[l] = "fetching"
  /\ fetched[l][i] = Pending
  /\ LET name == prompt[l][i]
     IN \/ /\ Exists(name)
           /\ fetched' = [fetched EXCEPT ![l][i] = blobs[name].metadata]
        \/ /\ ~Exists(name) \/ NotFound \in Failures
           /\ fetched' = [fetched EXCEPT ![l][i] = NotFound]
        \/ /\ Broken \in Failures
           /\ fetched' = [fetched EXCEPT ![l][i] = Broken]
  /\ UNCHANGED <<blobs, lpc, prompt, result, answers>>

Found(l, chain) ==
  /\ lpc' = [lpc EXCEPT ![l] = "found"]
  /\ result' = [result EXCEPT ![l] = chain]
  /\ answers' = [answers EXCEPT ![l] = AllPending(chain)]

AllFetched(l) ==
  /\ lpc[l] = "fetching"
  /\ \A i \in 1 .. Len(prompt[l]) : fetched[l][i] # Pending

(* All futures are ready (the destructors of the others wait for them even *)
(* when the chain breaks early).  An exception in the future of the first  *)
(* block past the chain leaves Lookup.                                     *)
ValidateChain(l) ==
  /\ AllFetched(l)
  /\ LET chain == Chain(prompt[l], fetched[l])
         next == Len(chain) + 1
     IN IF next <= Len(prompt[l]) /\ fetched[l][next] = Broken
        THEN /\ lpc' = [lpc EXCEPT ![l] = "threw"]
             /\ UNCHANGED <<result, answers>>
        ELSE Found(l, chain)
  /\ UNCHANGED <<blobs, prompt, fetched>>

(* ReadAsync of the i-th location found: one Download.                     *)
ReadAsync(l, i) ==
  /\ lpc[l] = "found"
  /\ answers[l][i] = Pending
  /\ LET loc == result[l][i].location
     IN \/ /\ Exists(loc)
           /\ answers' = [answers EXCEPT ![l][i] =
                            [hash   |-> blobs[loc].metadata.hash,
                             parent |-> blobs[loc].metadata.parent,
                             buffer |-> blobs[loc].buffer]]
        \/ /\ ~Exists(loc) \/ NotFound \in Failures
           /\ answers' = [answers EXCEPT ![l][i] = NotFound]
        \/ /\ Broken \in Failures
           /\ answers' = [answers EXCEPT ![l][i] = Broken]
  /\ UNCHANGED <<blobs, lpc, prompt, fetched, result>>

LookupStep(l) ==
  \/ \E i \in 1 .. Len(prompt[l]) : GetProperties(l, i)
  \/ ValidateChain(l)
  \/ \E i \in 1 .. Len(result[l]) : ReadAsync(l, i)

LookupNext == \E l \in Lookups : StartLookup(l) \/ LookupStep(l)

=============================================================================
