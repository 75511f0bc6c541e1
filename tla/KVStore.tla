------------------------------- MODULE KVStore -------------------------------
(***************************************************************************)
(* Writers and readers of one container together: the calls of WriteAsync  *)
(* of KVStoreWrite and the calls of Lookup and ReadAsync of KVStoreLookup, *)
(* with no order between their requests but the one each call imposes.     *)
(***************************************************************************)
EXTENDS KVStoreWrite, KVStoreLookup, SequencesExt

(* History variable: the chain that a lookup would have returned, had it   *)
(* seen the whole container at the moment it started.                      *)
VARIABLE atStart

kvVars == <<blobs, writeVars, lookupVars, atStart>>

ChainNow(names) ==
  Chain(names, [i \in 1 .. Len(names) |->
                  IF Exists(names[i]) THEN blobs[names[i]].metadata
                  ELSE NotFound])

KVInit ==
  /\ ContainerInit /\ WriteInit /\ LookupInit
  /\ atStart = [l \in Lookups |-> <<>>]

WriterStep == WriteNext /\ UNCHANGED <<lookupVars, atStart>>

ReaderStarts(l) ==
  /\ StartLookup(l)
  /\ atStart' = [atStart EXCEPT ![l] = ChainNow(prompt[l])]
  /\ UNCHANGED writeVars

ReaderStep(l) == LookupStep(l) /\ UNCHANGED <<writeVars, atStart>>

KVNext ==
  \/ WriterStep
  \/ \E l \in Lookups : ReaderStarts(l) \/ ReaderStep(l)

KVSpec == KVInit /\ [][KVNext]_kvVars

-----------------------------------------------------------------------------
(* Properties.                                                             *)

KVTypeOK ==
  TypeOK /\ LookupTypeOK /\ atStart \in [Lookups -> Seq(BlockLocations)]

(* Whatever was evicted, listed or deleted between the three requests that *)
(* it takes (properties, chain, download): a block that is read has the    *)
(* hash the lookup announced, the hash of the block before it as parent,   *)
(* and the buffer somebody wrote for just these under its block's name.    *)
ReadsMatchLookup ==
  \A l \in Lookups : \A i \in 1 .. Len(result[l]) :
    answers[l][i] \notin {Pending, NotFound, Broken} =>
      /\ answers[l][i].hash = result[l][i].hash
      /\ i > 1 => answers[l][i].parent = result[l][i - 1].hash
      /\ \E c \in Calls :
           chunk[c] = [name |-> prompt[l][i], hash |-> answers[l][i].hash,
                       parent |-> answers[l][i].parent,
                       buffer |-> answers[l][i].buffer]

(* When no request fails, a block that was looked up is only found missing *)
(* because it was an additional version that is evicted: its name no       *)
(* longer lists it, or the call that deleted the blob is about to take it  *)
(* off the list.  A default blob is never missing, nor is a version that   *)
(* stays listed.                                                           *)
MissingOnlyWhenEvicted ==
  \A l \in Lookups : \A i \in 1 .. Len(result[l]) :
    answers[l][i] = NotFound =>
      /\ result[l][i].location \in Guids
      /\ \A v \in Listed(prompt[l][i]) :
           v.location = result[l][i].location =>
             \E c \in Calls : /\ chunk[c].name = prompt[l][i]
                              /\ pc[c] = "update" /\ ETagMatches(c)
                              /\ v \notin Elements(existing[c])

(* As long as nothing is evicted and no request is taken for a missing     *)
(* blob, the blocks a lookup returns are between those an atomic lookup    *)
(* would have returned when it started and those it would return now:      *)
(* fetching the blocks one by one under concurrent writers loses no block  *)
(* that was there and makes up no chain.                                   *)
NothingEvicted == \A c \in Calls : guid[c] # NoGuid => Exists(guid[c])

LookupBetween ==
  \A l \in Lookups :
    lpc[l] = "found" /\ NothingEvicted =>
      /\ IsPrefix(atStart[l], result[l])
      /\ IsPrefix(result[l], ChainNow(prompt[l]))

(* "Performs Lookup() to find cached prefix": the blocks found are the     *)
(* payloads of a prefix of the prompt looked up.  A buffer stands for the  *)
(* prompt up to its block that it was computed from.                       *)
FindsCachedPrefix ==
  \A l \in Lookups : \A i \in 1 .. Len(result[l]) :
    answers[l][i] \notin {Pending, NotFound, Broken} =>
      answers[l][i].buffer = SubSeq(prompt[l], 1, i)

=============================================================================
