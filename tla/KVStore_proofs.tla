---------------------------- MODULE KVStore_proofs ----------------------------
(***************************************************************************)
(* Theorems about readers among the writers of a container, for any number *)
(* of lookups, prompts of any length, calls, processes and versions: what  *)
(* a lookup finds can be read and is what it was announced to be, a block  *)
(* is only missing when it was evicted, and a lookup that fetches block    *)
(* after block returns no less and no more than an atomic one.             *)
(***************************************************************************)
EXTENDS KVStore, KVStoreContent_proofs, WellFoundedInduction

-----------------------------------------------------------------------------
(* Induction, from the least element of a set of numbers.                  *)

Before == OpToRel(<, Nat)

LEMMA LeastNumber ==
  ASSUME NEW T, T \subseteq Nat, T # {}
  PROVE  \E x \in T : \A y \in T : x <= y
<1>1. IsWellFoundedOn(Before, Nat)
  BY NatLessThanWellFounded DEF Before
<1>2. PICK x \in T : \A y \in T : <<y, x>> \notin Before
  BY <1>1, WFMin
<1>3. ASSUME NEW y \in T
      PROVE  x <= y
  <2>1. x \in Nat /\ y \in Nat
    OBVIOUS
  <2>2. y < x => <<y, x>> \in Before
    BY <2>1 DEF OpToRel, Before
  <2> QED
    BY <1>2, <2>1, <2>2
<1> QED
  BY <1>3

LEMMA Induction ==
  ASSUME NEW S, 0 \in S, \A n \in Nat : n \in S => n + 1 \in S
  PROVE  Nat \subseteq S
<1> SUFFICES ASSUME ~(Nat \subseteq S)
             PROVE  FALSE
  OBVIOUS
<1>1. Nat \ S # {}
  OBVIOUS
<1>2. PICK x \in Nat \ S : \A y \in Nat \ S : x <= y
  BY <1>1, LeastNumber
<1>3. x # 0
  OBVIOUS
<1>4. x - 1 \in Nat /\ x - 1 \notin Nat \ S
  BY <1>2, <1>3
<1> QED
  BY <1>3, <1>4

-----------------------------------------------------------------------------
(* The chain of a lookup.                                                  *)

Specials == {Pending, NotFound, Broken}
Answered == Metadata \cup Specials

(* A chain through the blocks, and that it goes no further.                *)
IsChain(names, mds, s) ==
  /\ s \in Seq(BlockLocations) /\ Len(s) <= Len(names)
  /\ \A i \in 1 .. Len(s) :
       Match(i, names[i], mds[i], ExpectedParent(s, i)) = <<s[i]>>

GoesOn(names, mds, s) ==
  LET i == Len(s) + 1
  IN Match(i, names[i], mds[i], ExpectedParent(s, i)) # <<>>

UpTo(names, mds, f) ==
  f = [i \in 0 .. Len(names) |->
         IF i = 0 THEN <<>> ELSE Extend(names, mds, i, f[i - 1])]

(* The recursive definition of the chain has the value it describes.       *)
LEMMA ChainDef ==
  ASSUME NEW names, NEW mds, Len(names) \in Nat
  PROVE  \E upTo :
           Chain(names, mds) = upTo[Len(names)] /\ UpTo(names, mds, upTo)
<1> DEFINE Val(f, i) == IF i = 0 THEN <<>> ELSE Extend(names, mds, i, f[i - 1])
           F(n) == CHOOSE f : f = [i \in 0 .. n |-> Val(f, i)]
           S == {n \in Nat : \E f : f = [i \in 0 .. n |-> Val(f, i)]}
<1>1. Chain(names, mds) = F(Len(names))[Len(names)]
  BY DEF Chain
<1>2. ASSUME NEW f, NEW g, NEW i \in Nat, i # 0 => f[i - 1] = g[i - 1]
      PROVE  Val(f, i) = Val(g, i)
  BY <1>2
<1>3. 0 \in S
  <2> DEFINE f == [i \in 0 .. 0 |-> <<>>]
  <2>1. f = [i \in 0 .. 0 |-> Val(f, i)]
    OBVIOUS
  <2> QED
    BY <2>1
<1>4. ASSUME NEW n \in Nat, n \in S
      PROVE  n + 1 \in S
  <2>1. PICK f : f = [i \in 0 .. n |-> Val(f, i)]
    BY <1>4
  <2> DEFINE g == [i \in 0 .. n + 1 |-> IF i = n + 1 THEN Val(f, i) ELSE f[i]]
  <2>2. ASSUME NEW i \in 0 .. n + 1
        PROVE  g[i] = Val(g, i)
    <3>1. i # 0 => g[i - 1] = f[i - 1]
      OBVIOUS
    <3>2. Val(f, i) = Val(g, i)
      BY <3>1, <1>2
    <3>3. g[i] = Val(f, i)
      BY <2>1
    <3> QED
      BY <3>2, <3>3
  <2>3. g = [i \in 0 .. n + 1 |-> Val(g, i)]
    BY <2>2
  <2>4. \E h : h = [i \in 0 .. n + 1 |-> Val(h, i)]
    BY <2>3, Zenon
  <2> QED
    BY <2>4
<1>5. Len(names) \in S
  BY <1>3, <1>4, Induction
<1>6. F(Len(names)) = [i \in 0 .. Len(names) |-> Val(F(Len(names)), i)]
  BY <1>5, Zenon
<1>7. UpTo(names, mds, F(Len(names)))
  BY <1>6, Zenon DEF UpTo
<1> QED
  BY <1>1, <1>7, Zenon

(* A listed version is chosen, and the first of those with the parent.     *)
LEMMA FirstHitIs ==
  ASSUME NEW md \in Metadata, NEW p, Hits(md, p) # {}
  PROVE  \E j \in Hits(md, p) :
           /\ FirstHit(md, p) = md.versions[j]
           /\ \A k \in Hits(md, p) : j <= k
           /\ md.versions[j] \in Elements(md.versions)
           /\ md.versions[j] \in Versions /\ md.versions[j].parent = p
<1> DEFINE hits == Hits(md, p)
           j == CHOOSE j \in hits : \A k \in hits : j <= k
<1>1. md.versions \in Seq(Versions)
  BY DEF Metadata
<1>2. hits \subseteq Nat /\ hits \subseteq 1 .. Len(md.versions)
  BY DEF Hits
<1>3. \E x \in hits : \A k \in hits : x <= k
  BY <1>2, LeastNumber
<1>4. j \in hits /\ \A k \in hits : j <= k
  BY <1>3
<1>5. FirstHit(md, p) = md.versions[j]
  BY DEF FirstHit
<1>6. j \in 1 .. Len(md.versions) /\ md.versions[j].parent = p
  BY <1>4 DEF Hits
<1> QED
  BY <1>1, <1>4, <1>5, <1>6, ElementOfSeq DEF Elements

(* What Match may find: the default blob, or a listed version.             *)
LEMMA MatchIs ==
  ASSUME NEW i \in Nat \ {0}, NEW name \in BlobNames, NEW md \in Answered, NEW p,
         md # Pending
  PROVE  \/ Match(i, name, md, p) = <<>>
         \/ /\ md \in Metadata
            /\ i = 1 \/ md.parent = p
            /\ Match(i, name, md, p) = <<[hash |-> md.hash, location |-> name]>>
         \/ /\ md \in Metadata /\ i # 1
            /\ \E v \in Elements(md.versions) :
                 /\ v \in Versions /\ v.parent = p
                 /\ Match(i, name, md, p) = <<Location(v)>>
<1>1. CASE md \in {NotFound, Broken}
  BY <1>1 DEF Match
<1>2. CASE md \notin {NotFound, Broken}
  <2>1. md \in Metadata
    BY <1>2 DEF Answered, Specials
  <2>2. CASE i = 1 \/ md.parent = p
    BY <1>2, <2>1, <2>2 DEF Match
  <2>3. CASE ~(i = 1 \/ md.parent = p) /\ Hits(md, p) = {}
    BY <1>2, <2>3 DEF Match
  <2>4. CASE ~(i = 1 \/ md.parent = p) /\ Hits(md, p) # {}
    <3>1. Match(i, name, md, p) = <<Location(FirstHit(md, p))>>
      BY <1>2, <2>4 DEF Match
    <3>2. /\ FirstHit(md, p) \in Elements(md.versions)
          /\ FirstHit(md, p) \in Versions /\ FirstHit(md, p).parent = p
      BY <2>1, <2>4, FirstHitIs
    <3> QED
      BY <2>1, <2>4, <3>1, <3>2
  <2> QED
    BY <2>2, <2>3, <2>4
<1> QED
  BY <1>1, <1>2

LEMMA MatchType ==
  ASSUME NEW i \in Nat \ {0}, NEW name \in BlobNames, NEW md \in Answered, NEW p,
         md # Pending
  PROVE  \/ Match(i, name, md, p) = <<>>
         \/ \E m \in BlockLocations : Match(i, name, md, p) = <<m>>
<1>1. ASSUME md \in Metadata
      PROVE  [hash |-> md.hash, location |-> name] \in BlockLocations
  BY <1>1 DEF Metadata, BlockLocations, Locations
<1>2. ASSUME NEW v \in Versions
      PROVE  Location(v) \in BlockLocations
  BY DEF Location, Versions, BlockLocations, Locations
<1> QED
  BY <1>1, <1>2, MatchIs

(* A match for the block after a chain makes it longer.                    *)
LEMMA LongerChain ==
  ASSUME NEW names \in Seq(BlobNames), NEW mds, NEW s, IsChain(names, mds, s),
         Len(s) + 1 <= Len(names), NEW m \in BlockLocations,
         Match(Len(s) + 1, names[Len(s) + 1], mds[Len(s) + 1],
               ExpectedParent(s, Len(s) + 1)) = <<m>>
  PROVE  /\ IsChain(names, mds, s \o <<m>>)
         /\ Len(s \o <<m>>) = Len(s) + 1
         /\ \A i \in 1 .. Len(s) : (s \o <<m>>)[i] = s[i]
         /\ (s \o <<m>>)[Len(s) + 1] = m
<1>1. s \in Seq(BlockLocations) /\ Len(s) \in Nat
  BY LenProperties DEF IsChain
<1>2. PICK t : t = Append(s, m)
  OBVIOUS
<1>3. /\ Len(t) = Len(s) + 1
      /\ \A i \in 1 .. Len(s) : t[i] = s[i]
      /\ t[Len(s) + 1] = m
      /\ t \in Seq(BlockLocations)
  BY <1>1, <1>2, AppendProperties
<1>0. t = s \o <<m>>
  BY <1>1, <1>2, AppendIsConcat
<1>4. \A i \in 1 .. Len(s) + 1 : ExpectedParent(t, i) = ExpectedParent(s, i)
  BY SMTT(20), <1>1, <1>3 DEF ExpectedParent
<1>5. ASSUME NEW i \in 1 .. Len(t)
      PROVE  Match(i, names[i], mds[i], ExpectedParent(t, i)) = <<t[i]>>
  <2>1. CASE i \in 1 .. Len(s)
    BY <1>1, <1>3, <1>4, <2>1 DEF IsChain
  <2>2. CASE i = Len(s) + 1
    BY <1>1, <1>3, <1>4, <2>2
  <2> QED
    BY <1>1, <1>3, <2>1, <2>2
<1> QED
  BY <1>0, <1>1, <1>3, <1>5 DEF IsChain

(* The chain is one through the blocks, as far as it goes.                 *)
LEMMA ChainIs ==
  ASSUME NEW names \in Seq(BlobNames), NEW mds,
         \A i \in 1 .. Len(names) : mds[i] \in Answered \ {Pending}
  PROVE  /\ IsChain(names, mds, Chain(names, mds))
         /\ Len(Chain(names, mds)) < Len(names)
              => ~GoesOn(names, mds, Chain(names, mds))
<1>1. Len(names) \in Nat
  BY LenProperties
<1>0. PICK upTo :
        Chain(names, mds) = upTo[Len(names)] /\ UpTo(names, mds, upTo)
  BY <1>1, ChainDef
<1>2. /\ upTo[0] = <<>>
      /\ \A i \in 1 .. Len(names) : upTo[i] = Extend(names, mds, i, upTo[i - 1])
  BY <1>0, <1>1 DEF UpTo
<1> DEFINE Right(s, n) ==
             /\ IsChain(names, mds, s) /\ Len(s) <= n
             /\ Len(s) < n => ~GoesOn(names, mds, s)
           S == {n \in Nat : n <= Len(names) => Right(upTo[n], n)}
<1>3. 0 \in S
  <2>1. upTo[0] = <<>>
    BY <1>1, <1>2
  <2>2. <<>> \in Seq(BlockLocations) /\ Len(<<>>) = 0 /\ 1 .. 0 = {}
    BY EmptySeq
  <2>3. IsChain(names, mds, <<>>)
    BY <1>1, <2>2 DEF IsChain
  <2>4. Right(<<>>, 0)
    BY <2>2, <2>3
  <2> QED
    BY <2>1, <2>4
<1>4. ASSUME NEW n \in Nat, n \in S
      PROVE  n + 1 \in S
  <2> SUFFICES ASSUME n + 1 <= Len(names)
               PROVE  Right(upTo[n + 1], n + 1)
    OBVIOUS
  <2>1. PICK s : s = upTo[n]
    OBVIOUS
  <2>2. Right(s, n)
    BY <1>1, <1>4, <2>1
  <2>3. upTo[n + 1] = Extend(names, mds, n + 1, s)
    BY <1>1, <1>2, <2>1, n + 1 \in 1 .. Len(names), (n + 1) - 1 = n
  <2>4. Len(s) \in Nat
    BY <2>2, LenProperties DEF IsChain
  <2>5. CASE Len(s) < n
    <3>1. upTo[n + 1] = s
      BY <2>3, <2>4, <2>5 DEF Extend
    <3> QED
      BY <2>2, <2>4, <2>5, <3>1
  <2>6. CASE Len(s) = n
    <3> DEFINE found == Match(n + 1, names[n + 1], mds[n + 1],
                              ExpectedParent(s, n + 1))
    <3>1. upTo[n + 1] = s \o found
      BY <2>3, <2>4, <2>6 DEF Extend
    <3>2. names[n + 1] \in BlobNames /\ mds[n + 1] \in Answered \ {Pending}
      BY <1>1, ElementOfSeq
    <3>3. CASE found = <<>>
      <4>1. s \o found = s
        BY <2>2, <3>3, ConcatEmptySeq DEF IsChain
      <4>2. ~GoesOn(names, mds, s)
        BY <2>6, <3>3 DEF GoesOn
      <4>3. upTo[n + 1] = s
        BY <3>1, <4>1
      <4>4. Right(s, n + 1)
        BY <2>2, <2>6, <4>2
      <4> QED
        BY <4>3, <4>4
    <3>4. ASSUME NEW m \in BlockLocations, found = <<m>>
          PROVE  Right(upTo[n + 1], n + 1)
      <4>1. IsChain(names, mds, s) /\ Len(s) + 1 <= Len(names)
        BY <2>2, <2>6
      <4>2. Match(Len(s) + 1, names[Len(s) + 1], mds[Len(s) + 1],
                  ExpectedParent(s, Len(s) + 1)) = <<m>>
        BY <2>6, <3>4
      <4>3. IsChain(names, mds, s \o <<m>>) /\ Len(s \o <<m>>) = Len(s) + 1
        BY <4>1, <4>2, LongerChain
      <4>4. upTo[n + 1] = s \o <<m>>
        BY <3>1, <3>4
      <4> QED
        BY <2>6, <4>3, <4>4
    <3>5. n + 1 \in Nat \ {0} /\ mds[n + 1] \in Answered /\ mds[n + 1] # Pending
      BY <3>2
    <3>6. found = <<>> \/ \E m \in BlockLocations : found = <<m>>
      BY <3>2, <3>5, MatchType
    <3> QED
      BY <3>3, <3>4, <3>6
  <2> QED
    BY <2>2, <2>4, <2>5, <2>6
<1>5. Len(names) \in S
  BY <1>1, <1>3, <1>4, Induction
<1> QED
  BY <1>0, <1>1, <1>5

-----------------------------------------------------------------------------
(* The writers take no notice of the readers.                              *)

LEMMA StepOfWriters ==
  ASSUME [KVNext]_kvVars
  PROVE  [WriteNext]_vars
BY DEF KVNext, kvVars, vars, WriterStep, ReaderStarts, ReaderStep, StartLookup,
       LookupStep, GetProperties, ValidateChain, ReadAsync

LEMMA WritersOnTheirOwn == KVSpec => Spec
<1>1. KVInit => Init
  BY DEF KVInit, Init
<1>2. [KVNext]_kvVars => [WriteNext]_vars
  BY StepOfWriters
<1> QED
  BY <1>1, <1>2, PTL DEF KVSpec, Spec

(* What is proved of the writers alone holds beside any number of readers: *)
(* the first versions and the lists of a container that is being read are  *)
(* a version index.                                                        *)
THEOREM RefinementAmongReaders == KVSpec => ImplementsVersionIndex
  BY WritersOnTheirOwn, Refinement, PTL

-----------------------------------------------------------------------------
(* Type correctness of the readers.                                        *)

PromptMetadata(names) ==
  [i \in 1 .. Len(names) |->
     IF Exists(names[i]) THEN blobs[names[i]].metadata ELSE NotFound]

LEMMA MetadataNow ==
  ASSUME TypeOK, NEW names \in Seq(BlobNames)
  PROVE  \A i \in 1 .. Len(names) :
           /\ names[i] \in BlobNames
           /\ PromptMetadata(names)[i] \in Answered \ {Pending}
<1> TAKE i \in 1 .. Len(names)
<1>1. names[i] \in BlobNames
  BY ElementOfSeq
<1>2. Exists(names[i]) => blobs[names[i]].metadata \in Metadata
  BY <1>1 DEF TypeOK, ContainerTypeOK, Exists, Locations, Blobs
<1> QED
  BY <1>1, <1>2, LookupAssumptions DEF PromptMetadata, Answered, Specials

LEMMA ChainNowType ==
  ASSUME TypeOK, NEW names \in Seq(BlobNames)
  PROVE  ChainNow(names) \in Seq(BlockLocations)
<1>1. ChainNow(names) = Chain(names, PromptMetadata(names))
  BY DEF ChainNow, PromptMetadata
<1>2. IsChain(names, PromptMetadata(names), Chain(names, PromptMetadata(names)))
  BY MetadataNow, ChainIs
<1> QED
  BY <1>1, <1>2 DEF IsChain

(* What a lookup carries around.                                           *)
LEMMA LookupTypes ==
  ASSUME LookupTypeOK, NEW l \in Lookups
  PROVE  /\ prompt[l] \in Seq(BlobNames)
         /\ fetched[l] \in Seq(Answered) /\ Len(fetched[l]) = Len(prompt[l])
         /\ \A i \in 1 .. Len(prompt[l]) :
              prompt[l][i] \in BlobNames /\ fetched[l][i] \in Answered
         /\ result[l] \in Seq(BlockLocations) /\ Len(result[l]) <= Len(prompt[l])
         /\ answers[l] \in Seq(Downloads \cup Specials)
         /\ Len(answers[l]) = Len(result[l])
         /\ \A i \in 1 .. Len(result[l]) :
              result[l][i] \in BlockLocations /\ i \in 1 .. Len(prompt[l])
<1>1. /\ prompt[l] \in Seq(BlobNames)
      /\ fetched[l] \in Seq(Answered) /\ Len(fetched[l]) = Len(prompt[l])
      /\ result[l] \in Seq(BlockLocations) /\ Len(result[l]) <= Len(prompt[l])
      /\ answers[l] \in Seq(Downloads \cup Specials)
      /\ Len(answers[l]) = Len(result[l])
  BY LookupAssumptions DEF LookupTypeOK, Answered, Specials
<1>2. Len(prompt[l]) \in Nat /\ Len(result[l]) \in Nat
  BY <1>1, LenProperties
<1>3. \A i \in 1 .. Len(prompt[l]) :
        prompt[l][i] \in BlobNames /\ fetched[l][i] \in Answered
  BY <1>1, ElementOfSeq
<1>4. \A i \in 1 .. Len(result[l]) :
        result[l][i] \in BlockLocations /\ i \in 1 .. Len(prompt[l])
  BY <1>1, <1>2, ElementOfSeq
<1> QED
  BY <1>1, <1>3, <1>4

LEMMA ChainOfLookup ==
  ASSUME LookupTypeOK, NEW l \in Lookups, AllFetched(l)
  PROVE  /\ IsChain(prompt[l], fetched[l], Chain(prompt[l], fetched[l]))
         /\ Len(Chain(prompt[l], fetched[l])) < Len(prompt[l])
              => ~GoesOn(prompt[l], fetched[l], Chain(prompt[l], fetched[l]))
<1>1. prompt[l] \in Seq(BlobNames)
  BY LookupTypes
<1>2. \A i \in 1 .. Len(prompt[l]) : fetched[l][i] \in Answered \ {Pending}
  BY LookupTypes DEF AllFetched
<1> QED
  BY <1>1, <1>2, ChainIs

LEMMA AllPendingType ==
  ASSUME NEW T, NEW s \in Seq(T), NEW U, Pending \in U
  PROVE  /\ AllPending(s) \in Seq(U) /\ Len(AllPending(s)) = Len(s)
         /\ \A i \in 1 .. Len(s) : AllPending(s)[i] = Pending
BY LenProperties DEF AllPending

LEMMA StartLookupType ==
  ASSUME LookupTypeOK, NEW l \in Lookups, StartLookup(l)
  PROVE  LookupTypeOK'
BY DEF StartLookup, LookupTypeOK

LEMMA GetPropertiesType ==
  ASSUME TypeOK, LookupTypeOK, NEW l \in Lookups, NEW i \in 1 .. Len(prompt[l]),
         GetProperties(l, i)
  PROVE  /\ LookupTypeOK'
         /\ \E md \in Answered \ {Pending} :
              /\ fetched' = [fetched EXCEPT ![l][i] = md]
              /\ \/ Exists(prompt[l][i]) /\ md = blobs[prompt[l][i]].metadata
                 \/ md = NotFound /\ (~Exists(prompt[l][i]) \/ NotFound \in Failures)
                 \/ md = Broken /\ Broken \in Failures
<1>1. prompt[l][i] \in BlobNames
  BY LookupTypes
<1>2. Exists(prompt[l][i]) => blobs[prompt[l][i]].metadata \in Metadata
  BY <1>1 DEF TypeOK, ContainerTypeOK, Exists, Locations, Blobs
<1>3. PICK md \in Answered \ {Pending} :
        /\ fetched' = [fetched EXCEPT ![l][i] = md]
        /\ \/ Exists(prompt[l][i]) /\ md = blobs[prompt[l][i]].metadata
           \/ md = NotFound /\ (~Exists(prompt[l][i]) \/ NotFound \in Failures)
           \/ md = Broken /\ Broken \in Failures
  BY <1>2, LookupAssumptions DEF GetProperties, Answered, Specials
<1>4. fetched[l] \in Seq(Answered) /\ Len(fetched[l]) = Len(prompt[l])
  BY LookupTypes
<1>5. i \in 1 .. Len(fetched[l]) /\ md \in Answered
  BY <1>4
<1>6. /\ [fetched[l] EXCEPT ![i] = md] \in Seq(Answered)
      /\ Len([fetched[l] EXCEPT ![i] = md]) = Len(fetched[l])
  BY <1>4, <1>5, ExceptSeq
<1>7. fetched \in [Lookups -> Seq(Answered)]
  BY DEF LookupTypeOK, Answered, Specials
<1>8. fetched' \in [Lookups -> Seq(Answered)]
  BY <1>3, <1>6, <1>7
<1>9. \A m \in Lookups : Len(fetched'[m]) = Len(fetched[m])
  BY <1>3, <1>6, <1>7
<1>10. LookupTypeOK'
  BY <1>8, <1>9 DEF GetProperties, LookupTypeOK, Answered, Specials
<1> QED
  BY <1>3, <1>10

LEMMA ValidateChainType ==
  ASSUME LookupTypeOK, NEW l \in Lookups, ValidateChain(l)
  PROVE  LookupTypeOK'
<1> DEFINE chain == Chain(prompt[l], fetched[l])
<1>1. chain \in Seq(BlockLocations) /\ Len(chain) <= Len(prompt[l])
  BY ChainOfLookup DEF ValidateChain, IsChain
<1>2. CASE lpc' = [lpc EXCEPT ![l] = "threw"] /\ UNCHANGED <<result, answers>>
  BY <1>2 DEF ValidateChain, LookupTypeOK
<1>3. CASE Found(l, chain)
  <2>1. /\ AllPending(chain) \in Seq(Downloads \cup Specials)
        /\ Len(AllPending(chain)) = Len(chain)
    BY <1>1, AllPendingType DEF Specials
  <2> HIDE DEF chain
  <2>2. /\ lpc' = [lpc EXCEPT ![l] = "found"]
        /\ result' = [result EXCEPT ![l] = chain]
        /\ answers' = [answers EXCEPT ![l] = AllPending(chain)]
        /\ UNCHANGED <<prompt, fetched>>
    BY <1>3 DEF Found, ValidateChain
  <2>3. result' \in [Lookups -> Seq(BlockLocations)]
    BY <1>1, <2>2 DEF LookupTypeOK
  <2>4. answers' \in [Lookups -> Seq(Downloads \cup Specials)]
    BY <2>1, <2>2 DEF LookupTypeOK, Specials
  <2>5. ASSUME NEW m \in Lookups
        PROVE  /\ Len(answers'[m]) = Len(result'[m])
               /\ Len(result'[m]) <= Len(prompt[m])
    BY <1>1, <2>1, <2>2 DEF LookupTypeOK
  <2> QED
    BY <2>2, <2>3, <2>4, <2>5 DEF LookupTypeOK, Specials
<1> QED
  BY <1>2, <1>3 DEF ValidateChain

(* What a download of the blob at loc may answer.                          *)
Answers(loc, a) ==
  \/ /\ Exists(loc) /\ a \in Downloads
     /\ a.hash = blobs[loc].metadata.hash
     /\ a.parent = blobs[loc].metadata.parent
     /\ a.buffer = blobs[loc].buffer
  \/ a = NotFound /\ (~Exists(loc) \/ NotFound \in Failures)
  \/ a = Broken /\ Broken \in Failures

LEMMA ReadAsyncType ==
  ASSUME TypeOK, LookupTypeOK, NEW l \in Lookups, NEW i \in 1 .. Len(result[l]),
         ReadAsync(l, i)
  PROVE  /\ LookupTypeOK' /\ result[l][i].location \in Locations
         /\ \E a \in (Downloads \cup Specials) \ {Pending} :
              /\ answers' = [answers EXCEPT ![l][i] = a]
              /\ Answers(result[l][i].location, a)
<1>0. PICK loc : loc = result[l][i].location
  OBVIOUS
<1>1. loc \in Locations
  BY <1>0, LookupTypes DEF BlockLocations
<1> DEFINE d == [hash   |-> blobs[loc].metadata.hash,
                 parent |-> blobs[loc].metadata.parent,
                 buffer |-> blobs[loc].buffer]
<1>2. Exists(loc) => d \in Downloads
  BY <1>1 DEF TypeOK, ContainerTypeOK, Exists, Blobs, Metadata, Downloads
<1>3. PICK a \in (Downloads \cup Specials) \ {Pending} :
        answers' = [answers EXCEPT ![l][i] = a] /\ Answers(loc, a)
  <2>1. \/ Exists(loc) /\ answers' = [answers EXCEPT ![l][i] = d]
        \/ /\ ~Exists(loc) \/ NotFound \in Failures
           /\ answers' = [answers EXCEPT ![l][i] = NotFound]
        \/ Broken \in Failures /\ answers' = [answers EXCEPT ![l][i] = Broken]
    BY <1>0 DEF ReadAsync
  <2>2. CASE Exists(loc) /\ answers' = [answers EXCEPT ![l][i] = d]
    <3>1. d \in (Downloads \cup Specials) \ {Pending}
      BY <1>2, <2>2, LookupAssumptions
    <3>2. Answers(loc, d)
      BY <1>2, <2>2 DEF Answers
    <3> QED
      BY <2>2, <3>1, <3>2
  <2>3. NotFound \in Specials \ {Pending} /\ Broken \in Specials \ {Pending}
    BY LookupAssumptions DEF Specials
  <2> QED
    BY <2>1, <2>2, <2>3 DEF Answers
<1>4. answers[l] \in Seq(Downloads \cup Specials) /\ Len(answers[l]) = Len(result[l])
  BY LookupTypes
<1>5. i \in 1 .. Len(answers[l]) /\ a \in Downloads \cup Specials
  BY <1>4
<1>6. /\ [answers[l] EXCEPT ![i] = a] \in Seq(Downloads \cup Specials)
      /\ Len([answers[l] EXCEPT ![i] = a]) = Len(answers[l])
  BY <1>4, <1>5, ExceptSeq
<1>7. answers \in [Lookups -> Seq(Downloads \cup Specials)]
  BY DEF LookupTypeOK, Specials
<1>8. answers' \in [Lookups -> Seq(Downloads \cup Specials)]
  BY <1>3, <1>6, <1>7
<1>9. \A m \in Lookups : Len(answers'[m]) = Len(answers[m])
  BY <1>3, <1>6, <1>7
<1>10. LookupTypeOK'
  BY <1>8, <1>9 DEF ReadAsync, LookupTypeOK, Specials
<1> QED
  BY <1>0, <1>1, <1>3, <1>10

LEMMA ReaderType ==
  ASSUME TypeOK, LookupTypeOK, NEW l \in Lookups, LookupStep(l)
  PROVE  LookupTypeOK'
BY GetPropertiesType, ValidateChainType, ReadAsyncType DEF LookupStep

LEMMA KVTypeKept ==
  ASSUME KVTypeOK, IndexInv, [KVNext]_kvVars
  PROVE  KVTypeOK' /\ IndexInv' /\ StepOK
<1>1. TypeOK' /\ IndexInv' /\ StepOK
  BY StepOfWriters, NextOK DEF KVTypeOK, StepOK
<1>2. CASE UNCHANGED <<lookupVars, atStart>>
  BY <1>1, <1>2 DEF KVTypeOK, LookupTypeOK, lookupVars
<1>3. ASSUME NEW l \in Lookups, ReaderStarts(l)
      PROVE  KVTypeOK'
  <2>1. prompt[l] \in Seq(BlobNames)
    BY LookupTypes DEF KVTypeOK
  <2>2. ChainNow(prompt[l]) \in Seq(BlockLocations)
    BY <2>1, ChainNowType DEF KVTypeOK
  <2>3. LookupTypeOK'
    BY <1>3, StartLookupType DEF KVTypeOK, ReaderStarts
  <2>4. (atStart \in [Lookups -> Seq(BlockLocations)])'
    BY <1>3, <2>2 DEF ReaderStarts, KVTypeOK
  <2> QED
    BY <1>1, <2>3, <2>4 DEF KVTypeOK
<1>4. ASSUME NEW l \in Lookups, ReaderStep(l)
      PROVE  KVTypeOK'
  BY <1>1, <1>4, ReaderType DEF KVTypeOK, ReaderStep
<1> QED
  BY <1>1, <1>2, <1>3, <1>4 DEF KVNext, WriterStep, kvVars

LEMMA KVInitType ==
  ASSUME KVInit
  PROVE  KVTypeOK /\ IndexInv
<1>1. TypeOK /\ IndexInv
  BY InitOK DEF KVInit, Init
<1>2. ASSUME NEW s \in Seq(BlobNames)
      PROVE  /\ AllPending(s) \in Seq(Metadata \cup {Pending, NotFound, Broken})
             /\ Len(AllPending(s)) = Len(s) /\ Len(s) >= 0
  BY AllPendingType, LenProperties
<1>3. prompt \in [Lookups -> Prompts] /\ Prompts \subseteq Seq(BlobNames)
  BY LookupAssumptions DEF KVInit, LookupInit
<1>4. \A l \in Lookups : prompt[l] \in Seq(BlobNames)
  BY <1>3
<1>5. LookupTypeOK
  BY <1>2, <1>3, <1>4, EmptySeq DEF KVInit, LookupInit, LookupTypeOK
<1>6. atStart \in [Lookups -> Seq(BlockLocations)]
  BY DEF KVInit
<1> QED
  BY <1>1, <1>5, <1>6 DEF KVTypeOK

(* For any number of lookups and prompts of any length beside any number   *)
(* of calls: every chain that a lookup follows, through answers of any     *)
(* moments and with requests that fail, is a sequence of hashes and        *)
(* locations no longer than the prompt, and the answers that are read are  *)
(* as many as the locations.                                               *)
THEOREM KVTypeCorrect == KVSpec => []KVTypeOK
<1>1. KVInit => KVTypeOK /\ IndexInv
  BY KVInitType
<1>2. (KVTypeOK /\ IndexInv) /\ [KVNext]_kvVars => (KVTypeOK /\ IndexInv)'
  BY KVTypeKept
<1> QED
  BY <1>1, <1>2, PTL DEF KVSpec

-----------------------------------------------------------------------------
(* What readers are told stays true of what they have not read yet.        *)

(* A default blob is what a call wrote under its name first.               *)
DefaultsOwned ==
  \A n \in BlobNames :
    Exists(n) => \E c \in Calls : chunk[c].name = n /\ Holds(blobs[n], chunk[c])

LEMMA OwnsStays ==
  ASSUME FreshGuids, TypeOK, GuidsApart, [WriteNext]_vars,
         NEW c \in Calls, NEW n, NEW v, Owns(c, n, v)
  PROVE  Owns(c, n, v)'
BY StepShape, OwnsKept

LEMMA ChunkStays ==
  ASSUME TypeOK, [WriteNext]_vars
  PROVE  chunk' = chunk
<1>1. NoEffect \/ \E c \in Calls : Effect(c)
  BY StepShape
<1> QED
  BY <1>1 DEF NoEffect, Effect, FirstVersionUploaded, Fetched, GuidBlobUploaded,
              OldestDeleted, Skipped, VersionsUpdated, Refetch

LEMMA DefaultStays ==
  ASSUME TypeOK, IndexInv, [WriteNext]_vars, NEW n \in BlobNames, Exists(n)
  PROVE  /\ Exists(n)'
         /\ blobs'[n].metadata.hash = blobs[n].metadata.hash
         /\ blobs'[n].metadata.parent = blobs[n].metadata.parent
BY NextOK DEF StepOK, DefaultsStep, Evolves, Exists

LEMMA DefaultsOwnedKept ==
  ASSUME TypeOK, IndexInv, DefaultsOwned, [WriteNext]_vars
  PROVE  DefaultsOwned'
<1> SUFFICES ASSUME NEW n \in BlobNames, Exists(n)'
             PROVE  \E c \in Calls : chunk[c].name = n /\ Holds(blobs'[n], chunk[c])
  BY ChunkStays DEF DefaultsOwned, Holds
<1>1. CASE blobs'[n] = blobs[n]
  BY <1>1 DEF DefaultsOwned, Exists
<1>2. ASSUME NEW c \in Calls, NoEffect \/ Effect(c)
      PROVE  \E d \in Calls : chunk[d].name = n /\ Holds(blobs'[n], chunk[d])
  <2>1. n \in Locations /\ blobs \in [Locations -> Blobs \cup {NoBlob}]
    BY DEF Locations, TypeOK, ContainerTypeOK
  <2>2. CASE FirstVersionUploaded(c) /\ n = Name(c)
    <3>1. Upload(n, chunk[c])
      BY <2>2 DEF FirstVersionUploaded
    <3>2. Holds(blobs'[n], chunk[c])
      BY <2>1, <3>1 DEF Upload, Holds
    <3> QED
      BY <2>2, <3>2 DEF Name
  <2>3. CASE VersionsUpdated(c) /\ n = Name(c) /\ Exists(n)
    <3>1. PICK md : SetMetadata(n, md)
      BY <2>3 DEF VersionsUpdated
    <3>2. blobs'[n].buffer = blobs[n].buffer
      BY <2>1, <3>1 DEF SetMetadata
    <3>3. PICK d \in Calls : chunk[d].name = n /\ Holds(blobs[n], chunk[d])
      BY <2>3 DEF DefaultsOwned
    <3>4. Holds(blobs'[n], chunk[d])
      BY <2>3, <3>2, <3>3, DefaultStays DEF Holds
    <3> QED
      BY <3>3, <3>4
  <2> QED
    BY <1>1, <1>2, <2>2, <2>3, ListChange
<1>3. CASE NoEffect
  BY <1>1, <1>3 DEF NoEffect
<1> QED
  BY <1>2, <1>3, StepShape

(* What GetProperties of block n told.                                     *)
Told(n, md) ==
  /\ Exists(n)
  /\ md.hash = blobs[n].metadata.hash /\ md.parent = blobs[n].metadata.parent
  /\ \A v \in Elements(md.versions) : \E c \in Calls : Owns(c, n, v)

(* What a lookup announces as its i-th location, for block n after p.      *)
Announced(i, n, e, p) ==
  \/ /\ Exists(n) /\ e.location = n
     /\ e.hash = blobs[n].metadata.hash
     /\ i > 1 => blobs[n].metadata.parent = p
  \/ \E c \in Calls, v \in Versions :
       Owns(c, n, v) /\ v.parent = p /\ e = Location(v)

(* What ReadAsync of it may return.                                        *)
ReadRight(i, n, e, p, a) ==
  a \notin Specials =>
    /\ a.hash = e.hash /\ (i > 1 => a.parent = p)
    /\ \E c \in Calls : chunk[c] = [name |-> n, hash |-> a.hash,
                                    parent |-> a.parent, buffer |-> a.buffer]

LEMMA ToldStays ==
  ASSUME FreshGuids, TypeOK, IndexInv, ContentInv, [WriteNext]_vars,
         NEW n \in BlobNames, NEW md, Told(n, md)
  PROVE  Told(n, md)'
<1>1. ASSUME NEW v \in Elements(md.versions)
      PROVE  \E c \in Calls : Owns(c, n, v)'
  BY <1>1, OwnsStays DEF Told, ContentInv
<1>2. \A v \in Elements(md.versions) : \E c \in Calls : Owns(c, n, v)'
  BY <1>1
<1> QED
  BY <1>2, DefaultStays DEF Told

LEMMA AnnouncedStays ==
  ASSUME FreshGuids, TypeOK, IndexInv, ContentInv, [WriteNext]_vars,
         NEW i, NEW n \in BlobNames, NEW e, NEW p, Announced(i, n, e, p)
  PROVE  Announced(i, n, e, p)'
<1>1. CASE /\ Exists(n) /\ e.location = n
           /\ e.hash = blobs[n].metadata.hash
           /\ i > 1 => blobs[n].metadata.parent = p
  BY <1>1, DefaultStays DEF Announced
<1>2. ASSUME NEW c \in Calls, NEW v \in Versions,
             Owns(c, n, v), v.parent = p, e = Location(v)
      PROVE  Announced(i, n, e, p)'
  <2>1. Owns(c, n, v)'
    BY <1>2, OwnsStays DEF ContentInv
  <2> QED
    BY <1>2, <2>1 DEF Announced
<1> QED
  BY <1>1, <1>2 DEF Announced

LEMMA MetadataIsTold ==
  ASSUME TypeOK, ContentInv, NEW n \in BlobNames, Exists(n)
  PROVE  Told(n, blobs[n].metadata)
<1>1. Listed(n) = Elements(blobs[n].metadata.versions)
  BY DEF Listed
<1> QED
  BY <1>1 DEF Told, ContentInv, EntriesOwned

(* A match through what was told is announced right.                       *)
LEMMA MatchIsAnnounced ==
  ASSUME TypeOK, NEW i \in Nat \ {0}, NEW n \in BlobNames, NEW md \in Answered,
         md # Pending, md \in Metadata => Told(n, md), NEW p, NEW e,
         Match(i, n, md, p) = <<e>>
  PROVE  Announced(i, n, e, p)
<1>1. CASE /\ md \in Metadata
           /\ i = 1 \/ md.parent = p
           /\ Match(i, n, md, p) = <<[hash |-> md.hash, location |-> n]>>
  <2>1. e = [hash |-> md.hash, location |-> n]
    BY <1>1
  <2> QED
    BY <1>1, <2>1 DEF Told, Announced
<1>2. ASSUME md \in Metadata,
             NEW v \in Elements(md.versions), v \in Versions, v.parent = p,
             Match(i, n, md, p) = <<Location(v)>>
      PROVE  Announced(i, n, e, p)
  <2>1. e = Location(v) /\ v \in Versions /\ v.parent = p
    BY <1>2
  <2>2. PICK c \in Calls : Owns(c, n, v)
    BY <1>2 DEF Told
  <2> QED
    BY <2>1, <2>2 DEF Announced
<1> QED
  BY <1>1, <1>2, MatchIs

(* What is read at an announced location.                                  *)
LEMMA ReadIsRight ==
  ASSUME TypeOK, ContentInv, DefaultsOwned, NEW i, NEW n \in BlobNames,
         NEW e, NEW p, Announced(i, n, e, p), NEW a, Answers(e.location, a)
  PROVE  ReadRight(i, n, e, p, a)
<1> SUFFICES ASSUME a \notin Specials
             PROVE  /\ a.hash = e.hash /\ (i > 1 => a.parent = p)
                    /\ \E c \in Calls :
                         chunk[c] = [name |-> n, hash |-> a.hash,
                                     parent |-> a.parent, buffer |-> a.buffer]
  BY DEF ReadRight
<1>1. PICK loc : loc = e.location
  OBVIOUS
<1>2. /\ Exists(loc)
      /\ a.hash = blobs[loc].metadata.hash /\ a.parent = blobs[loc].metadata.parent
      /\ a.buffer = blobs[loc].buffer
  BY <1>1 DEF Answers, Specials
<1>3. ASSUME NEW c \in Calls, chunk[c].name = n, Holds(blobs[loc], chunk[c])
      PROVE  chunk[c] = [name |-> n, hash |-> a.hash,
                         parent |-> a.parent, buffer |-> a.buffer]
  <2>1. chunk[c] \in ChunkType
    BY CallTypes
  <2> QED
    BY <1>2, <1>3, <2>1 DEF Holds, ChunkType
<1>4. CASE /\ Exists(n) /\ e.location = n
           /\ e.hash = blobs[n].metadata.hash
           /\ i > 1 => blobs[n].metadata.parent = p
  <2>1. PICK c \in Calls : chunk[c].name = n /\ Holds(blobs[n], chunk[c])
    BY <1>4 DEF DefaultsOwned
  <2> QED
    BY <1>1, <1>2, <1>3, <1>4, <2>1
<1>5. ASSUME NEW c \in Calls, NEW v \in Versions,
             Owns(c, n, v), v.parent = p, e = Location(v)
      PROVE  /\ a.hash = e.hash /\ (i > 1 => a.parent = p)
             /\ \E d \in Calls :
                  chunk[d] = [name |-> n, hash |-> a.hash,
                              parent |-> a.parent, buffer |-> a.buffer]
  <2>1. /\ chunk[c].name = n /\ guid[c] \in Guids /\ loc = guid[c]
        /\ e.hash = chunk[c].hash /\ p = chunk[c].parent
    BY <1>1, <1>5 DEF Owns, VersionAt, Location
  <2>2. PICK d \in Calls : guid[d] = loc /\ Holds(blobs[loc], chunk[d])
    BY <1>2, <2>1 DEF ContentInv, BlobsOwned
  <2>3. d = c
    BY <2>1, <2>2, WriteAssumptions DEF ContentInv, GuidsApart
  <2>4. a.hash = e.hash /\ a.parent = p
    BY <1>2, <2>1, <2>2, <2>3 DEF Holds
  <2> QED
    BY <1>3, <2>1, <2>2, <2>3, <2>4
<1> QED
  BY <1>4, <1>5 DEF Announced

-----------------------------------------------------------------------------
(* The lookups.                                                            *)

LookupInv(l) ==
  /\ \A i \in 1 .. Len(prompt[l]) :
       fetched[l][i] \in Metadata => Told(prompt[l][i], fetched[l][i])
  /\ \A i \in 1 .. Len(result[l]) :
       LET p == ExpectedParent(result[l], i)
       IN /\ Announced(i, prompt[l][i], result[l][i], p)
          /\ ReadRight(i, prompt[l][i], result[l][i], p, answers[l][i])

ReadInv ==
  /\ KVTypeOK /\ IndexInv /\ ContentInv /\ DefaultsOwned
  /\ \A l \in Lookups : LookupInv(l)

(* What a step may be for a lookup: one of its own, or somebody else's.    *)
Rests(l) ==
  fetched'[l] = fetched[l] /\ result'[l] = result[l] /\ answers'[l] = answers[l]

LEMMA ReaderShape ==
  ASSUME KVTypeOK, [KVNext]_kvVars, NEW l \in Lookups
  PROVE  /\ prompt' = prompt
         /\ \/ Rests(l)
            \/ \E i \in 1 .. Len(prompt[l]) : GetProperties(l, i)
            \/ ValidateChain(l)
            \/ \E i \in 1 .. Len(result[l]) : ReadAsync(l, i)
<1>1. CASE UNCHANGED lookupVars
  BY <1>1 DEF lookupVars, Rests
<1>2. ASSUME NEW m \in Lookups, StartLookup(m)
      PROVE  prompt' = prompt /\ Rests(l)
  BY <1>2 DEF StartLookup, Rests
<1>3. ASSUME NEW m \in Lookups, NEW i, GetProperties(m, i), m # l
      PROVE  Rests(l)
  BY <1>3 DEF GetProperties, Rests, KVTypeOK, LookupTypeOK
<1>4. ASSUME NEW m \in Lookups, ValidateChain(m), m # l
      PROVE  Rests(l)
  BY <1>4 DEF ValidateChain, Found, Rests, KVTypeOK, LookupTypeOK
<1>5. ASSUME NEW m \in Lookups, NEW i, ReadAsync(m, i), m # l
      PROVE  Rests(l)
  BY <1>5 DEF ReadAsync, Rests, KVTypeOK, LookupTypeOK
<1>6. ASSUME NEW m \in Lookups, LookupStep(m)
      PROVE  prompt' = prompt
  BY <1>6 DEF LookupStep, GetProperties, ValidateChain, ReadAsync
<1>7. ASSUME NEW m \in Lookups, LookupStep(m), m # l
      PROVE  Rests(l)
  BY <1>3, <1>4, <1>5, <1>7 DEF LookupStep
<1> QED
  BY <1>1, <1>2, <1>6, <1>7
     DEF KVNext, kvVars, WriterStep, ReaderStarts, ReaderStep, LookupStep

(* What is told and announced now stays so, whatever the step.             *)
LEMMA RestInv ==
  ASSUME FreshGuids, KVTypeOK, IndexInv, ContentInv, [KVNext]_kvVars,
         NEW l \in Lookups, LookupInv(l), Rests(l)
  PROVE  LookupInv(l)'
<1>1. TypeOK /\ LookupTypeOK /\ [WriteNext]_vars /\ prompt' = prompt /\ chunk' = chunk
  BY StepOfWriters, ReaderShape, ChunkStays DEF KVTypeOK
<1>2. ASSUME NEW i \in 1 .. Len(prompt[l]), fetched[l][i] \in Metadata
      PROVE  Told(prompt[l][i], fetched[l][i])'
  <2>0. PICK md : md = fetched[l][i]
    OBVIOUS
  <2>1. PICK n \in BlobNames : n = prompt[l][i]
    BY <1>1, LookupTypes
  <2>2. Told(n, md)'
    BY <1>1, <1>2, <2>0, <2>1, ToldStays DEF LookupInv
  <2> QED
    BY <1>1, <2>0, <2>1, <2>2 DEF Rests, Told
<1>3. ASSUME NEW i \in 1 .. Len(result[l])
      PROVE  /\ Announced(i, prompt[l][i], result[l][i], ExpectedParent(result[l], i))'
             /\ ReadRight(i, prompt[l][i], result[l][i],
                          ExpectedParent(result[l], i), answers[l][i])'
  <2>0. PICK e, p : e = result[l][i] /\ p = ExpectedParent(result[l], i)
    OBVIOUS
  <2>1. PICK n \in BlobNames : n = prompt[l][i]
    BY <1>1, LookupTypes
  <2>2. Announced(i, n, e, p) /\ ReadRight(i, n, e, p, answers[l][i])
    BY <2>0, <2>1 DEF LookupInv
  <2>3. Announced(i, n, e, p)'
    BY <1>1, <2>2, AnnouncedStays
  <2> QED
    BY <1>1, <2>0, <2>1, <2>2, <2>3 DEF Rests, Announced, ReadRight, Exists
<1> QED
  BY <1>1, <1>2, <1>3 DEF LookupInv, Rests

LEMMA GetPropertiesInv ==
  ASSUME FreshGuids, KVTypeOK, IndexInv, ContentInv, NEW l \in Lookups, LookupInv(l),
         NEW i \in 1 .. Len(prompt[l]), GetProperties(l, i),
         UNCHANGED <<blobs, writeVars>>
  PROVE  LookupInv(l)'
<1>1. TypeOK /\ LookupTypeOK
  BY DEF KVTypeOK
<1>2. PICK md \in Answered \ {Pending} :
        /\ fetched' = [fetched EXCEPT ![l][i] = md]
        /\ \/ Exists(prompt[l][i]) /\ md = blobs[prompt[l][i]].metadata
           \/ md = NotFound \/ md = Broken
  BY <1>1, GetPropertiesType
<1>3. md \in Metadata => Told(prompt[l][i], md)
  <2>1. md \notin {NotFound, Broken} \/ md \notin Metadata
    BY LookupAssumptions
  <2>2. prompt[l][i] \in BlobNames
    BY <1>1, LookupTypes
  <2> QED
    BY <1>1, <1>2, <2>1, <2>2, MetadataIsTold
<1>4. \A j \in 1 .. Len(prompt[l]) :
        fetched'[l][j] = IF j = i THEN md ELSE fetched[l][j]
  <2>1. fetched[l] \in Seq(Answered) /\ Len(fetched[l]) = Len(prompt[l])
    BY <1>1, LookupTypes
  <2>2. fetched'[l] = [fetched[l] EXCEPT ![i] = md]
    BY <1>1, <1>2 DEF LookupTypeOK
  <2> QED
    BY <2>1, <2>2, ExceptSeq
<1>5. UNCHANGED <<prompt, result, answers, blobs, chunk, guid>>
  BY DEF GetProperties, writeVars
<1>6. ASSUME NEW j \in 1 .. Len(prompt[l]), fetched'[l][j] \in Metadata
      PROVE  Told(prompt[l][j], fetched'[l][j])
  BY <1>3, <1>4, <1>6 DEF LookupInv
<1>7. ASSUME NEW j \in 1 .. Len(prompt'[l]), fetched'[l][j] \in Metadata
      PROVE  Told(prompt[l][j], fetched[l][j])'
  <2>1. Told(prompt[l][j], fetched'[l][j])
    BY <1>5, <1>6, <1>7
  <2> QED
    BY <1>5, <2>1 DEF Told, Exists, Owns, VersionAt
<1>8. ASSUME NEW j \in 1 .. Len(result'[l])
      PROVE  LET p == ExpectedParent(result[l], j)
             IN  /\ Announced(j, prompt[l][j], result[l][j], p)'
                 /\ ReadRight(j, prompt[l][j], result[l][j], p, answers[l][j])'
  <2>1. PICK p : p = ExpectedParent(result[l], j)
    OBVIOUS
  <2>2. /\ Announced(j, prompt[l][j], result[l][j], p)
        /\ ReadRight(j, prompt[l][j], result[l][j], p, answers[l][j])
    BY <1>5, <2>1 DEF LookupInv
  <2>3. Announced(j, prompt[l][j], result[l][j], p)'
    BY <1>5, <2>1, <2>2 DEF Announced, Exists, Owns, VersionAt
  <2>4. ReadRight(j, prompt[l][j], result[l][j], p, answers[l][j])'
    BY <1>5, <2>1, <2>2 DEF ReadRight
  <2> QED
    BY <1>5, <2>1, <2>3, <2>4
<1> QED
  BY <1>7, <1>8 DEF LookupInv

LEMMA ValidateChainInv ==
  ASSUME FreshGuids, KVTypeOK, NEW l \in Lookups, LookupInv(l), ValidateChain(l),
         UNCHANGED <<blobs, writeVars>>
  PROVE  LookupInv(l)'
<1> DEFINE chain == Chain(prompt[l], fetched[l])
<1>1. TypeOK /\ LookupTypeOK
  BY DEF KVTypeOK
<1>2. UNCHANGED <<prompt, fetched, blobs, chunk, guid>>
  BY DEF ValidateChain, writeVars
<1>3. CASE UNCHANGED <<result, answers>>
  BY <1>2, <1>3 DEF LookupInv, Told, Announced, ReadRight, Exists, Owns, VersionAt
<1>4. CASE Found(l, chain)
  <2>1. IsChain(prompt[l], fetched[l], chain) /\ AllFetched(l)
    BY <1>1, ChainOfLookup DEF ValidateChain
  <2> HIDE DEF chain
  <2>2. result'[l] = chain /\ answers'[l] = AllPending(chain)
    BY <1>1, <1>4 DEF Found, LookupTypeOK
  <2>3. chain \in Seq(BlockLocations) /\ Len(chain) <= Len(prompt[l])
    BY <2>1 DEF IsChain
  <2>4. ASSUME NEW i \in 1 .. Len(chain)
        PROVE  /\ Announced(i, prompt[l][i], chain[i], ExpectedParent(chain, i))
               /\ answers'[l][i] = Pending
    <3>1. i \in 1 .. Len(prompt[l]) /\ i \in Nat \ {0}
      BY <1>1, <2>3, LenProperties, LookupTypes
    <3>2. /\ prompt[l][i] \in BlobNames /\ fetched[l][i] \in Answered
          /\ fetched[l][i] # Pending
          /\ fetched[l][i] \in Metadata => Told(prompt[l][i], fetched[l][i])
      BY <1>1, <2>1, <3>1, LookupTypes DEF AllFetched, LookupInv
    <3>3. Match(i, prompt[l][i], fetched[l][i], ExpectedParent(chain, i))
            = <<chain[i]>>
      BY <2>1 DEF IsChain
    <3>4. Announced(i, prompt[l][i], chain[i], ExpectedParent(chain, i))
      BY <1>1, <3>1, <3>2, <3>3, MatchIsAnnounced
    <3> QED
      BY <2>2, <3>4 DEF AllPending
  <2>5. \A i \in 1 .. Len(chain) :
          ReadRight(i, prompt[l][i], chain[i], ExpectedParent(chain, i), answers'[l][i])
    BY <2>4 DEF ReadRight, Specials
  <2>6. \A i \in 1 .. Len(chain) :
          Announced(i, prompt[l][i], chain[i], ExpectedParent(chain, i))'
    <3>1. chain' = chain
      BY <1>2 DEF chain
    <3> QED
      BY <1>2, <2>4, <3>1 DEF Announced, Exists, Owns, VersionAt, ExpectedParent
  <2> QED
    BY <1>2, <2>2, <2>4, <2>5
       DEF LookupInv, Told, Announced, ReadRight, Exists, Owns, VersionAt
<1> QED
  BY <1>3, <1>4 DEF ValidateChain

LEMMA ReadAsyncInv ==
  ASSUME KVTypeOK, ContentInv, DefaultsOwned, NEW l \in Lookups, LookupInv(l),
         NEW i \in 1 .. Len(result[l]), ReadAsync(l, i), UNCHANGED <<blobs, writeVars>>
  PROVE  LookupInv(l)'
<1>1. TypeOK /\ LookupTypeOK
  BY DEF KVTypeOK
<1>2. UNCHANGED <<prompt, fetched, result, blobs, chunk, guid>>
  BY DEF ReadAsync, writeVars
<1>3. PICK a \in (Downloads \cup Specials) \ {Pending} :
        /\ answers' = [answers EXCEPT ![l][i] = a]
        /\ Answers(result[l][i].location, a)
  BY <1>1, ReadAsyncType
<1>4. \A j \in 1 .. Len(result[l]) :
        answers'[l][j] = IF j = i THEN a ELSE answers[l][j]
  <2>1. /\ answers[l] \in Seq(Downloads \cup Specials)
        /\ Len(answers[l]) = Len(result[l])
    BY <1>1, LookupTypes
  <2>2. answers'[l] = [answers[l] EXCEPT ![i] = a]
    BY <1>1, <1>3 DEF LookupTypeOK
  <2> QED
    BY <2>1, <2>2, ExceptSeq
<1>5. ReadRight(i, prompt[l][i], result[l][i], ExpectedParent(result[l], i), a)
  <2>1. prompt[l][i] \in BlobNames
    BY <1>1, LookupTypes
  <2> QED
    BY <1>1, <1>3, <2>1, ReadIsRight DEF LookupInv
<1>6. \A j \in 1 .. Len(result[l]) :
        ReadRight(j, prompt[l][j], result[l][j], ExpectedParent(result[l], j),
                  answers'[l][j])
  BY <1>4, <1>5 DEF LookupInv
<1>7. ASSUME NEW j \in 1 .. Len(prompt[l]), fetched[l][j] \in Metadata
      PROVE  Told(prompt[l][j], fetched[l][j])'
  BY <1>2, <1>7 DEF LookupInv, Told, Exists, Owns, VersionAt
<1>8. ASSUME NEW j \in 1 .. Len(result[l])
      PROVE  Announced(j, prompt[l][j], result[l][j], ExpectedParent(result[l], j))'
  BY <1>2, <1>8 DEF LookupInv, Announced, Exists, Owns, VersionAt, ExpectedParent
<1>9. ASSUME NEW j \in 1 .. Len(result[l])
      PROVE  ReadRight(j, prompt[l][j], result[l][j], ExpectedParent(result[l], j),
                       answers[l][j])'
  BY <1>2, <1>6 DEF ReadRight, ExpectedParent
<1> QED
  BY <1>2, <1>7, <1>8, <1>9 DEF LookupInv

LEMMA ReadKept ==
  ASSUME FreshGuids, ReadInv, [KVNext]_kvVars
  PROVE  ReadInv'
<1>1. [WriteNext]_vars /\ TypeOK /\ KVTypeOK' /\ IndexInv'
  BY StepOfWriters, KVTypeKept DEF ReadInv, KVTypeOK
<1>2. ContentInv' /\ DefaultsOwned'
  BY <1>1, ContentKept, DefaultsOwnedKept DEF ReadInv
<1>3. ASSUME NEW l \in Lookups
      PROVE  LookupInv(l)'
  <2>1. LookupInv(l) /\ KVTypeOK /\ IndexInv /\ ContentInv /\ DefaultsOwned
    BY DEF ReadInv
  <2>2. CASE Rests(l)
    BY <2>1, <2>2, RestInv
  <2>3. CASE ~Rests(l)
    <3>1. UNCHANGED <<blobs, writeVars>>
      BY <2>3 DEF KVNext, kvVars, lookupVars, WriterStep, ReaderStarts, ReaderStep,
                  StartLookup, LookupStep, GetProperties, ValidateChain, ReadAsync, Rests
    <3> QED
      BY <2>1, <2>3, <3>1, ReaderShape, GetPropertiesInv, ValidateChainInv, ReadAsyncInv
  <2> QED
    BY <2>2, <2>3
<1> QED
  BY <1>1, <1>2, <1>3 DEF ReadInv

LEMMA ReadInit ==
  ASSUME KVInit
  PROVE  ReadInv
<1>1. KVTypeOK /\ IndexInv /\ ContentInv
  BY KVInitType, InitContent DEF KVInit, Init
<1>2. DefaultsOwned
  BY DEF KVInit, ContainerInit, DefaultsOwned, Exists, Locations
<1>3. ASSUME NEW l \in Lookups
      PROVE  LookupInv(l)
  <2>1. prompt[l] \in Seq(BlobNames)
    BY <1>1, LookupTypes DEF KVTypeOK
  <2>2. \A i \in 1 .. Len(prompt[l]) : fetched[l][i] = Pending
    BY <2>1 DEF KVInit, LookupInit, AllPending
  <2>3. result[l] = <<>> /\ 1 .. Len(<<>>) = {}
    BY DEF KVInit, LookupInit
  <2> QED
    BY <2>2, <2>3, LookupAssumptions DEF LookupInv
<1> QED
  BY <1>1, <1>2, <1>3 DEF ReadInv

LEMMA ReadInvariant ==
  ASSUME FreshGuids
  PROVE  KVSpec => []ReadInv
<1>1. KVInit => ReadInv
  BY ReadInit
<1>2. ReadInv /\ [KVNext]_kvVars => ReadInv'
  BY ReadKept
<1> QED
  BY <1>1, <1>2, PTL DEF KVSpec

(* For prompts of any length, any number of lookups, calls, processes and  *)
(* versions, and whatever fails: as long as GUIDs do not repeat, a block   *)
(* that is read is what its lookup announced, continues the block before   *)
(* it, and was written under its name for just this hash and parent.       *)
THEOREM ReadsAreRight ==
  ASSUME FreshGuids
  PROVE  KVSpec => []ReadsMatchLookup
<1>1. ASSUME ReadInv
      PROVE  ReadsMatchLookup
  <2> SUFFICES ASSUME NEW l \in Lookups, NEW i \in 1 .. Len(result[l]),
                      answers[l][i] \notin Specials
               PROVE  /\ answers[l][i].hash = result[l][i].hash
                      /\ i > 1 => answers[l][i].parent = result[l][i - 1].hash
                      /\ \E c \in Calls :
                           chunk[c] = [name |-> prompt[l][i],
                                       hash |-> answers[l][i].hash,
                                       parent |-> answers[l][i].parent,
                                       buffer |-> answers[l][i].buffer]
    BY DEF ReadsMatchLookup, Specials
  <2>1. ReadRight(i, prompt[l][i], result[l][i], ExpectedParent(result[l], i),
                  answers[l][i])
    BY <1>1 DEF ReadInv, LookupInv
  <2>2. i > 1 => ExpectedParent(result[l], i) = result[l][i - 1].hash
    BY DEF ExpectedParent
  <2> QED
    BY <2>1, <2>2 DEF ReadRight
<1>2. ReadInv => ReadsMatchLookup
  BY <1>1
<1> QED
  BY <1>2, ReadInvariant, PTL

-----------------------------------------------------------------------------
(* What a reader finds missing when nothing fails.                         *)

(* A call that gave up has lost its last round.                            *)
LostInv(c) ==
  pc[c] \in Defeats => /\ Exists(Name(c))
                       /\ props[c].etag < blobs[Name(c)].etag

(* The missing blob is one that a call uploaded, and it is gone for good.  *)
MissingInv(l) ==
  \A i \in 1 .. Len(result[l]) :
    answers[l][i] = NotFound =>
      /\ result[l][i].location \in Guids
      /\ ~Exists(result[l][i].location)
      /\ \E c \in Calls : guid[c] = result[l][i].location

MissInv ==
  /\ ReadInv /\ EvictionInv
  /\ \A c \in Calls : LostInv(c)
  /\ \A l \in Lookups : MissingInv(l)

LEMMA GoneForGood ==
  ASSUME FreshGuids, TypeOK, IndexInv, GuidsApart, [WriteNext]_vars,
         NEW g \in Guids, ~Exists(g), NEW d \in Calls, guid[d] = g
  PROVE  blobs'[g] = NoBlob /\ guid'[d] = g
<1>1. guid[d] # NoGuid
  BY WriteAssumptions
<1>2. CASE NoEffect
  BY <1>2 DEF NoEffect, Exists
<1>3. ASSUME NEW c \in Calls, NoEffect \/ Effect(c)
      PROVE  blobs'[g] = NoBlob /\ guid'[d] = g
  <2>1. CASE ~GuidBlobUploaded(c)
    <3>1. blobs'[g] = NoBlob
      BY <1>3, <2>1, GuidBlobsKept DEF Exists
    <3>2. guid' = guid
      BY <1>3, <2>1, GuidsApartKept DEF SameGuids
    <3> QED
      BY <3>1, <3>2
  <2>2. CASE GuidBlobUploaded(c)
    <3>1. PICK f \in Guids :
            /\ \A e \in Calls : guid[e] # f
            /\ guid' = [guid EXCEPT ![c] = f]
            /\ Upload(f, chunk[c])
      BY <2>2, GuidIsNew
    <3>2. g # f
      BY <3>1
    <3>3. blobs'[g] = blobs[g]
      BY <3>1, <3>2 DEF Upload, TypeOK, ContainerTypeOK, Locations
    <3>4. pc[c] = "uploadGuid"
      BY <2>2 DEF GuidBlobUploaded
    <3>5. c # d
      BY <1>1, <3>4 DEF GuidsApart, Early
    <3> QED
      BY <3>1, <3>3, <3>5 DEF Exists, TypeOK
  <2> QED
    BY <2>1, <2>2
<1> QED
  BY <1>2, <1>3, StepShape

(* Without faults and assertions, only a 412 in the last round ends a call *)
(* other than by a return.                                                 *)
LEMMA OnlyDefeat ==
  ASSUME ~AssertsEnabled, TypeOK, NEW c \in Calls, WriteAsync(c) \/ CallStep(c),
         pc'[c] \in Defeats
  PROVE  /\ pc[c] = "update" /\ ~ETagMatches(c)
         /\ UNCHANGED <<blobs, props, chunk>>
<1>1. pc'[c] \notin {"upload", "properties", "returned", "uploadGuid", "update", "refetch"}
  BY DEF Defeats, Outcomes
<1>2. ASSUME NEW label, Goto(c, label)
      PROVE  pc'[c] = label
  BY <1>2, GotoPc
<1>3. ~WriteAsync(c)
  BY <1>1, <1>2 DEF WriteAsync
<1>4. ~UploadFirstVersion(c)
  BY <1>1, <1>2 DEF UploadFirstVersion
<1>5. ~CheckVersions(c)
  BY <1>1, <1>2 DEF CheckVersions
<1>6. ~UploadGuidBlob(c)
  BY <1>1, <1>2 DEF UploadGuidBlob
<1>7. ~EvictOldest(c)
  BY <1>1 DEF EvictOldest, OldestDeleted
<1>8. ~Refetch(c)
  BY <1>1, <1>2 DEF Refetch
<1>9. UpdateMetadata(c)
  BY <1>3, <1>4, <1>5, <1>6, <1>7, <1>8 DEF CallStep
<1> QED
  BY <1>1, <1>2, <1>9 DEF UpdateMetadata

LEMMA LostKept ==
  ASSUME NoFaults, ~AssertsEnabled, TypeOK, IndexInv, [WriteNext]_vars,
         NEW d \in Calls, LostInv(d)
  PROVE  LostInv(d)'
<1>1. CASE UNCHANGED vars
  BY <1>1 DEF vars, writeVars, LostInv, Exists, Name
<1>2. ASSUME NEW c \in Calls, WriteAsync(c) \/ CallStep(c), pc'[d] \in Defeats
      PROVE  (Exists(Name(d)) /\ props[d].etag < blobs[Name(d)].etag)'
  <2>0. PICK n \in BlobNames : n = Name(d)
    BY CallTypes
  <2>1. CASE d = c
    <3>1. /\ pc[d] = "update" /\ ~ETagMatches(d)
          /\ UNCHANGED <<blobs, props, chunk>>
      BY <1>2, <2>1, OnlyDefeat
    <3>2. Exists(n) /\ props[d].etag \in 1 .. blobs[n].etag
      BY <2>0, <3>1 DEF IndexInv, CallInv, Requests
    <3>3. blobs[n].etag \in Nat
      BY <2>0, <3>2, CallTypes DEF Blobs
    <3> QED
      BY <2>0, <3>1, <3>2, <3>3 DEF ETagMatches, Exists, Name
  <2>2. CASE d # c
    <3>1. pc'[d] = pc[d] /\ props'[d] = props[d] /\ chunk' = chunk
      BY <1>2, <2>2, QuietShape, OthersAside
    <3>2. Exists(n) /\ props[d].etag < blobs[n].etag
      BY <1>2, <2>0, <3>1 DEF LostInv
    <3>3. blobs[n].etag \in Nat /\ props[d].etag \in Nat
      BY <2>0, <3>2, CallTypes DEF Blobs
    <3>4. Evolves(n)
      BY NextOK DEF StepOK, DefaultsStep
    <3>5. Exists(n)' /\ props[d].etag < blobs'[n].etag
      BY <3>2, <3>3, <3>4 DEF Evolves, Exists
    <3> QED
      BY <2>0, <3>1, <3>5 DEF Name, Exists
  <2> QED
    BY <2>1, <2>2
<1>3. ASSUME NEW c \in Calls, WriteAsync(c) \/ CallStep(c)
      PROVE  LostInv(d)'
  BY <1>2, <1>3 DEF LostInv
<1> QED
  BY <1>1, <1>3, FaultFree

LEMMA MissingKept ==
  ASSUME FreshGuids, NotFound \notin Failures, ReadInv, [KVNext]_kvVars,
         NEW l \in Lookups, MissingInv(l)
  PROVE  MissingInv(l)'
<1>1. /\ TypeOK /\ LookupTypeOK /\ IndexInv /\ GuidsApart /\ LookupInv(l)
      /\ [WriteNext]_vars /\ KVTypeOK
  BY StepOfWriters DEF ReadInv, KVTypeOK, ContentInv
<1>2. CASE Rests(l)
  <2>1. ASSUME NEW i \in 1 .. Len(result[l]), answers[l][i] = NotFound
        PROVE  /\ result[l][i].location \in Guids
               /\ ~Exists(result[l][i].location)'
               /\ \E c \in Calls : guid'[c] = result[l][i].location
    <3>1. PICK g \in Guids, c \in Calls :
            g = result[l][i].location /\ ~Exists(g) /\ guid[c] = g
      BY <2>1 DEF MissingInv
    <3>2. blobs'[g] = NoBlob /\ guid'[c] = g
      BY <1>1, <3>1, GoneForGood
    <3> QED
      BY <1>2, <3>1, <3>2 DEF Rests, Exists
  <2> QED
    BY <1>2, <2>1 DEF Rests, MissingInv, Exists
<1>3. CASE ~Rests(l)
  <2>1. UNCHANGED <<blobs, guid>>
    BY <1>3 DEF KVNext, kvVars, lookupVars, writeVars, WriterStep, ReaderStarts,
                ReaderStep, StartLookup, LookupStep, GetProperties, ValidateChain,
                ReadAsync, Rests
  <2>2. CASE UNCHANGED <<result, answers>>
    BY <2>1, <2>2 DEF MissingInv, Exists
  <2>3. CASE ValidateChain(l) /\ ~UNCHANGED <<result, answers>>
    <3>1. PICK chain : Found(l, chain)
      BY <2>3 DEF ValidateChain
    <3>2. result'[l] = chain /\ answers'[l] = AllPending(chain)
      BY <1>1, <3>1 DEF Found, LookupTypeOK
    <3> QED
      BY <3>2, LookupAssumptions DEF MissingInv, AllPending
  <2>4. ASSUME NEW i \in 1 .. Len(result[l]), ReadAsync(l, i)
        PROVE  MissingInv(l)'
    <3>1. PICK a \in (Downloads \cup Specials) \ {Pending} :
            /\ answers' = [answers EXCEPT ![l][i] = a]
            /\ Answers(result[l][i].location, a)
      BY <1>1, <2>4, ReadAsyncType
    <3>2. \A j \in 1 .. Len(result[l]) :
            answers'[l][j] = IF j = i THEN a ELSE answers[l][j]
      <4>1. /\ answers[l] \in Seq(Downloads \cup Specials)
            /\ Len(answers[l]) = Len(result[l])
        BY <1>1, LookupTypes
      <4>2. answers'[l] = [answers[l] EXCEPT ![i] = a]
        BY <1>1, <3>1 DEF LookupTypeOK
      <4> QED
        BY <4>1, <4>2, ExceptSeq
    <3>3. PICK loc : loc = result[l][i].location
      OBVIOUS
    <3>4. ASSUME a = NotFound
          PROVE  loc \in Guids /\ ~Exists(loc) /\ \E c \in Calls : guid[c] = loc
      <4>1. ~Exists(loc)
        BY <3>1, <3>3, <3>4, LookupAssumptions DEF Answers
      <4>2. Announced(i, prompt[l][i], result[l][i], ExpectedParent(result[l], i))
        BY <1>1 DEF LookupInv
      <4>3. PICK c \in Calls, v \in Versions :
              Owns(c, prompt[l][i], v) /\ result[l][i] = Location(v)
        BY <3>3, <4>1, <4>2 DEF Announced
      <4> QED
        BY <3>3, <4>1, <4>3 DEF Owns, VersionAt, Location
    <3> QED
      BY <2>1, <2>4, <3>2, <3>3, <3>4 DEF MissingInv, ReadAsync, Exists
  <2>5. (\E i : GetProperties(l, i)) => UNCHANGED <<result, answers>>
    BY DEF GetProperties
  <2> QED
    BY <1>1, <1>3, <2>2, <2>3, <2>4, <2>5, ReaderShape
<1> QED
  BY <1>2, <1>3

LEMMA MissInvariant ==
  ASSUME FreshGuids, NoFaults, ~AssertsEnabled, NotFound \notin Failures
  PROVE  KVSpec => []MissInv
<1>1. ASSUME KVInit
      PROVE  MissInv
  <2>1. ReadInv /\ EvictionInv
    BY <1>1, ReadInit, InitEviction DEF KVInit, Init
  <2>2. ASSUME NEW c \in Calls
        PROVE  LostInv(c)
    BY <1>1 DEF KVInit, WriteInit, LostInv, Defeats, Outcomes
  <2>3. \A l \in Lookups : result[l] = <<>>
    BY <1>1 DEF KVInit, LookupInit
  <2> QED
    BY <2>1, <2>2, <2>3 DEF MissInv, MissingInv
<1>2. ASSUME MissInv, [KVNext]_kvVars
      PROVE  MissInv'
  <2>1. ReadInv /\ TypeOK /\ IndexInv /\ ContentInv /\ EvictionInv /\ [WriteNext]_vars
    BY <1>2, StepOfWriters DEF MissInv, ReadInv, KVTypeOK
  <2>2. ReadInv' /\ EvictionInv'
    BY <1>2, <2>1, ReadKept, EvictionKept DEF NoFaults
  <2>3. \A c \in Calls : LostInv(c)'
    BY <1>2, <2>1, LostKept DEF MissInv
  <2>4. \A l \in Lookups : MissingInv(l)'
    BY <1>2, <2>1, MissingKept DEF MissInv
  <2> QED
    BY <2>2, <2>3, <2>4 DEF MissInv
<1>3. MissInv /\ [KVNext]_kvVars => MissInv'
  BY <1>2
<1>4. KVInit => MissInv
  BY <1>1
<1> QED
  BY <1>3, <1>4, PTL DEF KVSpec

(* For any number of lookups beside any number of writers, when nothing    *)
(* fails, no assertion stops a process and GUIDs do not repeat: a location *)
(* that a lookup found can be read, unless it was the one of an additional *)
(* version that has left the list, or that a call at work is about to take *)
(* off it.  No reader ever loses a first version.                          *)
THEOREM MissingIsEvicted ==
  ASSUME FreshGuids, NoFaults, ~AssertsEnabled, NotFound \notin Failures
  PROVE  KVSpec => []MissingOnlyWhenEvicted
<1>1. ASSUME MissInv
      PROVE  MissingOnlyWhenEvicted
  <2> SUFFICES ASSUME NEW l \in Lookups, NEW i \in 1 .. Len(result[l]),
                      answers[l][i] = NotFound
               PROVE  /\ result[l][i].location \in Guids
                      /\ \A v \in Listed(prompt[l][i]) :
                           v.location = result[l][i].location =>
                             \E c \in Calls : /\ chunk[c].name = prompt[l][i]
                                              /\ pc[c] = "update" /\ ETagMatches(c)
                                              /\ v \notin Elements(existing[c])
    BY DEF MissingOnlyWhenEvicted
  <2>1. result[l][i].location \in Guids /\ ~Exists(result[l][i].location)
    BY <1>1 DEF MissInv, MissingInv
  <2>2. PICK n \in BlobNames : n = prompt[l][i]
    BY <1>1, LookupTypes DEF MissInv, ReadInv, KVTypeOK
  <2>3. ASSUME NEW v \in Listed(n), v.location = result[l][i].location
        PROVE  \E c \in Calls : /\ chunk[c].name = n
                                /\ pc[c] = "update" /\ ETagMatches(c)
                                /\ v \notin Elements(existing[c])
    <3>1. v \in Dangling(n)
      BY <2>1, <2>3 DEF Dangling
    <3>2. PICK c \in Calls : Evicts(c, n, v)
      BY <1>1, <3>1 DEF MissInv, EvictionInv, DanglingInv
    <3>3. LostInv(c) /\ TypeOK
      BY <1>1 DEF MissInv, ReadInv, KVTypeOK
    <3>4. pc[c] \notin Defeats
      <4> SUFFICES ASSUME pc[c] \in Defeats
                   PROVE  FALSE
        OBVIOUS
      <4>1. Exists(Name(c)) /\ props[c].etag < blobs[Name(c)].etag
        BY <3>3 DEF LostInv
      <4>2. props[c].etag \in Nat /\ props[c].etag = blobs[Name(c)].etag
        BY <3>2, <3>3, CallTypes DEF Evicts, ETagMatches
      <4> QED
        BY <4>1, <4>2
    <3> QED
      BY <3>2, <3>4 DEF Evicts
  <2> QED
    BY <2>1, <2>2, <2>3
<1>2. MissInv => MissingOnlyWhenEvicted
  BY <1>1
<1> QED
  BY <1>2, MissInvariant, PTL

-----------------------------------------------------------------------------
(* Nothing is lost between an atomic lookup at the start and one now.      *)

(* An answer that is as old as another, or older.                          *)
Grown(md1, md2) ==
  \/ md1 = NotFound
  \/ /\ md1 \in Metadata /\ md2 \in Metadata
     /\ md2.hash = md1.hash /\ md2.parent = md1.parent
     /\ Len(md1.versions) <= Len(md2.versions)
     /\ \A j \in 1 .. Len(md1.versions) : md2.versions[j] = md1.versions[j]

MetadataOf(n) == IF Exists(n) THEN blobs[n].metadata ELSE NotFound

LEMMA GrownIsTransitive ==
  ASSUME NEW a, NEW b, NEW c, Grown(a, b), Grown(b, c)
  PROVE  Grown(a, c)
<1>1. CASE a = NotFound
  BY <1>1 DEF Grown
<1>2. CASE a # NotFound
  <2>1. a \in Metadata /\ b \in Metadata /\ b # NotFound
    BY <1>2, LookupAssumptions DEF Grown
  <2>2. c \in Metadata
    BY <2>1 DEF Grown
  <2>3. /\ Len(a.versions) \in Nat /\ Len(b.versions) \in Nat
        /\ Len(c.versions) \in Nat
    BY <2>1, <2>2, LenProperties DEF Metadata
  <2> QED
    BY <1>2, <2>1, <2>2, <2>3 DEF Grown
<1> QED
  BY <1>1, <1>2

LEMMA GrownIsReflexive ==
  ASSUME NEW md \in Metadata \cup {NotFound}
  PROVE  Grown(md, md)
<1>1. md \in Metadata => Len(md.versions) \in Nat
  BY LenProperties DEF Metadata
<1> QED
  BY <1>1 DEF Grown

LEMMA MetadataOfType ==
  ASSUME TypeOK, NEW n \in BlobNames
  PROVE  MetadataOf(n) \in Metadata \cup {NotFound}
BY DEF MetadataOf, TypeOK, ContainerTypeOK, Exists, Locations, Blobs

(* What is found in an answer is found in a younger one.                   *)
LEMMA MatchGrown ==
  ASSUME NEW i, NEW n, NEW p, NEW e, NEW md1, NEW md2, Grown(md1, md2),
         Match(i, n, md1, p) = <<e>>
  PROVE  Match(i, n, md2, p) = <<e>>
<1>1. md1 # NotFound
  BY DEF Match
<1>2. /\ md1 \in Metadata /\ md2 \in Metadata
      /\ md1 \notin {NotFound, Broken} /\ md2 \notin {NotFound, Broken}
  BY <1>1, LookupAssumptions DEF Grown
<1>3. CASE i = 1 \/ md1.parent = p
  BY <1>1, <1>2, <1>3 DEF Match, Grown
<1>4. CASE ~(i = 1 \/ md1.parent = p)
  <2>1. Hits(md1, p) # {}
    BY <1>2, <1>4 DEF Match
  <2>2. /\ Len(md1.versions) \in Nat /\ Len(md2.versions) \in Nat
        /\ Len(md1.versions) <= Len(md2.versions)
        /\ \A j \in 1 .. Len(md1.versions) : md2.versions[j] = md1.versions[j]
    BY <1>1, <1>2, LenProperties DEF Grown, Metadata
  <2>3. PICK j \in Hits(md1, p) :
          FirstHit(md1, p) = md1.versions[j] /\ \A k \in Hits(md1, p) : j <= k
    BY <1>2, <2>1, FirstHitIs
  <2>4. j \in Hits(md2, p)
    BY <2>2 DEF Hits
  <2>5. Hits(md2, p) # {}
    BY <2>4
  <2>6. PICK m \in Hits(md2, p) :
          FirstHit(md2, p) = md2.versions[m] /\ \A k \in Hits(md2, p) : m <= k
    BY <1>2, <2>5, FirstHitIs
  <2>7. m <= j /\ m \in 1 .. Len(md2.versions) /\ j \in 1 .. Len(md1.versions)
    BY <2>4, <2>6 DEF Hits
  <2>8. m \in Hits(md1, p)
    BY <2>2, <2>6, <2>7 DEF Hits
  <2>9. m = j
    BY <2>3, <2>7, <2>8
  <2>10. FirstHit(md2, p) = FirstHit(md1, p)
    BY <2>2, <2>3, <2>6, <2>7, <2>9
  <2>11. ~(i = 1 \/ md2.parent = p)
    BY <1>1, <1>4 DEF Grown
  <2> QED
    BY <1>2, <1>4, <2>1, <2>5, <2>10, <2>11 DEF Match
<1> QED
  BY <1>3, <1>4

(* Entry i of a chain is the match for block i, given those before it.     *)
Fits(i, name, md, s) == Match(i, name, md, ExpectedParent(s, i)) = <<s[i]>>

Longest(names, mds, t) ==
  /\ IsChain(names, mds, t)
  /\ Len(t) < Len(names) => ~GoesOn(names, mds, t)

FitsBeside(names, mds, s, t) ==
  /\ s \in Seq(BlockLocations) /\ Len(s) <= Len(names)
  /\ \A i \in 1 .. Len(s) : i <= Len(t) + 1 => Fits(i, names[i], mds[i], s)

Begins(s, t) == Len(s) <= Len(t) /\ \A i \in 1 .. Len(s) : s[i] = t[i]

(* A chain that goes as far as it can begins with every other that fits.   *)
LEMMA LongestChain ==
  ASSUME NEW names \in Seq(BlobNames), NEW mds, NEW s, NEW t,
         Longest(names, mds, t), FitsBeside(names, mds, s, t)
  PROVE  Begins(s, t)
<1>0. /\ IsChain(names, mds, t)
      /\ Len(t) < Len(names) => ~GoesOn(names, mds, t)
      /\ s \in Seq(BlockLocations) /\ Len(s) <= Len(names)
      /\ \A i \in 1 .. Len(s) : i <= Len(t) + 1 => Fits(i, names[i], mds[i], s)
  BY DEF Longest, FitsBeside
<1>1. /\ Len(s) \in Nat /\ Len(t) \in Nat /\ Len(names) \in Nat
      /\ t \in Seq(BlockLocations)
  BY <1>0, LenProperties DEF IsChain
<1> DEFINE Agree(n) == n <= Len(s) => n <= Len(t) /\ \A i \in 1 .. n : s[i] = t[i]
           S == {n \in Nat : Agree(n)}
<1>2. 0 \in S
  BY <1>1
<1>3. ASSUME NEW n \in Nat, n \in S
      PROVE  n + 1 \in S
  <2> SUFFICES ASSUME n + 1 <= Len(s)
               PROVE  n + 1 <= Len(t) /\ \A i \in 1 .. n + 1 : s[i] = t[i]
    OBVIOUS
  <2>1. n <= Len(t) /\ \A i \in 1 .. n : s[i] = t[i]
    BY <1>1, <1>3
  <2>2. ExpectedParent(s, n + 1) = ExpectedParent(t, n + 1)
    BY <2>1 DEF ExpectedParent
  <2>3. Match(n + 1, names[n + 1], mds[n + 1], ExpectedParent(t, n + 1)) = <<s[n + 1]>>
    BY <1>0, <1>1, <2>1, <2>2 DEF Fits
  <2>4. n # Len(t)
    <3> SUFFICES ASSUME n = Len(t)
                 PROVE  FALSE
      OBVIOUS
    <3>1. ~GoesOn(names, mds, t)
      BY <1>0, <1>1
    <3>2. Match(Len(t) + 1, names[Len(t) + 1], mds[Len(t) + 1],
                ExpectedParent(t, Len(t) + 1)) = <<s[n + 1]>>
      BY <2>3
    <3>3. <<s[n + 1]>> # <<>>
      OBVIOUS
    <3>4. Match(Len(t) + 1, names[Len(t) + 1], mds[Len(t) + 1],
                ExpectedParent(t, Len(t) + 1)) = <<>>
      BY <3>1 DEF GoesOn
    <3> QED
      BY <3>2, <3>3, <3>4
  <2>5. n + 1 \in 1 .. Len(t)
    BY <1>1, <2>1, <2>4
  <2>6. Match(n + 1, names[n + 1], mds[n + 1], ExpectedParent(t, n + 1)) = <<t[n + 1]>>
    BY <1>0, <2>5 DEF IsChain
  <2>7. s[n + 1] = t[n + 1]
    BY <2>3, <2>6
  <2> QED
    BY <1>1, <2>1, <2>5, <2>7
<1>4. Len(s) \in S
  BY <1>1, <1>2, <1>3, Induction
<1> QED
  BY <1>1, <1>4 DEF Begins

LEMMA PrefixOf ==
  ASSUME NEW s \in Seq(BlockLocations), NEW t \in Seq(BlockLocations),
         Begins(s, t)
  PROVE  IsPrefix(s, t)
<1>1. Len(s) \in Nat /\ Len(t) \in Nat
  BY LenProperties
<1>2. SubSeq(s, 1, Len(s)) = SubSeq(t, 1, Len(s))
  BY <1>1, SMTT(30) DEF Begins
<1> QED
  BY <1>2 DEF IsPrefix, Begins

(* A delete that is skipped has failed.                                    *)
LEMMA EvictsForReal ==
  ASSUME "fail" \notin FaultKinds, TypeOK, NEW c \in Calls,
         \/ WriteAsync(c)
         \/ CallStep(c)
         \/ RequestFails(c)
         \/ AnswerLost(c)
         \/ RequestResent(c),
         pc[c] = "update", OverCapacity(c)
  PROVE  OldestDeleted(c)
BY DEF WriteAsync, CallStep, UploadFirstVersion, FirstVersionUploaded, CheckVersions,
       UploadGuidBlob, GuidBlobUploaded, EvictOldest, UpdateMetadata, VersionsUpdated,
       Refetch, RequestFails, AnswerLost, RequestResent, Fault

LEMMA EvictedGoneKept ==
  ASSUME FreshGuids, "fail" \notin FaultKinds, TypeOK, IndexInv, ContentInv,
         \A d \in Calls : EvictedGone(d), [WriteNext]_vars, NEW d \in Calls
  PROVE  EvictedGone(d)'
<1>1. CASE NoEffect
  <2>1. pc'[d] = "update" => pc[d] = "update"
    BY <1>1 DEF NoEffect, Waits, Defeats, Outcomes
  <2>2. props'[d] = props[d] /\ existing'[d] = existing[d]
    BY <1>1 DEF NoEffect
  <2> QED
    BY <1>1, <2>1, <2>2, OtherEvictedGone
<1>2. ASSUME NEW c \in Calls, Effect(c),
             \/ WriteAsync(c)
             \/ CallStep(c)
             \/ RequestFails(c)
             \/ AnswerLost(c)
             \/ RequestResent(c)
      PROVE  EvictedGone(d)'
  <2>1. CASE pc'[d] # "update"
    BY <2>1 DEF EvictedGone
  <2>2. CASE pc'[d] = "update" /\ Keeps(d)
    <3>1. pc[d] = "update"
      BY <2>2 DEF Keeps, Outcomes
    <3> QED
      BY <1>2, <2>2, <3>1, OtherEvictedGone DEF Keeps
  <2>3. CASE pc'[d] = "update" /\ d = c /\ Changes(c)
    <3>1. GuidBlobUploaded(c) \/ OldestDeleted(c) \/ Refetch(c)
      BY <1>2, <2>3, EvictsForReal DEF Changes
    <3> QED
      BY <1>2, <2>3, <3>1, OwnEvictedGone
  <2> QED
    BY <1>2, <2>1, <2>2, <2>3, HolderShape
<1>3. CASE UNCHANGED vars
  BY <1>1, <1>3 DEF vars, writeVars, NoEffect, Waits
<1>4. CASE \E s \in Servers : ServerCrash(s)
  <2>1. NoEffect
    BY <1>4 DEF ServerCrash, ProcessDies, NoEffect, Waits, InFlight, Defeats, Outcomes
  <2> QED
    BY <1>1, <2>1
<1> QED
  BY <1>1, <1>2, <1>3, <1>4, CallShape, FaultShape DEF WriteNext

(* As long as nothing is evicted the lists only grow: the list that a call *)
(* publishes is the current one with its own version.                      *)
LEMMA MetadataGrows ==
  ASSUME FreshGuids, TypeOK, IndexInv, ContentInv, ListsInv,
         \A d \in Calls : EvictedGone(d), NothingEvicted, [WriteNext]_vars,
         NEW n \in BlobNames
  PROVE  Grown(MetadataOf(n), MetadataOf(n)')
<1>1. CASE ~Exists(n)
  BY <1>1 DEF MetadataOf, Grown
<1>2. CASE Exists(n)
  <2> DEFINE md  == blobs[n].metadata
             md2 == blobs'[n].metadata
  <2>1. /\ Exists(n)' /\ md2.hash = md.hash /\ md2.parent = md.parent
    BY <1>2, DefaultStays
  <2>2. /\ MetadataOf(n) = md /\ MetadataOf(n)' = md2
        /\ md \in Metadata /\ md2 \in Metadata
    <3>1. ContainerTypeOK /\ ContainerTypeOK'
      BY NextOK DEF StepOK, TypeOK
    <3> QED
      BY <1>2, <2>1, <3>1 DEF MetadataOf, ContainerTypeOK, Exists, Locations, Blobs
  <2>3. CASE md2 = md
    BY <2>2, <2>3, GrownIsReflexive
  <2>4. ASSUME NEW c \in Calls, VersionsUpdated(c), n = Name(c),
               md2.versions = existing[c]
        PROVE  Grown(md, md2)
    <3>1. PICK own : own = VersionAt(c, guid[c])
      OBVIOUS
    <3>2. /\ own \in Versions
          /\ Len(List(n)) = MaxVersions => Head(List(n)) \notin Elements(existing[c])
      BY <2>4, <3>1, PublishedList DEF ContentInv
    <3>3. /\ pc[c] = "update" /\ ETagMatches(c)
          /\ PushedOnto(existing[c], List(n), own)
      BY <2>4, <3>1 DEF VersionsUpdated, IndexInv, CallInv, List
    <3>4. List(n) \in Seq(Versions) /\ Listed(n) = Elements(List(n))
      BY <1>2, ListType
    <3>5. CASE List(n) # <<>> /\ Len(List(n)) = MaxVersions
      <4>1. Head(List(n)) \in Listed(n)
        BY <3>4, <3>5, ElementsOfTail DEF Elements
      <4>2. ~Exists(Head(List(n)).location)
        BY <2>4, <3>2, <3>3, <3>5, <4>1 DEF EvictedGone
      <4>3. PICK d \in Calls : Owns(d, n, Head(List(n)))
        BY <4>1 DEF ContentInv, EntriesOwned
      <4>4. guid[d] \in Guids /\ ~Exists(guid[d])
        BY <4>2, <4>3 DEF Owns, VersionAt
      <4> QED
        BY <4>4, WriteAssumptions DEF NothingEvicted
    <3>6. CASE existing[c] = Append(List(n), own)
      <4>1. /\ Len(Append(List(n), own)) = Len(List(n)) + 1
            /\ \A j \in 1 .. Len(List(n)) : Append(List(n), own)[j] = List(n)[j]
            /\ Len(List(n)) \in Nat
        BY <3>2, <3>4, AppendProperties, LenProperties
      <4> QED
        BY <2>1, <2>2, <2>4, <3>6, <4>1 DEF Grown, List
    <3> QED
      BY <3>3, <3>5, <3>6 DEF PushedOnto
  <2>5. ASSUME NEW c \in Calls, NoEffect \/ Effect(c)
        PROVE  Grown(md, md2)
    <3>1. ~FirstVersionUploaded(c) \/ n # Name(c)
      BY <1>2 DEF FirstVersionUploaded
    <3> QED
      BY <2>1, <2>3, <2>4, <2>5, <3>1, <2>2, ListChange DEF List
  <2> QED
    BY <2>2, <2>3, <2>5, StepShape DEF NoEffect
<1> QED
  BY <1>1, <1>2

(* What was evicted once does not come back.                               *)
LEMMA NothingWasEvicted ==
  ASSUME FreshGuids, TypeOK, IndexInv, GuidsApart, [WriteNext]_vars, NothingEvicted'
  PROVE  NothingEvicted
<1> SUFFICES ASSUME NEW c \in Calls, guid[c] # NoGuid, ~Exists(guid[c])
             PROVE  FALSE
  BY DEF NothingEvicted
<1>1. PICK g \in Guids : g = guid[c]
  BY DEF TypeOK
<1>2. blobs'[g] = NoBlob /\ guid'[c] = g
  BY <1>1, GoneForGood
<1> QED
  BY <1>1, <1>2, WriteAssumptions DEF NothingEvicted, Exists

(* Where a lookup stands between the two: the chain at its start fits what *)
(* it was told since, which fits the container as it is, and so does the   *)
(* chain it returned.                                                      *)
Standing(l) ==
  /\ lpc[l] = "idle" => \A i \in 1 .. Len(prompt[l]) : fetched[l][i] = Pending
  /\ Len(atStart[l]) <= Len(prompt[l])
  /\ \A i \in 1 .. Len(atStart[l]) :
       Fits(i, prompt[l][i], MetadataOf(prompt[l][i]), atStart[l])
  /\ \A i \in 1 .. Len(prompt[l]) :
       fetched[l][i] \notin {Pending, Broken} =>
         /\ Grown(fetched[l][i], MetadataOf(prompt[l][i]))
         /\ i <= Len(atStart[l]) => Fits(i, prompt[l][i], fetched[l][i], atStart[l])
  /\ \A i \in 1 .. Len(result[l]) :
       Fits(i, prompt[l][i], MetadataOf(prompt[l][i]), result[l])
  /\ lpc[l] = "found" => Begins(atStart[l], result[l])

BetweenInv ==
  /\ ReadInv /\ EvictionInv
  /\ \A d \in Calls : EvictedGone(d)
  /\ NothingEvicted => \A l \in Lookups : Standing(l)

(* The container grows under a lookup that does nothing.                   *)
LEMMA StandingGrows ==
  ASSUME KVTypeOK, NEW l \in Lookups, Standing(l),
         \A n \in BlobNames : Grown(MetadataOf(n), MetadataOf(n)'),
         prompt' = prompt, lpc'[l] = lpc[l], fetched'[l] = fetched[l],
         result'[l] = result[l], atStart'[l] = atStart[l]
  PROVE  Standing(l)'
<1>1. LookupTypeOK
  BY DEF KVTypeOK
<1>2. atStart[l] \in Seq(BlockLocations) /\ Len(atStart[l]) \in Nat
  BY LenProperties DEF KVTypeOK
<1>3. /\ Len(prompt[l]) \in Nat /\ Len(result[l]) \in Nat
      /\ Len(result[l]) <= Len(prompt[l]) /\ Len(atStart[l]) <= Len(prompt[l])
  BY <1>1, LookupTypes, LenProperties DEF Standing
<1>4. \A i \in 1 .. Len(prompt[l]) :
        Grown(MetadataOf(prompt[l][i]), MetadataOf(prompt[l][i])')
  BY <1>1, LookupTypes
<1>5. ASSUME NEW i \in 1 .. Len(prompt[l]), NEW s,
             Fits(i, prompt[l][i], MetadataOf(prompt[l][i]), s)
      PROVE  Fits(i, prompt[l][i], MetadataOf(prompt[l][i])', s)
  <2>1. PICK md1, md2 : /\ md1 = MetadataOf(prompt[l][i])
                        /\ md2 = MetadataOf(prompt[l][i])'
    OBVIOUS
  <2>2. Grown(md1, md2)
    BY <1>4, <2>1
  <2>3. Match(i, prompt[l][i], md1, ExpectedParent(s, i)) = <<s[i]>>
    BY <1>5, <2>1 DEF Fits
  <2>4. Match(i, prompt[l][i], md2, ExpectedParent(s, i)) = <<s[i]>>
    BY <2>2, <2>3, MatchGrown
  <2> QED
    BY <2>1, <2>4 DEF Fits
<1>6. ASSUME NEW i \in 1 .. Len(prompt[l]), fetched[l][i] \notin {Pending, Broken}
      PROVE  Grown(fetched[l][i], MetadataOf(prompt[l][i])')
  <2>1. PICK md1, md2 : /\ md1 = MetadataOf(prompt[l][i])
                        /\ md2 = MetadataOf(prompt[l][i])'
    OBVIOUS
  <2>2. Grown(md1, md2) /\ Grown(fetched[l][i], md1)
    BY <1>4, <1>6, <2>1 DEF Standing
  <2>3. Grown(fetched[l][i], md2)
    BY <2>2, GrownIsTransitive
  <2> QED
    BY <2>1, <2>3
<1>7. \A i \in 1 .. Len(atStart[l]) :
        Fits(i, prompt[l][i], MetadataOf(prompt[l][i])', atStart[l])
  <2> TAKE i \in 1 .. Len(atStart[l])
  <2>1. i \in 1 .. Len(prompt[l])
    BY <1>2, <1>3
  <2>2. Fits(i, prompt[l][i], MetadataOf(prompt[l][i]), atStart[l])
    BY DEF Standing
  <2> QED
    BY <1>5, <2>1, <2>2
<1>8. \A i \in 1 .. Len(result[l]) :
        Fits(i, prompt[l][i], MetadataOf(prompt[l][i])', result[l])
  <2> TAKE i \in 1 .. Len(result[l])
  <2>1. i \in 1 .. Len(prompt[l])
    BY <1>3
  <2>2. Fits(i, prompt[l][i], MetadataOf(prompt[l][i]), result[l])
    BY DEF Standing
  <2> QED
    BY <1>5, <2>1, <2>2
<1>9. \A i \in 1 .. Len(prompt[l]) :
        fetched[l][i] \notin {Pending, Broken} =>
          /\ Grown(fetched[l][i], MetadataOf(prompt[l][i])')
          /\ i <= Len(atStart[l]) => Fits(i, prompt[l][i], fetched[l][i], atStart[l])
  BY <1>6 DEF Standing
<1> QED
  BY <1>7, <1>8, <1>9 DEF Standing, Fits, ExpectedParent, Begins

LEMMA StartStanding ==
  ASSUME KVTypeOK, NEW l \in Lookups, Standing(l), ReaderStarts(l)
  PROVE  Standing(l)'
<1> DEFINE chain == ChainNow(prompt[l])
<1>1. TypeOK /\ LookupTypeOK /\ prompt[l] \in Seq(BlobNames)
  BY LookupTypes DEF KVTypeOK
<1>2. /\ lpc[l] = "idle" /\ lpc'[l] = "fetching" /\ atStart'[l] = chain
      /\ UNCHANGED <<blobs, prompt, fetched, result>>
  BY <1>1 DEF ReaderStarts, StartLookup, KVTypeOK, LookupTypeOK
<1>3. IsChain(prompt[l], PromptMetadata(prompt[l]), chain)
  BY <1>1, MetadataNow, ChainIs DEF ChainNow, PromptMetadata
<1> HIDE DEF chain
<1>4. Len(chain) <= Len(prompt[l]) /\ Len(chain) \in Nat /\ Len(prompt[l]) \in Nat
  BY <1>1, <1>3, LenProperties DEF IsChain
<1>5. \A i \in 1 .. Len(chain) :
        Fits(i, prompt[l][i], MetadataOf(prompt[l][i]), chain)
  <2> TAKE i \in 1 .. Len(chain)
  <2>1. PromptMetadata(prompt[l])[i] = MetadataOf(prompt[l][i])
    BY <1>4 DEF PromptMetadata, MetadataOf
  <2> QED
    BY <1>3, <2>1 DEF IsChain, Fits
<1>6. \A i \in 1 .. Len(prompt[l]) : fetched[l][i] = Pending
  BY <1>2 DEF Standing
<1>7. \A i \in 1 .. Len(result[l]) :
        Fits(i, prompt[l][i], MetadataOf(prompt[l][i]), result[l])
  BY DEF Standing
<1> QED
  BY <1>2, <1>4, <1>5, <1>6, <1>7
     DEF Standing, Fits, ExpectedParent, MetadataOf, Exists, Begins

LEMMA GetPropertiesStanding ==
  ASSUME KVTypeOK, NotFound \notin Failures, NEW l \in Lookups, Standing(l),
         NEW i \in 1 .. Len(prompt[l]), GetProperties(l, i), atStart' = atStart
  PROVE  Standing(l)'
<1>1. TypeOK /\ LookupTypeOK /\ prompt[l][i] \in BlobNames
  BY LookupTypes DEF KVTypeOK
<1>2. PICK md \in Answered \ {Pending} :
        /\ fetched' = [fetched EXCEPT ![l][i] = md]
        /\ md = MetadataOf(prompt[l][i]) \/ md = Broken
  BY <1>1, GetPropertiesType DEF MetadataOf
<1>3. \A j \in 1 .. Len(prompt[l]) :
        fetched'[l][j] = IF j = i THEN md ELSE fetched[l][j]
  <2>1. fetched[l] \in Seq(Answered) /\ Len(fetched[l]) = Len(prompt[l])
    BY <1>1, LookupTypes
  <2>2. fetched'[l] = [fetched[l] EXCEPT ![i] = md]
    BY <1>1, <1>2 DEF LookupTypeOK
  <2> QED
    BY <2>1, <2>2, ExceptSeq
<1>4. /\ UNCHANGED <<blobs, lpc, prompt, result, atStart>>
      /\ lpc[l] = "fetching"
  BY DEF GetProperties
<1>5. ASSUME NEW j \in 1 .. Len(prompt[l]), fetched'[l][j] \notin {Pending, Broken}
      PROVE  /\ Grown(fetched'[l][j], MetadataOf(prompt[l][j]))
             /\ j <= Len(atStart[l]) => Fits(j, prompt[l][j], fetched'[l][j], atStart[l])
  <2>1. CASE j # i
    BY <1>3, <1>5, <2>1 DEF Standing
  <2>2. CASE j = i
    <3>1. fetched'[l][j] = MetadataOf(prompt[l][j])
      BY <1>2, <1>3, <1>5, <2>2
    <3>2. Grown(MetadataOf(prompt[l][j]), MetadataOf(prompt[l][j]))
      BY <1>1, <2>2, MetadataOfType, GrownIsReflexive
    <3>3. Len(atStart[l]) \in Nat
      BY LenProperties DEF KVTypeOK
    <3>4. j <= Len(atStart[l]) =>
            Fits(j, prompt[l][j], MetadataOf(prompt[l][j]), atStart[l])
      BY <3>3 DEF Standing
    <3> QED
      BY <3>1, <3>2, <3>4
  <2> QED
    BY <2>1, <2>2
<1>6. \A j \in 1 .. Len(prompt[l]) :
        fetched'[l][j] \notin {Pending, Broken} =>
          /\ Grown(fetched'[l][j], MetadataOf(prompt[l][j]))
          /\ j <= Len(atStart[l]) => Fits(j, prompt[l][j], fetched'[l][j], atStart[l])
  BY <1>5
<1> QED
  BY <1>4, <1>6 DEF Standing, Fits, ExpectedParent, MetadataOf, Exists, Begins

LEMMA ValidateChainStanding ==
  ASSUME KVTypeOK, NEW l \in Lookups, Standing(l), ValidateChain(l),
         atStart' = atStart
  PROVE  Standing(l)'
<1> DEFINE chain == Chain(prompt[l], fetched[l])
           start == atStart[l]
<1>1. /\ TypeOK /\ LookupTypeOK /\ prompt[l] \in Seq(BlobNames)
      /\ UNCHANGED <<blobs, prompt, fetched, atStart>>
  BY LookupTypes DEF KVTypeOK, ValidateChain
<1>2. /\ IsChain(prompt[l], fetched[l], chain)
      /\ Len(chain) < Len(prompt[l]) => ~GoesOn(prompt[l], fetched[l], chain)
      /\ AllFetched(l)
  BY <1>1, ChainOfLookup DEF ValidateChain
<1>3. CASE lpc' = [lpc EXCEPT ![l] = "threw"] /\ UNCHANGED <<result, answers>>
  <2>1. lpc'[l] = "threw"
    BY <1>1, <1>3 DEF LookupTypeOK
  <2> QED
    BY <1>1, <1>3, <2>1 DEF Standing, Fits, ExpectedParent, MetadataOf, Exists, Begins
<1>4. CASE /\ Found(l, chain)
           /\ Len(chain) + 1 <= Len(prompt[l]) => fetched[l][Len(chain) + 1] # Broken
  <2> HIDE DEF chain
  <2>1. /\ chain \in Seq(BlockLocations) /\ Len(chain) <= Len(prompt[l])
        /\ Len(chain) \in Nat /\ Len(prompt[l]) \in Nat
        /\ start \in Seq(BlockLocations) /\ Len(start) \in Nat
        /\ Len(start) <= Len(prompt[l])
    BY <1>1, <1>2, LenProperties DEF IsChain, KVTypeOK, Standing
  <2>2. /\ lpc'[l] = "found" /\ result'[l] = chain
    BY <1>1, <1>4 DEF Found, LookupTypeOK
  <2>3. ASSUME NEW i \in 1 .. Len(chain)
        PROVE  /\ Fits(i, prompt[l][i], fetched[l][i], chain)
               /\ fetched[l][i] \notin {Pending, Broken}
    <3>1. i \in 1 .. Len(prompt[l])
      BY <2>1
    <3>2. Match(i, prompt[l][i], fetched[l][i], ExpectedParent(chain, i)) = <<chain[i]>>
      BY <1>2 DEF IsChain
    <3>3. fetched[l][i] # Broken
      BY <3>2 DEF Match
    <3>4. fetched[l][i] # Pending
      BY <1>2, <3>1 DEF AllFetched
    <3> QED
      BY <3>2, <3>3, <3>4 DEF Fits
  <2>4. ASSUME NEW i \in 1 .. Len(chain)
        PROVE  Fits(i, prompt[l][i], MetadataOf(prompt[l][i]), chain)
    <3>1. i \in 1 .. Len(prompt[l])
      BY <2>1
    <3>2. Grown(fetched[l][i], MetadataOf(prompt[l][i]))
      BY <2>3, <3>1 DEF Standing
    <3> QED
      BY <2>3, <3>2, MatchGrown DEF Fits
  <2>5. ASSUME NEW i \in 1 .. Len(start), i <= Len(chain) + 1
        PROVE  Fits(i, prompt[l][i], fetched[l][i], start)
    <3>1. i \in 1 .. Len(prompt[l]) /\ i <= Len(start)
      BY <2>1
    <3>2. fetched[l][i] # Pending
      BY <1>2, <3>1 DEF AllFetched
    <3>3. CASE i <= Len(chain)
      BY <2>3, <3>1, <3>3 DEF Standing
    <3>4. CASE i = Len(chain) + 1
      BY <1>4, <3>1, <3>2, <3>4 DEF Standing
    <3> QED
      BY <2>1, <2>5, <3>3, <3>4
  <2> HIDE DEF start
  <2>6. FitsBeside(prompt[l], fetched[l], start, chain)
    BY <2>1, <2>5 DEF FitsBeside
  <2>7. Begins(start, chain)
    BY <1>1, <1>2, <2>6, LongestChain DEF Longest
  <2>8. \A i \in 1 .. Len(chain) :
          Fits(i, prompt[l][i], MetadataOf(prompt[l][i]), chain)
    BY <2>4
  <2>9. (\A i \in 1 .. Len(result[l]) :
           Fits(i, prompt[l][i], MetadataOf(prompt[l][i]), result[l]))'
    BY <1>1, <2>2, <2>8 DEF Fits, ExpectedParent, MetadataOf, Exists
  <2>10. (/\ Len(atStart[l]) <= Len(prompt[l])
          /\ \A i \in 1 .. Len(atStart[l]) :
               Fits(i, prompt[l][i], MetadataOf(prompt[l][i]), atStart[l])
          /\ \A i \in 1 .. Len(prompt[l]) :
               fetched[l][i] \notin {Pending, Broken} =>
                 /\ Grown(fetched[l][i], MetadataOf(prompt[l][i]))
                 /\ i <= Len(atStart[l]) =>
                      Fits(i, prompt[l][i], fetched[l][i], atStart[l]))'
    BY <1>1 DEF Standing, Fits, ExpectedParent, MetadataOf, Exists, Begins
  <2>11. Begins(atStart[l], result[l])'
    BY <1>1, <2>2, <2>7 DEF start, Begins
  <2> QED
    BY <2>2, <2>9, <2>10, <2>11 DEF Standing
<1> QED
  BY <1>3, <1>4 DEF ValidateChain

(* The steps that matter to where a lookup stands.                         *)
LEMMA StandingShape ==
  ASSUME KVTypeOK, [KVNext]_kvVars, NEW l \in Lookups
  PROVE  /\ prompt' = prompt
         /\ \/ /\ lpc'[l] = lpc[l] /\ fetched'[l] = fetched[l]
               /\ result'[l] = result[l] /\ atStart'[l] = atStart[l]
            \/ ReaderStarts(l)
            \/ \E i \in 1 .. Len(prompt[l]) : GetProperties(l, i) /\ atStart' = atStart
            \/ ValidateChain(l) /\ atStart' = atStart
<1> DEFINE Still == /\ lpc'[l] = lpc[l] /\ fetched'[l] = fetched[l]
                    /\ result'[l] = result[l] /\ atStart'[l] = atStart[l]
<1>1. LookupTypeOK /\ atStart \in [Lookups -> Seq(BlockLocations)]
  BY DEF KVTypeOK
<1>2. CASE UNCHANGED <<lookupVars, atStart>>
  BY <1>2 DEF lookupVars
<1>3. ASSUME NEW m \in Lookups, ReaderStarts(m), m # l
      PROVE  Still
  BY <1>1, <1>3 DEF ReaderStarts, StartLookup, LookupTypeOK
<1>4. ASSUME NEW m \in Lookups, NEW i, GetProperties(m, i), m # l, atStart' = atStart
      PROVE  Still
  BY <1>1, <1>4 DEF GetProperties, LookupTypeOK
<1>5. ASSUME NEW m \in Lookups, ValidateChain(m), m # l, atStart' = atStart
      PROVE  Still
  BY <1>1, <1>5 DEF ValidateChain, Found, LookupTypeOK
<1>6. ASSUME NEW m \in Lookups, NEW i, ReadAsync(m, i), atStart' = atStart
      PROVE  Still
  BY <1>6 DEF ReadAsync
<1>7. ASSUME NEW m \in Lookups, LookupStep(m), atStart' = atStart, m # l
      PROVE  Still
  BY <1>4, <1>5, <1>6, <1>7 DEF LookupStep
<1>8. ASSUME LookupStep(l), atStart' = atStart
      PROVE  \/ Still
             \/ \E i \in 1 .. Len(prompt[l]) : GetProperties(l, i) /\ atStart' = atStart
             \/ ValidateChain(l) /\ atStart' = atStart
  BY <1>6, <1>8 DEF LookupStep
<1> QED
  BY <1>2, <1>3, <1>7, <1>8, ReaderShape
     DEF KVNext, kvVars, WriterStep, ReaderStep

LEMMA BetweenKept ==
  ASSUME FreshGuids, FaultKinds \cap {"fail", "resend"} = {}, NotFound \notin Failures,
         BetweenInv, [KVNext]_kvVars
  PROVE  BetweenInv'
<1>1. /\ ReadInv /\ KVTypeOK /\ TypeOK /\ IndexInv /\ ContentInv /\ EvictionInv
      /\ [WriteNext]_vars
  BY StepOfWriters DEF BetweenInv, ReadInv, KVTypeOK
<1>2. ReadInv' /\ EvictionInv'
  BY <1>1, ReadKept, EvictionKept
<1>3. \A d \in Calls : EvictedGone(d)'
  BY <1>1, EvictedGoneKept DEF BetweenInv
<1>4. ASSUME NothingEvicted', NEW l \in Lookups
      PROVE  Standing(l)'
  <2>1. NothingEvicted
    BY <1>1, <1>4, NothingWasEvicted DEF ContentInv
  <2>2. Standing(l)
    BY <2>1 DEF BetweenInv
  <2>3. \A n \in BlobNames : Grown(MetadataOf(n), MetadataOf(n)')
    BY <1>1, <2>1, MetadataGrows DEF BetweenInv, EvictionInv
  <2> QED
    BY <1>1, <2>2, <2>3, StandingShape, StandingGrows, StartStanding,
       GetPropertiesStanding, ValidateChainStanding
<1> QED
  BY <1>2, <1>3, <1>4 DEF BetweenInv

LEMMA BetweenInit ==
  ASSUME KVInit
  PROVE  BetweenInv
<1>1. ReadInv /\ EvictionInv
  BY ReadInit, InitEviction DEF KVInit, Init
<1>2. \A d \in Calls : EvictedGone(d)
  BY DEF KVInit, WriteInit, EvictedGone
<1>3. ASSUME NEW l \in Lookups
      PROVE  Standing(l)
  <2>1. prompt[l] \in Seq(BlobNames) /\ Len(prompt[l]) \in Nat
    BY <1>1, LookupTypes, LenProperties DEF ReadInv, KVTypeOK
  <2>2. \A i \in 1 .. Len(prompt[l]) : fetched[l][i] = Pending
    BY <2>1 DEF KVInit, LookupInit, AllPending
  <2>3. /\ result[l] = <<>> /\ atStart[l] = <<>> /\ lpc[l] = "idle"
        /\ Len(<<>>) = 0 /\ 1 .. 0 = {}
    BY EmptySeq DEF KVInit, LookupInit
  <2> QED
    BY <2>1, <2>2, <2>3 DEF Standing
<1> QED
  BY <1>1, <1>2, <1>3 DEF BetweenInv

(* For prompts of any length and any number of lookups and writers, when   *)
(* no delete fails and no request is sent twice: until something is        *)
(* evicted, a lookup that fetches block after block while others write     *)
(* returns at least the chain there was when it started and at most the    *)
(* one there is now.                                                       *)
THEOREM LookupIsBetween ==
  ASSUME FreshGuids, FaultKinds \cap {"fail", "resend"} = {}, NotFound \notin Failures
  PROVE  KVSpec => []LookupBetween
<1>1. ASSUME BetweenInv
      PROVE  LookupBetween
  <2> SUFFICES ASSUME NEW l \in Lookups, lpc[l] = "found", NothingEvicted
               PROVE  /\ IsPrefix(atStart[l], result[l])
                      /\ IsPrefix(result[l], ChainNow(prompt[l]))
    BY DEF LookupBetween
  <2>1. Standing(l) /\ KVTypeOK /\ TypeOK /\ LookupTypeOK
    BY <1>1 DEF BetweenInv, ReadInv, KVTypeOK
  <2>2. /\ atStart[l] \in Seq(BlockLocations) /\ result[l] \in Seq(BlockLocations)
        /\ prompt[l] \in Seq(BlobNames) /\ Len(prompt[l]) \in Nat
        /\ Len(result[l]) \in Nat /\ Len(result[l]) <= Len(prompt[l])
    BY <2>1, LookupTypes, LenProperties DEF KVTypeOK
  <2>3. IsPrefix(atStart[l], result[l])
    BY <2>1, <2>2, PrefixOf DEF Standing
  <2> DEFINE now == ChainNow(prompt[l])
             mds == PromptMetadata(prompt[l])
  <2>4. /\ IsChain(prompt[l], mds, now)
        /\ Len(now) < Len(prompt[l]) => ~GoesOn(prompt[l], mds, now)
    BY <2>1, <2>2, MetadataNow, ChainIs DEF ChainNow, PromptMetadata
  <2>5. ASSUME NEW i \in 1 .. Len(result[l])
        PROVE  Fits(i, prompt[l][i], mds[i], result[l])
    <3>1. i \in 1 .. Len(prompt[l])
      BY <2>2
    <3>2. mds[i] = MetadataOf(prompt[l][i])
      BY <3>1 DEF PromptMetadata, MetadataOf
    <3> QED
      BY <2>1, <3>2 DEF Standing
  <2> HIDE DEF now, mds
  <2>6. now \in Seq(BlockLocations)
    BY <2>4 DEF IsChain
  <2>7. FitsBeside(prompt[l], mds, result[l], now)
    BY <2>2, <2>5 DEF FitsBeside
  <2>8. Begins(result[l], now)
    BY <2>2, <2>4, <2>7, LongestChain DEF Longest
  <2>9. IsPrefix(result[l], now)
    BY <2>2, <2>6, <2>8, PrefixOf
  <2> QED
    BY <2>3, <2>9 DEF now
<1>2. BetweenInv => LookupBetween
  BY <1>1
<1>3. BetweenInv /\ [KVNext]_kvVars => BetweenInv'
  BY BetweenKept
<1>4. KVInit => BetweenInv
  BY BetweenInit
<1> QED
  BY <1>2, <1>3, <1>4, PTL DEF KVSpec

=============================================================================
