--------------------------- MODULE Playground_proofs ---------------------------
(***************************************************************************)
(* Proofs about the runs of a conversation (Conversation) and the main     *)
(* that launches them (Playground).                                        *)
(***************************************************************************)
EXTENDS Playground, FiniteSetTheorems, SequenceTheorems, WellFoundedInduction,
        TLAPS

-----------------------------------------------------------------------------
(* Numbers.                                                                *)

Before == OpToRel(<, Nat)

LEMMA LeastOf ==
  ASSUME NEW T, T \subseteq Nat, T # {}
  PROVE  \E x \in T : \A y \in T : x <= y
<1>1. IsWellFoundedOn(Before, Nat)
  BY NatLessThanWellFounded DEF Before
<1>2. PICK x \in T : \A y \in T : <<y, x>> \notin Before
  BY <1>1, WFMin
<1>3. ASSUME NEW y \in T
      PROVE  x <= y
  <2>1. x \in Nat /\ y \in Nat
    OBVIOUS
  <2>2. y < x => <<y, x>> \in Before
    BY <2>1 DEF OpToRel, Before
  <2> QED
    BY <1>2, <2>1, <2>2
<1> QED
  BY <1>3

(* Sequences are joined in any order.                                      *)
LEMMA JoinedInAnyOrder ==
  \A s, t, u \in Seq(Tokens) : (s \o t) \o u = s \o (t \o u)
<1> SUFFICES ASSUME NEW s \in Seq(Tokens), NEW t \in Seq(Tokens),
                    NEW u \in Seq(Tokens)
             PROVE  (s \o t) \o u = s \o (t \o u)
  OBVIOUS
<1> QED
  BY ConcatAssociative

(* Division of a natural number by a positive one.                         *)
LEMMA Division ==
  ASSUME NEW a \in Nat, NEW b \in Nat \ {0}
  PROVE  /\ a \div b \in Nat /\ a % b \in 0 .. b - 1
         /\ a = b * (a \div b) + (a % b)
OBVIOUS

LEMMA Quotient ==
  ASSUME NEW a \in Nat, NEW b \in Nat \ {0}, NEW q \in Nat, NEW r \in 0 .. b - 1,
         a = b * q + r
  PROVE  a \div b = q /\ a % b = r
OBVIOUS

LEMMA Product ==
  ASSUME NEW a \in Nat, NEW b \in Nat
  PROVE  a * b \in Nat /\ a * b = b * a
OBVIOUS

LEMMA LargerProduct ==
  ASSUME NEW a \in Nat, NEW b \in Nat, NEW c \in Nat, a <= b
  PROVE  a * c <= b * c
OBVIOUS

(* The blocks that fit into n tokens.                                      *)
LEMMA BlocksOf ==
  ASSUME NEW n \in Nat
  PROVE  /\ n \div BlockSize \in Nat
         /\ (n \div BlockSize) * BlockSize \in 0 .. n
         /\ n - (n \div BlockSize) * BlockSize < BlockSize
<1>1. BlockSize \in Nat \ {0}
  BY SizesAssumption
<1>2. /\ n \div BlockSize \in Nat /\ n % BlockSize \in 0 .. BlockSize - 1
      /\ n = BlockSize * (n \div BlockSize) + (n % BlockSize)
  BY <1>1, Division
<1>3. /\ (n \div BlockSize) * BlockSize \in Nat
      /\ (n \div BlockSize) * BlockSize = BlockSize * (n \div BlockSize)
  BY <1>1, <1>2, Product
<1> QED
  BY <1>1, <1>2, <1>3

LEMMA BlocksOfMultiple ==
  ASSUME NEW k \in Nat
  PROVE  k * BlockSize \in Nat /\ (k * BlockSize) \div BlockSize = k
<1>1. BlockSize \in Nat \ {0}
  BY SizesAssumption
<1>2. k * BlockSize \in Nat /\ k * BlockSize = BlockSize * k
  BY <1>1, Product
<1>3. 0 \in 0 .. BlockSize - 1 /\ k * BlockSize = BlockSize * k + 0
  BY <1>1, <1>2
<1> QED
  BY <1>1, <1>2, <1>3, Quotient

(* The place of token j of block k.                                        *)
LEMMA Place ==
  ASSUME NEW m \in Nat, NEW k \in 1 .. m, NEW j \in 1 .. BlockSize
  PROVE  (k - 1) * BlockSize + j \in 1 .. m * BlockSize
<1>1. BlockSize \in Nat \ {0}
  BY SizesAssumption
<1>2. k - 1 \in Nat /\ (k - 1) * BlockSize \in Nat /\ k * BlockSize \in Nat
      /\ m * BlockSize \in Nat
  BY <1>1, Product
<1>3. (k - 1) * BlockSize = k * BlockSize - BlockSize
  BY <1>1
<1>4. k * BlockSize <= m * BlockSize
  BY <1>1, LargerProduct
<1> QED
  BY <1>1, <1>2, <1>3, <1>4

LEMMA PlaceOf ==
  ASSUME NEW m \in Nat, NEW i \in 1 .. m * BlockSize
  PROVE  /\ ((i - 1) \div BlockSize) + 1 \in 1 .. m
         /\ ((i - 1) % BlockSize) + 1 \in 1 .. BlockSize
         /\ ((i - 1) \div BlockSize) * BlockSize + ((i - 1) % BlockSize) + 1 = i
<1> DEFINE q == (i - 1) \div BlockSize
           p == (i - 1) % BlockSize
<1>1. BlockSize \in Nat \ {0} /\ i - 1 \in Nat
  <2>1. m * BlockSize \in Nat
    BY SizesAssumption, Product
  <2> QED
    BY <2>1, SizesAssumption
<1>2. q \in Nat /\ p \in 0 .. BlockSize - 1 /\ i - 1 = BlockSize * q + p
  BY <1>1, Division
<1> HIDE DEF q, p
<1>3. BlockSize * q = q * BlockSize /\ q * BlockSize \in Nat
      /\ m * BlockSize \in Nat
  BY <1>1, <1>2, Product
<1>4. q < m
  <2> SUFFICES ASSUME m <= q
               PROVE  FALSE
    BY <1>2
  <2>1. m * BlockSize <= q * BlockSize
    BY <1>1, <1>2, LargerProduct
  <2> QED
    BY <1>1, <1>2, <1>3, <2>1
<1>5. q + 1 \in 1 .. m /\ p + 1 \in 1 .. BlockSize /\ q * BlockSize + p + 1 = i
  BY <1>1, <1>2, <1>3, <1>4
<1> QED
  BY <1>5 DEF q, p

-----------------------------------------------------------------------------
(* Tokens and blocks.                                                      *)

LEMMA FullBlocksIs ==
  ASSUME NEW s \in Seq(Tokens)
  PROVE  /\ FullBlocks(s) \in Seq(Blocks)
         /\ Len(FullBlocks(s)) = Len(s) \div BlockSize
         /\ \A k \in 1 .. Len(FullBlocks(s)), j \in 1 .. BlockSize :
              /\ (k - 1) * BlockSize + j \in 1 .. Len(s)
              /\ FullBlocks(s)[k][j] = s[(k - 1) * BlockSize + j]
<1> DEFINE m == Len(s) \div BlockSize
<1>1. BlockSize \in Nat \ {0} /\ Len(s) \in Nat
  BY SizesAssumption
<1>2. m \in Nat /\ m * BlockSize \in 0 .. Len(s)
  BY <1>1, BlocksOf
<1> HIDE DEF m
<1>3. ASSUME NEW k \in 1 .. m
      PROVE  /\ (k - 1) * BlockSize \in Nat
             /\ k * BlockSize = (k - 1) * BlockSize + BlockSize
             /\ k * BlockSize <= Len(s)
  <2>1. k - 1 \in Nat /\ k \in Nat /\ k <= m
    BY <1>2
  <2>2. k * BlockSize <= m * BlockSize /\ k * BlockSize \in Nat
        /\ (k - 1) * BlockSize \in Nat
    BY <1>1, <1>2, <2>1, LargerProduct, Product
  <2>3. k * BlockSize = (k - 1) * BlockSize + BlockSize
    BY <1>1, <2>1
  <2> QED
    BY <1>2, <2>2, <2>3
<1>4. ASSUME NEW k \in 1 .. m
      PROVE  LET b == SubSeq(s, (k - 1) * BlockSize + 1, k * BlockSize)
             IN  /\ b \in Blocks
                 /\ \A j \in 1 .. BlockSize :
                      /\ (k - 1) * BlockSize + j \in 1 .. Len(s)
                      /\ b[j] = s[(k - 1) * BlockSize + j]
  <2> DEFINE a == (k - 1) * BlockSize
             b == SubSeq(s, a + 1, k * BlockSize)
  <2>1. a \in Nat /\ k * BlockSize = a + BlockSize /\ a + BlockSize <= Len(s)
    BY <1>1, <1>3
  <2> HIDE DEF a
  <2>2. \A i \in a + 1 .. a + BlockSize : s[i] \in Tokens
    BY <1>1, <2>1
  <2>3. /\ b \in Seq(Tokens) /\ Len(b) = BlockSize
        /\ \A j \in 1 .. BlockSize : b[j] = s[a + j]
    <3>1. b = SubSeq(s, a + 1, a + BlockSize)
      BY <2>1
    <3>2. /\ SubSeq(s, a + 1, a + BlockSize) \in Seq(Tokens)
          /\ Len(SubSeq(s, a + 1, a + BlockSize)) = BlockSize
          /\ \A j \in 1 .. BlockSize :
               SubSeq(s, a + 1, a + BlockSize)[j] = s[a + j]
      BY <1>1, <2>1, <2>2
    <3> QED
      BY <3>1, <3>2
  <2>4. b \in Blocks
    <3>1. b \in [1 .. Len(b) -> Tokens]
      BY <2>3, LenProperties, Zenon
    <3> QED
      BY <2>3, <3>1, Zenon DEF Blocks
  <2>5. \A j \in 1 .. BlockSize : a + j \in 1 .. Len(s)
    BY <1>1, <2>1
  <2> QED
    BY <2>3, <2>4, <2>5 DEF a
<1>5. FullBlocks(s) = [k \in 1 .. m |->
                         SubSeq(s, (k - 1) * BlockSize + 1, k * BlockSize)]
  BY DEF FullBlocks, m
<1> DEFINE F == FullBlocks(s)
<1>6. /\ \A k \in 1 .. m :
           F[k] = SubSeq(s, (k - 1) * BlockSize + 1, k * BlockSize)
      /\ F \in [1 .. m -> Blocks]
  BY <1>4, <1>5, Zenon
<1> HIDE DEF F
<1>7. F \in Seq(Blocks) /\ Len(F) = m
  BY <1>2, <1>6
<1>8. \A k \in 1 .. m, j \in 1 .. BlockSize :
        /\ (k - 1) * BlockSize + j \in 1 .. Len(s)
        /\ F[k][j] = s[(k - 1) * BlockSize + j]
  BY <1>4, <1>6, Zenon
<1> QED
  BY <1>7, <1>8 DEF F, m

LEMMA SameBlock ==
  ASSUME NEW b \in Blocks, NEW c \in Blocks,
         \A j \in 1 .. BlockSize : b[j] = c[j]
  PROVE  b = c
<1>1. /\ b = [j \in 1 .. BlockSize |-> b[j]]
      /\ c = [j \in 1 .. BlockSize |-> c[j]]
  BY Zenon DEF Blocks
<1>2. [j \in 1 .. BlockSize |-> b[j]] = [j \in 1 .. BlockSize |-> c[j]]
  BY Zenon
<1> QED
  BY <1>1, <1>2, Zenon

LEMMA ContentIs ==
  ASSUME NEW bs \in Seq(Blocks)
  PROVE  /\ Content(bs) \in Seq(Tokens)
         /\ Len(Content(bs)) = Len(bs) * BlockSize
         /\ Len(bs) * BlockSize \in Nat
         /\ \A k \in 1 .. Len(bs), j \in 1 .. BlockSize :
              /\ (k - 1) * BlockSize + j \in 1 .. Len(bs) * BlockSize
              /\ Content(bs)[(k - 1) * BlockSize + j] = bs[k][j]
<1> DEFINE m == Len(bs)
           C == Content(bs)
<1>1. BlockSize \in Nat \ {0} /\ m \in Nat
  BY SizesAssumption
<1>2. m * BlockSize \in Nat
  BY <1>1, Product
<1>3. \A k \in 1 .. m, j \in 1 .. BlockSize : bs[k][j] \in Tokens
  <2>1. \A k \in 1 .. m : bs[k] \in Blocks
    OBVIOUS
  <2> QED
    BY <2>1, Zenon DEF Blocks
<1>4. /\ C \in [1 .. m * BlockSize -> Tokens]
      /\ \A i \in 1 .. m * BlockSize :
           C[i] = bs[((i - 1) \div BlockSize) + 1][((i - 1) % BlockSize) + 1]
  <2>1. \A i \in 1 .. m * BlockSize :
          bs[((i - 1) \div BlockSize) + 1][((i - 1) % BlockSize) + 1] \in Tokens
    BY <1>1, <1>3, PlaceOf
  <2> QED
    BY <2>1, Zenon DEF Content
<1> HIDE DEF C, m
<1>5. C \in Seq(Tokens) /\ Len(C) = m * BlockSize
  BY <1>2, <1>4
<1>6. ASSUME NEW k \in 1 .. m, NEW j \in 1 .. BlockSize
      PROVE  /\ (k - 1) * BlockSize + j \in 1 .. m * BlockSize
             /\ C[(k - 1) * BlockSize + j] = bs[k][j]
  <2> DEFINE i == (k - 1) * BlockSize + j
  <2>1. i \in 1 .. m * BlockSize
    BY <1>1, Place
  <2>2. k - 1 \in Nat /\ (k - 1) * BlockSize \in Nat
        /\ (k - 1) * BlockSize = BlockSize * (k - 1)
    BY <1>1, Product
  <2>3. i - 1 = BlockSize * (k - 1) + (j - 1) /\ j - 1 \in 0 .. BlockSize - 1
        /\ i - 1 \in Nat
    BY <1>1, <2>2
  <2> HIDE DEF i
  <2>4. (i - 1) \div BlockSize = k - 1 /\ (i - 1) % BlockSize = j - 1
    BY <1>1, <2>2, <2>3, Quotient
  <2>5. (k - 1) + 1 = k /\ (j - 1) + 1 = j
    BY <1>1
  <2>6. C[i] = bs[k][j]
    BY <1>4, <2>1, <2>4, <2>5, Zenon
  <2> QED
    BY <2>1, <2>6 DEF i
<1> QED
  BY <1>2, <1>5, <1>6 DEF C, m

(* The full blocks and what is left over are the tokens.                   *)
LEMMA CutAndJoined ==
  ASSUME NEW s \in Seq(Tokens)
  PROVE  Content(FullBlocks(s))
           \o SubSeq(s, Len(FullBlocks(s)) * BlockSize + 1, Len(s)) = s
<1> DEFINE F == FullBlocks(s)
           C == Content(F)
           n == Len(F) * BlockSize
           R == SubSeq(s, n + 1, Len(s))
<1>1. /\ F \in Seq(Blocks) /\ Len(F) = Len(s) \div BlockSize
      /\ \A k \in 1 .. Len(F), j \in 1 .. BlockSize :
           F[k][j] = s[(k - 1) * BlockSize + j]
  BY FullBlocksIs
<1>2. Len(s) \in Nat /\ n \in 0 .. Len(s)
  BY <1>1, BlocksOf
<1> HIDE DEF F
<1>3. /\ C \in Seq(Tokens) /\ Len(C) = n
      /\ \A k \in 1 .. Len(F), j \in 1 .. BlockSize :
           C[(k - 1) * BlockSize + j] = F[k][j]
  BY <1>1, ContentIs
<1>4. ASSUME NEW i \in 1 .. n
      PROVE  C[i] = s[i]
  <2> DEFINE q == (i - 1) \div BlockSize
             p == (i - 1) % BlockSize
  <2>1. q + 1 \in 1 .. Len(F) /\ p + 1 \in 1 .. BlockSize
        /\ q * BlockSize + p + 1 = i
    BY <1>1, PlaceOf
  <2>2. Len(F) \in Nat /\ BlockSize \in Nat
    BY <1>1, SizesAssumption
  <2> HIDE DEF q, p
  <2>3. q \in Nat /\ (q + 1) - 1 = q /\ p \in Int /\ q * BlockSize \in Nat
    <3>1. q + 1 \in Nat
      BY <2>1, <2>2
    <3>2. q \in Int /\ p \in Int
      <4>1. i - 1 \in Nat /\ BlockSize \in Nat \ {0}
        BY <1>2, SizesAssumption
      <4> QED
        BY <4>1, Division DEF q, p
    <3>3. q \in Nat
      BY <2>1, <2>2, <3>2
    <3> QED
      BY <3>2, <3>3, <2>2, Product
  <2>4. ((q + 1) - 1) * BlockSize + (p + 1) = i
    BY <2>1, <2>3
  <2> QED
    BY <1>1, <1>3, <2>1, <2>4
<1> HIDE DEF C, n
<1>5. /\ R \in Seq(Tokens) /\ Len(R) = Len(s) - n
      /\ \A i \in 1 .. Len(s) - n : R[i] = s[n + i]
  BY <1>2
<1> HIDE DEF R
<1> DEFINE J == C \o R
<1>6. /\ J \in Seq(Tokens) /\ Len(J) = Len(s)
      /\ \A i \in 1 .. Len(s) : J[i] = IF i <= n THEN C[i] ELSE R[i - n]
  <2>1. /\ J \in Seq(Tokens) /\ Len(J) = Len(C) + Len(R)
        /\ \A i \in 1 .. Len(C) + Len(R) :
             J[i] = IF i <= Len(C) THEN C[i] ELSE R[i - Len(C)]
    BY <1>3, <1>5, ConcatProperties
  <2> QED
    BY <1>2, <1>3, <1>5, <2>1
<1> HIDE DEF J
<1>7. \A i \in 1 .. Len(s) : J[i] = s[i]
  <2> TAKE i \in 1 .. Len(s)
  <2>1. CASE i <= n
    BY <1>2, <1>4, <1>6, <2>1
  <2>2. CASE ~(i <= n)
    <3>1. i - n \in 1 .. Len(s) - n /\ n + (i - n) = i
      BY <1>2, <2>2
    <3> QED
      BY <1>5, <1>6, <2>2, <3>1
  <2> QED
    BY <2>1, <2>2
<1>8. J = s
  BY <1>6, <1>7, SeqEqual
<1> QED
  BY <1>8 DEF J, C, R, n, F

(* The blocks of a sequence, after those of one it begins with.            *)
Begins(w, s) == Len(w) <= Len(s) /\ \A i \in 1 .. Len(w) : w[i] = s[i]

LEMMA BlocksOfBeginning ==
  ASSUME NEW w \in Seq(Tokens), NEW s \in Seq(Tokens), Begins(w, s)
  PROVE  /\ Len(FullBlocks(w)) <= Len(FullBlocks(s))
         /\ \A k \in 1 .. Len(FullBlocks(w)) : FullBlocks(w)[k] = FullBlocks(s)[k]
<1> DEFINE F == FullBlocks(w)
           G == FullBlocks(s)
<1>1. /\ F \in Seq(Blocks) /\ Len(F) = Len(w) \div BlockSize
      /\ \A k \in 1 .. Len(F), j \in 1 .. BlockSize :
           /\ (k - 1) * BlockSize + j \in 1 .. Len(w)
           /\ F[k][j] = w[(k - 1) * BlockSize + j]
  BY FullBlocksIs
<1>2. /\ G \in Seq(Blocks) /\ Len(G) = Len(s) \div BlockSize
      /\ \A k \in 1 .. Len(G), j \in 1 .. BlockSize :
           G[k][j] = s[(k - 1) * BlockSize + j]
  BY FullBlocksIs
<1>3. Len(F) <= Len(G)
  <2> DEFINE a == Len(w)
             b == Len(s)
             p == a \div BlockSize
             q == b \div BlockSize
  <2>1. a \in Nat /\ b \in Nat /\ a <= b /\ BlockSize \in Nat \ {0}
    BY SizesAssumption DEF Begins
  <2>2. /\ p \in Nat /\ p * BlockSize \in 0 .. a
        /\ q \in Nat /\ q * BlockSize \in 0 .. b
        /\ b - q * BlockSize < BlockSize
    BY <2>1, BlocksOf
  <2> HIDE DEF a, b, p, q
  <2>3. p <= q
    <3> SUFFICES ASSUME q + 1 <= p
                 PROVE  FALSE
      BY <2>2
    <3>1. (q + 1) * BlockSize <= p * BlockSize
      BY <2>1, <2>2, LargerProduct
    <3>2. (q + 1) * BlockSize = q * BlockSize + BlockSize
      BY <2>1, <2>2
    <3> QED
      BY <2>1, <2>2, <3>1, <3>2
  <2> QED
    BY <1>1, <1>2, <2>3 DEF a, b, p, q
<1> HIDE DEF F, G
<1>4. ASSUME NEW k \in 1 .. Len(F)
      PROVE  F[k] = G[k]
  <2>1. k \in 1 .. Len(G)
    BY <1>1, <1>2, <1>3
  <2>2. F[k] \in Blocks /\ G[k] \in Blocks
    BY <1>1, <1>2, <2>1
  <2>3. \A j \in 1 .. BlockSize : F[k][j] = G[k][j]
    BY <1>1, <1>2, <2>1 DEF Begins
  <2> QED
    BY <2>2, <2>3, SameBlock
<1> QED
  BY <1>3, <1>4 DEF F, G

(* Blocks that are appended to a sequence of whole blocks.                 *)
Whole(s) == Len(s) = Len(FullBlocks(s)) * BlockSize

LEMMA AppendedBlocks ==
  ASSUME NEW w \in Seq(Tokens), NEW bs \in Seq(Blocks), Whole(w)
  PROVE  LET v == w \o Content(bs)
         IN  /\ v \in Seq(Tokens) /\ Whole(v)
             /\ Len(FullBlocks(v)) = Len(FullBlocks(w)) + Len(bs)
             /\ \A k \in 1 .. Len(FullBlocks(w)) :
                  FullBlocks(v)[k] = FullBlocks(w)[k]
             /\ \A i \in 1 .. Len(bs) :
                  FullBlocks(v)[Len(FullBlocks(w)) + i] = bs[i]
<1> DEFINE C == Content(bs)
           v == w \o C
           F == FullBlocks(w)
           V == FullBlocks(v)
           m == Len(F)
           n == Len(bs)
<1>1. BlockSize \in Nat \ {0} /\ n \in Nat /\ Len(w) \in Nat
  BY SizesAssumption
<1>2. F \in Seq(Blocks) /\ m \in Nat /\ Len(w) = m * BlockSize
  BY FullBlocksIs DEF Whole
<1>3. /\ C \in Seq(Tokens) /\ Len(C) = n * BlockSize /\ n * BlockSize \in Nat
      /\ \A k \in 1 .. n, j \in 1 .. BlockSize :
           /\ (k - 1) * BlockSize + j \in 1 .. n * BlockSize
           /\ C[(k - 1) * BlockSize + j] = bs[k][j]
  BY ContentIs
<1> HIDE DEF C
<1>4. /\ v \in Seq(Tokens) /\ Len(v) = Len(w) + Len(C)
      /\ \A i \in 1 .. Len(w) + Len(C) :
           v[i] = IF i <= Len(w) THEN w[i] ELSE C[i - Len(w)]
  BY <1>3, ConcatProperties
<1> HIDE DEF v
<1>5. /\ V \in Seq(Blocks) /\ Len(V) = Len(v) \div BlockSize
      /\ \A k \in 1 .. Len(V), j \in 1 .. BlockSize :
           V[k][j] = v[(k - 1) * BlockSize + j]
  BY <1>4, FullBlocksIs
<1>6. Len(v) = (m + n) * BlockSize /\ (m + n) * BlockSize \in Nat
  <2>1. (m + n) * BlockSize = m * BlockSize + n * BlockSize
    BY <1>1, <1>2
  <2> QED
    BY <1>1, <1>2, <1>3, <1>4, <2>1
<1>7. Len(V) = m + n
  <2>1. ((m + n) * BlockSize) \div BlockSize = m + n
    BY <1>1, <1>2, BlocksOfMultiple
  <2> QED
    BY <1>5, <1>6, <2>1
<1>8. Begins(w, v)
  BY <1>1, <1>3, <1>4 DEF Begins
<1>9. \A k \in 1 .. m : V[k] = F[k]
  BY <1>4, <1>8, BlocksOfBeginning
<1> HIDE DEF V, F, m
<1>10. ASSUME NEW i \in 1 .. n
       PROVE  V[m + i] = bs[i]
  <2>1. m + i \in 1 .. Len(V)
    BY <1>1, <1>2, <1>7
  <2>2. V[m + i] \in Blocks /\ bs[i] \in Blocks
    BY <1>5, <2>1
  <2>3. ASSUME NEW j \in 1 .. BlockSize
        PROVE  V[m + i][j] = bs[i][j]
    <3>1. V[m + i][j] = v[((m + i) - 1) * BlockSize + j]
      BY <1>5, <2>1
    <3>2. ((m + i) - 1) * BlockSize = Len(w) + (i - 1) * BlockSize
      BY <1>1, <1>2
    <3>3. /\ (i - 1) * BlockSize + j \in 1 .. Len(C)
          /\ C[(i - 1) * BlockSize + j] = bs[i][j]
      BY <1>3
    <3>4. (i - 1) * BlockSize \in Nat
      BY <1>1, Product
    <3>5. v[Len(w) + ((i - 1) * BlockSize + j)] = C[(i - 1) * BlockSize + j]
      <4> DEFINE a == (i - 1) * BlockSize + j
      <4>1. a \in 1 .. Len(C) /\ Len(C) \in Nat
        BY <1>3, <3>3
      <4> HIDE DEF a
      <4>2. v[Len(w) + a] = C[a]
        BY SMTT(20), <1>1, <1>4, <4>1
      <4> QED
        BY <4>2 DEF a
    <3>6. ((m + i) - 1) * BlockSize + j = Len(w) + ((i - 1) * BlockSize + j)
      BY <1>1, <3>2, <3>4
    <3> QED
      BY <3>1, <3>3, <3>5, <3>6
  <2> QED
    BY <2>2, <2>3, SameBlock
<1>11. Whole(v)
  BY <1>6, <1>7 DEF Whole, V
<1> QED
  BY <1>4, <1>7, <1>9, <1>10, <1>11 DEF V, F, m, v, C

-----------------------------------------------------------------------------
(* The buffer.                                                             *)

Buffers ==
  [completedBlocks : Seq(Blocks), currentBlock : Seq(Tokens), processed : Nat,
   lastWrittenHash : Blocks \cup {NoParent}, allWrittenTokens : Seq(Tokens)]

Futures == [version : Versions, state : {"pending", "stored", "failed"}]

All(b, tokens) == b.currentBlock \o tokens

LEMMA AddTokens ==
  ASSUME NEW b \in Buffers, NEW new \in Seq(Tokens)
  PROVE  LET c == addTokens(b, new)
         IN  /\ c \in Buffers /\ All(b, new) \in Seq(Tokens)
             /\ c.completedBlocks = b.completedBlocks \o FullBlocks(All(b, new))
             /\ c.currentBlock = SubSeq(All(b, new),
                  Len(FullBlocks(All(b, new))) * BlockSize + 1, Len(All(b, new)))
             /\ Len(c.currentBlock) < BlockSize
             /\ c.processed = b.processed + Len(new)
             /\ c.lastWrittenHash = b.lastWrittenHash
             /\ c.allWrittenTokens = b.allWrittenTokens
<1> DEFINE a == All(b, new)
           F == FullBlocks(a)
           R == SubSeq(a, Len(F) * BlockSize + 1, Len(a))
<1>1. /\ b.completedBlocks \in Seq(Blocks) /\ b.currentBlock \in Seq(Tokens)
      /\ b.processed \in Nat /\ b.allWrittenTokens \in Seq(Tokens)
      /\ b.lastWrittenHash \in Blocks \cup {NoParent}
  BY DEF Buffers
<1>2. a \in Seq(Tokens)
  BY <1>1, ConcatProperties DEF All
<1>3. F \in Seq(Blocks) /\ Len(F) = Len(a) \div BlockSize
  BY <1>2, FullBlocksIs
<1>4. /\ Len(F) * BlockSize \in 0 .. Len(a)
      /\ Len(a) - Len(F) * BlockSize < BlockSize /\ Len(a) \in Nat
  <2>1. Len(a) \in Nat
    BY <1>2
  <2> QED
    BY <1>3, <2>1, BlocksOf
<1>5. addTokens(b, new) =
        [b EXCEPT !.completedBlocks = @ \o F, !.currentBlock = R,
                  !.processed = @ + Len(new)]
  BY DEF addTokens, CutsBlocks, All
<1>6. R \in Seq(Tokens) /\ Len(R) < BlockSize
  <2> HIDE DEF a, F
  <2> DEFINE n == Len(F) * BlockSize
  <2>1. n \in 0 .. Len(a) /\ Len(a) - n < BlockSize
    BY <1>4
  <2> HIDE DEF n
  <2>2. SubSeq(a, n + 1, Len(a)) \in Seq(Tokens)
    BY <1>2, <1>4, <2>1
  <2>3. Len(SubSeq(a, n + 1, Len(a))) = Len(a) - n
    BY <1>2, <1>4, <2>1
  <2> QED
    BY <1>4, <2>1, <2>2, <2>3 DEF n
<1>7. b.completedBlocks \o F \in Seq(Blocks)
  BY <1>1, <1>3, ConcatProperties
<1>8. Len(new) \in Nat
  OBVIOUS
<1> HIDE DEF a, F, R
<1>9. addTokens(b, new) \in Buffers
  <2>1. addTokens(b, new) =
          [completedBlocks |-> b.completedBlocks \o F, currentBlock |-> R,
           processed |-> b.processed + Len(new),
           lastWrittenHash |-> b.lastWrittenHash,
           allWrittenTokens |-> b.allWrittenTokens]
    BY <1>5 DEF Buffers
  <2>2. b.processed + Len(new) \in Nat
    BY <1>1, <1>8
  <2> QED
    BY <1>1, <1>6, <1>7, <2>1, <2>2 DEF Buffers
<1>10. /\ addTokens(b, new).completedBlocks = b.completedBlocks \o F
       /\ addTokens(b, new).currentBlock = R
       /\ addTokens(b, new).processed = b.processed + Len(new)
       /\ addTokens(b, new).lastWrittenHash = b.lastWrittenHash
       /\ addTokens(b, new).allWrittenTokens = b.allWrittenTokens
  BY <1>5 DEF Buffers
<1> QED
  BY <1>2, <1>6, <1>9, <1>10 DEF a, F, R

LEMMA LaunchedIs ==
  ASSUME NEW b \in Buffers
  PROVE  /\ Launched(b) \in Seq(Futures)
         /\ Len(Launched(b)) = Len(b.completedBlocks)
         /\ \A i \in 1 .. Len(b.completedBlocks) :
              /\ Launched(b)[i].version.block = b.completedBlocks[i]
              /\ Launched(b)[i].version.parent = parentHash(b, i)
              /\ Launched(b)[i].state = "pending"
<1> DEFINE m == Len(b.completedBlocks)
           f(i) == [version |-> [block  |-> b.completedBlocks[i],
                                 parent |-> parentHash(b, i)],
                    state   |-> "pending"]
           L == Launched(b)
<1>1. /\ b.completedBlocks \in Seq(Blocks) /\ m \in Nat
      /\ b.lastWrittenHash \in Blocks \cup {NoParent}
  BY DEF Buffers
<1>2. ASSUME NEW i \in 1 .. m
      PROVE  f(i) \in Futures
  <2>1. b.completedBlocks[i] \in Blocks
    BY <1>1
  <2>2. parentHash(b, i) \in Blocks \cup {NoParent}
    <3>1. CASE i = 1
      BY <1>1, <3>1 DEF parentHash
    <3>2. CASE i # 1
      <4>1. i - 1 \in 1 .. m
        BY <1>1, <3>2
      <4> QED
        BY <1>1, <3>2, <4>1 DEF parentHash
    <3> QED
      BY <3>1, <3>2
  <2> QED
    BY <2>1, <2>2 DEF Futures, Versions
<1>3. L \in [1 .. m -> Futures] /\ \A i \in 1 .. m : L[i] = f(i)
  BY <1>2, Zenon DEF Launched
<1> HIDE DEF L, m
<1>4. L \in Seq(Futures) /\ Len(L) = m
  BY <1>1, <1>3
<1>5. ASSUME NEW i \in 1 .. m
      PROVE  /\ L[i].version.block = b.completedBlocks[i]
             /\ L[i].version.parent = parentHash(b, i)
             /\ L[i].state = "pending"
  <2>1. L[i] = f(i)
    BY <1>3
  <2> QED
    BY <2>1
<1> QED
  BY <1>4, <1>5 DEF L, m

LEMMA FlushingIs ==
  ASSUME NEW b \in Buffers, b.completedBlocks # <<>>
  PROVE  LET c == Flushing(b)
         IN  /\ c \in Buffers
             /\ c.completedBlocks = b.completedBlocks
             /\ c.currentBlock = b.currentBlock
             /\ c.processed = b.processed
             /\ c.lastWrittenHash = b.completedBlocks[Len(b.completedBlocks)]
             /\ c.allWrittenTokens
                  = b.allWrittenTokens \o Content(b.completedBlocks)
             /\ c.allWrittenTokens # <<>>
<1> DEFINE l == b.completedBlocks[Len(b.completedBlocks)]
           w == b.allWrittenTokens \o Content(b.completedBlocks)
<1>1. /\ b.completedBlocks \in Seq(Blocks) /\ b.currentBlock \in Seq(Tokens)
      /\ b.processed \in Nat /\ b.allWrittenTokens \in Seq(Tokens)
      /\ b.lastWrittenHash \in Blocks \cup {NoParent}
  BY DEF Buffers
<1>2. l \in Blocks /\ Len(b.completedBlocks) \in Nat \ {0}
  BY <1>1
<1>3. /\ Content(b.completedBlocks) \in Seq(Tokens)
      /\ Len(Content(b.completedBlocks)) = Len(b.completedBlocks) * BlockSize
  BY <1>1, ContentIs
<1>4. Len(b.completedBlocks) * BlockSize > 0
  BY <1>2, SizesAssumption
<1>5. w \in Seq(Tokens) /\ w # <<>>
  <2>1. w \in Seq(Tokens)
        /\ Len(w) = Len(b.allWrittenTokens) + Len(Content(b.completedBlocks))
    BY <1>1, <1>3, ConcatProperties
  <2>2. Len(b.allWrittenTokens) \in Nat /\ Len(Content(b.completedBlocks)) > 0
        /\ Len(Content(b.completedBlocks)) \in Nat
    BY <1>1, <1>3, <1>4
  <2> DEFINE p == Len(b.allWrittenTokens)
             q == Len(Content(b.completedBlocks))
  <2>3. p \in Nat /\ q \in Nat /\ q > 0
    BY <2>2
  <2>4. Len(w) = p + q
    BY <2>1
  <2> HIDE DEF w, p, q
  <2>5. Len(w) # 0
    BY <2>3, <2>4
  <2>6. Len(<<>>) = 0
    OBVIOUS
  <2>7. w # <<>>
    BY <2>5, <2>6, Zenon
  <2> QED
    BY <2>1, <2>7, Zenon
<1>6. Flushing(b) = [b EXCEPT !.allWrittenTokens = w, !.lastWrittenHash = l]
  BY DEF Flushing
<1> HIDE DEF w, l
<1> QED
  BY <1>1, <1>2, <1>5, <1>6 DEF Buffers, w, l

-----------------------------------------------------------------------------
(* How much of a chain a lookup finds.                                     *)

LEMMA CachedBlocksIs ==
  ASSUME NEW c, NEW bs \in Seq(Blocks)
  PROVE  /\ CachedBlocks(c, bs) \in 0 .. Len(bs)
         /\ \A i \in 1 .. CachedBlocks(c, bs) : Linked(c, bs, i)
         /\ CachedBlocks(c, bs) < Len(bs) => ~Linked(c, bs, CachedBlocks(c, bs) + 1)
<1> DEFINE m == Len(bs)
           T == {n \in 0 .. m : n = m \/ ~Linked(c, bs, n + 1)}
           Right(n) == /\ \A i \in 1 .. n : Linked(c, bs, i)
                       /\ n < m => ~Linked(c, bs, n + 1)
<1>1. m \in Nat
  OBVIOUS
<1> HIDE DEF m
<1>2. T \subseteq Nat /\ T # {}
  <2>1. m \in T
    BY <1>1
  <2> QED
    BY SMTT(20), <1>1, <2>1
<1>3. PICK n \in T : \A k \in T : n <= k
  BY <1>2, LeastOf
<1>4. n \in 0 .. m /\ (n = m \/ ~Linked(c, bs, n + 1))
  BY <1>3
<1>5. ASSUME NEW i \in 1 .. n
      PROVE  Linked(c, bs, i)
  <2>1. i - 1 \in 0 .. m /\ i - 1 < n /\ (i - 1) + 1 = i
    BY <1>1, <1>4
  <2>2. i - 1 \notin T
    <3> SUFFICES ASSUME i - 1 \in T
                 PROVE  FALSE
      OBVIOUS
    <3>1. n <= i - 1
      BY <1>3
    <3> QED
      BY <1>1, <1>4, <2>1, <3>1
  <2> QED
    BY <2>1, <2>2
<1>6. Right(n)
  BY <1>1, <1>4, <1>5
<1>7. CachedBlocks(c, bs) = CHOOSE k \in 0 .. m : Right(k)
  BY DEF CachedBlocks, m
<1> HIDE DEF Right
<1>8. CachedBlocks(c, bs) \in 0 .. m /\ Right(CachedBlocks(c, bs))
  BY <1>4, <1>6, <1>7, Zenon
<1> QED
  BY <1>8 DEF Right, m

LEMMA AllCached ==
  ASSUME NEW c, NEW bs \in Seq(Blocks), NEW n \in 0 .. Len(bs),
         \A i \in 1 .. n : Linked(c, bs, i)
  PROVE  CachedBlocks(c, bs) >= n
<1>1. /\ CachedBlocks(c, bs) \in 0 .. Len(bs)
      /\ CachedBlocks(c, bs) < Len(bs) => ~Linked(c, bs, CachedBlocks(c, bs) + 1)
  BY CachedBlocksIs
<1>2. Len(bs) \in Nat
  OBVIOUS
<1> DEFINE d == CachedBlocks(c, bs)
<1> HIDE DEF d
<1>3. d \in 0 .. Len(bs) /\ (d < Len(bs) => ~Linked(c, bs, d + 1))
  BY <1>1 DEF d
<1>4. ~(d < n)
  <2> SUFFICES ASSUME d < n
               PROVE  FALSE
    OBVIOUS
  <2>1. d + 1 \in 1 .. n /\ d < Len(bs)
    BY <1>2, <1>3
  <2> QED
    BY <1>3, <2>1
<1> QED
  BY <1>2, <1>3, <1>4 DEF d

-----------------------------------------------------------------------------
(* The type invariant of a run.                                            *)

Places == {"turn", "validating", "prompt", "checking", "adding",
           "flushingPrompt", "agent", "flushingAgent", "done"}

TypeInv ==
  /\ first \subseteq published /\ published \subseteq Versions
  /\ pc \in [Runs -> Places]
  /\ turn \in [Runs -> 0 .. Len(PromptLengths)]
  /\ conversation \in [Runs -> Seq(Tokens)]
  /\ buffer \in [Runs -> Buffers]
  /\ futures \in [Runs -> Seq(Futures)]
  /\ atLeast \in [Runs -> Nat] /\ missing \in [Runs -> Nat]
  /\ failures \in 0 .. MaxFailures /\ failed \subseteq Runs
  /\ \A r \in Runs : Len(buffer[r].currentBlock) < BlockSize
  /\ \A r \in Runs : pc[r] \notin {"turn", "done"} => turn[r] # 0

(* A version that is evicted changes nothing else.                         *)
core == <<first, published, pc, turn, conversation, buffer, futures, atLeast,
          missing, failures, failed>>

LEMMA Steps ==
  ASSUME [Next]_vars
  PROVE  \/ UNCHANGED core
         \/ \E r \in Runs :
              \/ runConversation(r)
              \/ \E i \in DOMAIN futures[r] : WriteEnds(r, i)
<1>1. CASE UNCHANGED vars
  BY <1>1 DEF vars, store, core
<1>2. ASSUME NEW r \in Runs, NEW i \in DOMAIN futures[r], Evict(r, i)
      PROVE  UNCHANGED core
  BY <1>2 DEF Evict, core
<1> QED
  BY <1>1, <1>2 DEF Next

LEMMA BufferType ==
  ASSUME TypeInv, NEW r \in Runs
  PROVE  /\ buffer[r] \in Buffers
         /\ buffer[r].completedBlocks \in Seq(Blocks)
         /\ buffer[r].currentBlock \in Seq(Tokens)
         /\ buffer[r].processed \in Nat
         /\ buffer[r].lastWrittenHash \in Blocks \cup {NoParent}
         /\ buffer[r].allWrittenTokens \in Seq(Tokens)
         /\ writtenBlocks(r) \in Seq(Blocks)
         /\ lookupBlocks(r) \in Seq(Blocks)
         /\ conversation[r] \in Seq(Tokens)
         /\ futures[r] \in Seq(Futures)
         /\ atLeast[r] \in Nat
<1>1. buffer[r] \in Buffers /\ conversation[r] \in Seq(Tokens)
      /\ futures[r] \in Seq(Futures) /\ atLeast[r] \in Nat
  BY DEF TypeInv
<1>2. /\ buffer[r].completedBlocks \in Seq(Blocks)
      /\ buffer[r].currentBlock \in Seq(Tokens)
      /\ buffer[r].processed \in Nat
      /\ buffer[r].lastWrittenHash \in Blocks \cup {NoParent}
      /\ buffer[r].allWrittenTokens \in Seq(Tokens)
  BY <1>1 DEF Buffers
<1>3. /\ writtenBlocks(r) \in Seq(Blocks)
      /\ lookupBlocks(r) \in Seq(Blocks)
  BY <1>1, <1>2, FullBlocksIs DEF writtenBlocks, lookupBlocks
<1> QED
  BY <1>1, <1>2, <1>3

LEMMA PromptIs ==
  ASSUME NEW t \in 1 .. Len(PromptLengths)
  PROVE  /\ PromptTokens(t) \in Seq(Tokens)
         /\ PromptLengths[t] \in Nat
         /\ Len(PromptTokens(t)) = PromptLengths[t]
         /\ \A i \in 1 .. PromptLengths[t] : PromptTokens(t)[i] = <<0, t, i>>
<1>1. PromptLengths[t] \in Nat
  BY SizesAssumption
<1>2. ASSUME NEW i \in 1 .. PromptLengths[t]
      PROVE  <<0, t, i>> \in Tokens
  <2> DEFINE P(u) == {<<0, u, j>> : j \in 1 .. PromptLengths[u]}
             Ps == {P(u) : u \in 1 .. Len(PromptLengths)}
  <2>1. <<0, t, i>> \in P(t)
    BY Zenon
  <2>2. P(t) \in Ps
    BY Zenon
  <2>3. UNION Ps \subseteq Tokens
    BY Zenon DEF Tokens
  <2> HIDE DEF P, Ps
  <2> QED
    BY <2>1, <2>2, <2>3, Zenon
<1>3. /\ PromptTokens(t) \in [1 .. PromptLengths[t] -> Tokens]
      /\ \A i \in 1 .. PromptLengths[t] : PromptTokens(t)[i] = <<0, t, i>>
  BY <1>2, Zenon DEF PromptTokens
<1> QED
  BY <1>1, <1>3

LEMMA AgentIs ==
  ASSUME NEW r \in Runs, NEW t \in 1 .. Len(PromptLengths)
  PROVE  /\ AgentTokens(r, t) \in Seq(Tokens)
         /\ Len(AgentTokens(r, t)) = AgentLength
         /\ \A i \in 1 .. AgentLength : AgentTokens(r, t)[i] = <<r, t, i>>
<1>1. AgentLength \in Nat
  BY SizesAssumption
<1>2. ASSUME NEW i \in 1 .. AgentLength
      PROVE  <<r, t, i>> \in Tokens
  <2> DEFINE Own == Runs \X (1 .. Len(PromptLengths)) \X (1 .. AgentLength)
             Shared == UNION {{<<0, u, j>> : j \in 1 .. PromptLengths[u]} :
                                u \in 1 .. Len(PromptLengths)}
  <2>1. <<r, t, i>> \in Own
    OBVIOUS
  <2>2. Tokens = Shared \cup Own
    BY Zenon DEF Tokens
  <2> HIDE DEF Own, Shared
  <2> QED
    BY <2>1, <2>2
<1>3. /\ AgentTokens(r, t) \in [1 .. AgentLength -> Tokens]
      /\ \A i \in 1 .. AgentLength : AgentTokens(r, t)[i] = <<r, t, i>>
  BY <1>2, Zenon DEF AgentTokens
<1> QED
  BY <1>1, <1>3

(* What a lookup of n blocks puts into the buffer.                         *)
LEMMA CachedIs ==
  ASSUME TypeInv, NEW r \in Runs, NEW n \in 1 .. Len(lookupBlocks(r))
  PROVE  LET c == Cached(r, n)
             w == SubSeq(conversation[r], 1, n * BlockSize)
         IN  /\ c \in Buffers
             /\ n * BlockSize \in 1 .. Len(conversation[r])
             /\ w \in Seq(Tokens) /\ Len(w) = n * BlockSize
             /\ Begins(w, conversation[r])
             /\ c.completedBlocks = buffer[r].completedBlocks
             /\ c.currentBlock = buffer[r].currentBlock
             /\ c.processed = n * BlockSize
             /\ c.lastWrittenHash = lookupBlocks(r)[n]
             /\ c.allWrittenTokens = buffer[r].allWrittenTokens \o w
<1> DEFINE s == conversation[r]
           w == SubSeq(s, 1, n * BlockSize)
           v == buffer[r].allWrittenTokens \o w
           l == lookupBlocks(r)[n]
<1>1. /\ buffer[r] \in Buffers /\ s \in Seq(Tokens)
      /\ buffer[r].allWrittenTokens \in Seq(Tokens)
      /\ lookupBlocks(r) \in Seq(Blocks)
  BY BufferType
<1>2. Len(lookupBlocks(r)) = Len(s) \div BlockSize
  BY <1>1, FullBlocksIs DEF lookupBlocks
<1>3. n * BlockSize \in 1 .. Len(s)
  <2> DEFINE m == Len(s) \div BlockSize
  <2>1. m \in Nat /\ m * BlockSize \in 0 .. Len(s) /\ Len(s) \in Nat
    <3>1. Len(s) \in Nat
      BY <1>1
    <3> QED
      BY <3>1, BlocksOf
  <2> HIDE DEF m, s
  <2>2. n \in 1 .. m
    BY <1>2 DEF m
  <2>3. n * BlockSize <= m * BlockSize /\ 1 * BlockSize <= n * BlockSize
        /\ n * BlockSize \in Nat /\ BlockSize \in Nat \ {0}
    BY <2>1, <2>2, LargerProduct, Product, SizesAssumption
  <2> QED
    BY <2>1, <2>3
<1>4. l \in Blocks
  BY <1>1
<1> HIDE DEF s, l
<1>5. /\ w \in Seq(Tokens) /\ Len(w) = n * BlockSize
      /\ \A i \in 1 .. n * BlockSize : w[i] = s[i]
  <2> DEFINE p == n * BlockSize
  <2>1. p \in 1 .. Len(s) /\ Len(s) \in Nat
    BY <1>1, <1>3
  <2> HIDE DEF p
  <2>2. /\ SubSeq(s, 1, p) \in Seq(Tokens) /\ Len(SubSeq(s, 1, p)) = p
        /\ \A i \in 1 .. p : SubSeq(s, 1, p)[i] = s[i]
    BY <1>1, <2>1
  <2> QED
    BY <2>2 DEF p
<1>6. Begins(w, s)
  BY <1>1, <1>3, <1>5 DEF Begins
<1>7. v \in Seq(Tokens)
  BY <1>1, <1>5, ConcatProperties
<1>8. Cached(r, n) = [buffer[r] EXCEPT !.processed = n * BlockSize,
                                       !.allWrittenTokens = v,
                                       !.lastWrittenHash = l]
  BY DEF Cached, v, w, s, l
<1> HIDE DEF v, w
<1>9. n * BlockSize \in Nat
  BY <1>1, <1>3
<1>10. Cached(r, n) \in Buffers
  BY <1>1, <1>4, <1>7, <1>8, <1>9 DEF Buffers
<1>11. /\ Cached(r, n).completedBlocks = buffer[r].completedBlocks
       /\ Cached(r, n).currentBlock = buffer[r].currentBlock
       /\ Cached(r, n).processed = n * BlockSize
       /\ Cached(r, n).lastWrittenHash = l
       /\ Cached(r, n).allWrittenTokens = v
  BY <1>1, <1>8 DEF Buffers
<1> QED
  BY <1>3, <1>5, <1>6, <1>10, <1>11 DEF v, w, s, l

(* A flush, in its two cases.                                              *)
NewTokens(r, tokens) == SubSeq(tokens, buffer[r].processed + 1, Len(tokens))
Filled(r, tokens) == addTokens(buffer[r], NewTokens(r, tokens))

Flushes(r, tokens) ==
  NewTokens(r, tokens) # <<>> /\ Filled(r, tokens).completedBlocks # <<>>

LEMMA NewTokensType ==
  ASSUME TypeInv, NEW r \in Runs, NEW tokens \in Seq(Tokens)
  PROVE  /\ NewTokens(r, tokens) \in Seq(Tokens)
         /\ Filled(r, tokens) \in Buffers
         /\ Len(Filled(r, tokens).currentBlock) < BlockSize
<1>1. buffer[r] \in Buffers /\ buffer[r].processed \in Nat
  BY BufferType
<1>2. NewTokens(r, tokens) \in Seq(Tokens)
  BY <1>1 DEF NewTokens
<1> QED
  BY <1>1, <1>2, AddTokens DEF Filled

LEMMA FlushCases ==
  ASSUME TypeInv, NEW r \in Runs, NEW tokens \in Seq(Tokens), NEW p, NEW q,
         AddAndFlush(r, tokens, p, q)
  PROVE  \/ /\ Flushes(r, tokens)
            /\ buffer' = [buffer EXCEPT ![r] = Flushing(Filled(r, tokens))]
            /\ futures' = [futures EXCEPT ![r] = Launched(Filled(r, tokens))]
            /\ pc' = [pc EXCEPT ![r] = p]
         \/ /\ ~Flushes(r, tokens)
            /\ buffer' = [buffer EXCEPT ![r] = Filled(r, tokens)]
            /\ futures' = [futures EXCEPT ![r] = <<>>]
            /\ pc' = [pc EXCEPT ![r] = q]
<1>1. /\ buffer' = [buffer EXCEPT ![r] = IF Flushes(r, tokens)
                                         THEN Flushing(Filled(r, tokens))
                                         ELSE Filled(r, tokens)]
      /\ futures' = [futures EXCEPT ![r] = IF Flushes(r, tokens)
                                           THEN Launched(Filled(r, tokens))
                                           ELSE <<>>]
      /\ pc' = [pc EXCEPT ![r] = IF Flushes(r, tokens) THEN p ELSE q]
  BY Zenon DEF AddAndFlush, Flushes, Filled, NewTokens
<1>2. CASE Flushes(r, tokens)
  BY <1>1, <1>2, Zenon
<1>3. CASE ~Flushes(r, tokens)
  BY <1>1, <1>3, Zenon
<1> QED
  BY <1>2, <1>3

LEMMA FlushType ==
  ASSUME TypeInv, NEW r \in Runs, NEW tokens \in Seq(Tokens),
         NEW p \in Places, NEW q \in Places, AddAndFlush(r, tokens, p, q)
  PROVE  /\ buffer' \in [Runs -> Buffers]
         /\ futures' \in [Runs -> Seq(Futures)]
         /\ pc' \in [Runs -> Places]
         /\ \A s \in Runs : Len(buffer'[s].currentBlock) < BlockSize
         /\ \A s \in Runs : s # r => pc'[s] = pc[s]
<1> DEFINE c == Filled(r, tokens)
<1>1. c \in Buffers /\ Len(c.currentBlock) < BlockSize
  BY NewTokensType
<1>2. /\ buffer \in [Runs -> Buffers] /\ futures \in [Runs -> Seq(Futures)]
      /\ pc \in [Runs -> Places]
      /\ \A s \in Runs : Len(buffer[s].currentBlock) < BlockSize
  BY DEF TypeInv
<1> HIDE DEF c
<1>3. CASE /\ Flushes(r, tokens)
           /\ buffer' = [buffer EXCEPT ![r] = Flushing(c)]
           /\ futures' = [futures EXCEPT ![r] = Launched(c)]
           /\ pc' = [pc EXCEPT ![r] = p]
  <2>1. c.completedBlocks # <<>>
    BY <1>3 DEF Flushes, c
  <2>2. Flushing(c) \in Buffers /\ Flushing(c).currentBlock = c.currentBlock
    BY <1>1, <2>1, FlushingIs
  <2>3. Launched(c) \in Seq(Futures)
    BY <1>1, LaunchedIs
  <2> QED
    BY <1>1, <1>2, <1>3, <2>2, <2>3
<1>4. CASE /\ ~Flushes(r, tokens)
           /\ buffer' = [buffer EXCEPT ![r] = c]
           /\ futures' = [futures EXCEPT ![r] = <<>>]
           /\ pc' = [pc EXCEPT ![r] = q]
  <2>1. <<>> \in Seq(Futures)
    OBVIOUS
  <2> QED
    BY <1>1, <1>2, <1>4, <2>1
<1> QED
  BY <1>3, <1>4, FlushCases DEF c

-----------------------------------------------------------------------------
(* The type invariant is kept.                                             *)

LEMMA WithinBounds ==
  ASSUME TypeInv, NEW r \in Runs, pc[r] \notin {"turn", "done"}
  PROVE  turn[r] \in 1 .. Len(PromptLengths)
<1>1. turn[r] \in 0 .. Len(PromptLengths) /\ turn[r] # 0
  BY DEF TypeInv
<1>2. Len(PromptLengths) \in Nat
  BY SizesAssumption
<1> QED
  BY <1>1, <1>2

LEMMA NextTurnType ==
  ASSUME TypeInv, NEW r \in Runs, NextTurn(r)
  PROVE  TypeInv'
<1>1. Len(PromptLengths) \in Nat
  BY SizesAssumption
<1>2. turn' \in [Runs -> 0 .. Len(PromptLengths)] /\ turn'[r] # 0
      /\ \A s \in Runs : s # r => turn'[s] = turn[s]
  BY <1>1 DEF NextTurn, TypeInv
<1>3. pc' \in [Runs -> Places] /\ \A s \in Runs : s # r => pc'[s] = pc[s]
  BY DEF NextTurn, TypeInv, Places
<1>4. atLeast' \in [Runs -> Nat]
  <2>1. CachedBlocks(first, writtenBlocks(r)) \in Nat
    BY BufferType, CachedBlocksIs
  <2>2. \/ UNCHANGED atLeast
        \/ atLeast' = [atLeast EXCEPT ![r] =
                         CachedBlocks(first, writtenBlocks(r))]
    BY DEF NextTurn
  <2> QED
    BY <2>1, <2>2 DEF TypeInv
<1>5. UNCHANGED <<first, published, conversation, buffer, futures, failures,
                  failed, missing>>
  BY DEF NextTurn, store
<1> QED
  BY <1>2, <1>3, <1>4, <1>5 DEF TypeInv

LEMMA RunEndsType ==
  ASSUME TypeInv, NEW r \in Runs, RunEnds(r)
  PROVE  TypeInv'
BY DEF RunEnds, TypeInv, Places, store

LEMMA ValidatedType ==
  ASSUME TypeInv, NEW r \in Runs, Validated(r)
  PROVE  TypeInv'
<1>1. /\ writtenBlocks(r) \in Seq(Blocks)
      /\ CachedBlocks(published, writtenBlocks(r)) \in 0 .. Len(writtenBlocks(r))
      /\ atLeast[r] \in Nat
  BY BufferType, CachedBlocksIs
<1>2. missing' \in [Runs -> Nat] /\ failures' \in 0 .. MaxFailures
      /\ failed' \subseteq Runs
  <2> DEFINE m == Len(writtenBlocks(r))
             c == CachedBlocks(published, writtenBlocks(r))
  <2>1. m \in Nat /\ c \in 0 .. m
    BY <1>1
  <2>2. \/ /\ \E n \in atLeast[r] .. c : missing' = [missing EXCEPT ![r] = m - n]
           /\ UNCHANGED <<failures, failed>>
        \/ /\ failures < MaxFailures
           /\ failures' = failures + 1 /\ failed' = failed \cup {r}
           /\ missing' = [missing EXCEPT ![r] = m]
    BY DEF Validated, Found
  <2> HIDE DEF m, c
  <2>3. MaxFailures \in Nat
    BY SizesAssumption
  <2>4. \A n \in atLeast[r] .. c : m - n \in Nat
    BY <1>1, <2>1
  <2>5. /\ missing \in [Runs -> Nat] /\ failures \in 0 .. MaxFailures
        /\ failed \subseteq Runs
    BY DEF TypeInv
  <2>6. CASE /\ \E n \in atLeast[r] .. c :
                   missing' = [missing EXCEPT ![r] = m - n]
             /\ UNCHANGED <<failures, failed>>
    <3>1. PICK n \in atLeast[r] .. c : missing' = [missing EXCEPT ![r] = m - n]
      BY <2>6
    <3>2. m - n \in Nat
      BY <2>4
    <3> QED
      BY <2>5, <2>6, <3>1, <3>2
  <2>7. CASE /\ failures < MaxFailures
             /\ failures' = failures + 1 /\ failed' = failed \cup {r}
             /\ missing' = [missing EXCEPT ![r] = m]
    BY <2>1, <2>3, <2>5, <2>7
  <2> QED
    BY <2>2, <2>6, <2>7
<1>3. pc[r] = "validating" /\ pc' = [pc EXCEPT ![r] = "prompt"]
      /\ UNCHANGED <<first, published, turn, conversation, buffer, futures,
                     atLeast>>
  BY DEF Validated, store
<1> QED
  BY <1>2, <1>3 DEF TypeInv, Places

LEMMA AddPromptType ==
  ASSUME TypeInv, NEW r \in Runs, AddPrompt(r)
  PROVE  TypeInv'
<1>1. turn[r] \in 1 .. Len(PromptLengths)
  BY WithinBounds DEF AddPrompt
<1>2. conversation[r] \o PromptTokens(turn[r]) \in Seq(Tokens)
  BY <1>1, BufferType, PromptIs, ConcatProperties
<1>3. conversation' \in [Runs -> Seq(Tokens)]
  BY <1>2 DEF AddPrompt, TypeInv
<1>4. pc[r] = "prompt" /\ pc' \in [Runs -> Places]
      /\ \A s \in Runs : s # r => pc'[s] = pc[s]
  BY DEF AddPrompt, TypeInv, Places
<1>5. atLeast' \in [Runs -> Nat]
  <2>1. conversation'[r] \in Seq(Tokens)
    BY <1>3
  <2>2. CachedBlocks(first, FullBlocks(conversation'[r])) \in Nat
    BY <2>1, FullBlocksIs, CachedBlocksIs
  <2>3. \/ UNCHANGED atLeast
        \/ atLeast' = [atLeast EXCEPT ![r] =
                         CachedBlocks(first, FullBlocks(conversation'[r]))]
    BY Zenon DEF AddPrompt
  <2> QED
    BY <2>2, <2>3 DEF TypeInv
<1>6. UNCHANGED <<first, published, turn, buffer, futures, failures, failed,
                  missing>>
  BY DEF AddPrompt, store
<1> QED
  BY <1>1, <1>3, <1>4, <1>5, <1>6 DEF TypeInv

LEMMA CacheCheckedCases ==
  ASSUME TypeInv, NEW r \in Runs, CacheChecked(r)
  PROVE  \/ UNCHANGED buffer /\ failures' = failures /\ atLeast[r] = 0
         \/ UNCHANGED buffer /\ failures' = failures + 1 /\ failures < MaxFailures
         \/ /\ \E n \in 1 .. Len(lookupBlocks(r)) :
                 /\ n >= atLeast[r]
                 /\ \A i \in 1 .. n : Linked(published, lookupBlocks(r), i)
                 /\ buffer' = [buffer EXCEPT ![r] = Cached(r, n)]
            /\ failures' = failures
<1> DEFINE c == CachedBlocks(published, lookupBlocks(r))
           m == Len(lookupBlocks(r))
<1>1. /\ c \in 0 .. m /\ m \in Nat /\ atLeast[r] \in Nat
      /\ \A i \in 1 .. c : Linked(published, lookupBlocks(r), i)
  <2>1. lookupBlocks(r) \in Seq(Blocks) /\ atLeast[r] \in Nat
    BY BufferType
  <2>2. m \in Nat
    BY <2>1
  <2> QED
    BY <2>1, <2>2, CachedBlocksIs
<1>2. CASE failures < MaxFailures /\ failures' = failures + 1 /\ UNCHANGED buffer
  BY <1>2
<1>3. CASE /\ \E n \in atLeast[r] .. c :
                buffer' = IF n = 0 THEN buffer
                          ELSE [buffer EXCEPT ![r] = Cached(r, n)]
           /\ UNCHANGED failures
  <2> HIDE DEF c, m
  <2>1. PICK n \in atLeast[r] .. c :
                buffer' = IF n = 0 THEN buffer
                          ELSE [buffer EXCEPT ![r] = Cached(r, n)]
    BY <1>3
  <2>2. CASE n = 0
    <3>1. atLeast[r] = 0
      BY <1>1, <2>1, <2>2
    <3> QED
      BY <1>3, <2>1, <2>2, <3>1
  <2>3. CASE n # 0
    <3>1. n \in 1 .. m /\ n >= atLeast[r] /\ \A i \in 1 .. n : i \in 1 .. c
      BY <1>1, <2>1, <2>3
    <3>2. buffer' = [buffer EXCEPT ![r] = Cached(r, n)]
      BY <2>1, <2>3, Zenon
    <3> QED
      BY <1>1, <1>3, <3>1, <3>2 DEF m
  <2> QED
    BY <2>2, <2>3
<1> QED
  BY <1>2, <1>3 DEF CacheChecked, Found

LEMMA CacheCheckedType ==
  ASSUME TypeInv, NEW r \in Runs, CacheChecked(r)
  PROVE  TypeInv'
<1>1. /\ pc[r] = "checking" /\ pc' = [pc EXCEPT ![r] = "adding"]
      /\ UNCHANGED <<first, published, turn, conversation, futures, atLeast,
                     failed, missing>>
  BY DEF CacheChecked, store
<1>2. /\ buffer' \in [Runs -> Buffers]
      /\ \A s \in Runs : Len(buffer'[s].currentBlock) < BlockSize
  <2>1. /\ buffer \in [Runs -> Buffers]
        /\ \A s \in Runs : Len(buffer[s].currentBlock) < BlockSize
    BY DEF TypeInv
  <2>2. CASE UNCHANGED buffer
    BY <2>1, <2>2
  <2>3. CASE \E n \in 1 .. Len(lookupBlocks(r)) :
               buffer' = [buffer EXCEPT ![r] = Cached(r, n)]
    <3>1. PICK n \in 1 .. Len(lookupBlocks(r)) :
                 buffer' = [buffer EXCEPT ![r] = Cached(r, n)]
      BY <2>3
    <3>2. /\ Cached(r, n) \in Buffers
          /\ Cached(r, n).currentBlock = buffer[r].currentBlock
      BY CachedIs
    <3> QED
      BY <2>1, <3>1, <3>2
  <2> QED
    BY <2>2, <2>3, CacheCheckedCases
<1>3. failures' \in 0 .. MaxFailures
  <2>1. failures \in 0 .. MaxFailures /\ MaxFailures \in Nat
    BY SizesAssumption DEF TypeInv
  <2>2. \/ failures' = failures
        \/ failures' = failures + 1 /\ failures < MaxFailures
    BY CacheCheckedCases
  <2> QED
    BY <2>1, <2>2
<1> QED
  BY <1>1, <1>2, <1>3 DEF TypeInv, Places

LEMMA FlushPromptType ==
  ASSUME TypeInv, NEW r \in Runs, FlushPrompt(r)
  PROVE  TypeInv'
<1>1. /\ pc[r] = "adding"
      /\ AddAndFlush(r, conversation[r], "flushingPrompt", "agent")
      /\ UNCHANGED <<first, published, turn, conversation, atLeast, failures,
                     failed, missing>>
  BY DEF FlushPrompt, store
<1>2. conversation[r] \in Seq(Tokens)
  BY BufferType
<1>3. "flushingPrompt" \in Places /\ "agent" \in Places
  BY DEF Places
<1>4. /\ buffer' \in [Runs -> Buffers] /\ futures' \in [Runs -> Seq(Futures)]
      /\ pc' \in [Runs -> Places]
      /\ \A s \in Runs : Len(buffer'[s].currentBlock) < BlockSize
      /\ \A s \in Runs : s # r => pc'[s] = pc[s]
  BY <1>1, <1>2, <1>3, FlushType
<1>5. turn[r] # 0
  BY <1>1 DEF TypeInv
<1> QED
  BY <1>1, <1>4, <1>5 DEF TypeInv

LEMMA FlushAgentType ==
  ASSUME TypeInv, NEW r \in Runs, FlushAgent(r)
  PROVE  TypeInv'
<1>1. /\ pc[r] = "agent"
      /\ conversation' = [conversation EXCEPT ![r] = @ \o AgentTokens(r, turn[r])]
      /\ AddAndFlush(r, conversation'[r], "flushingAgent", "turn")
      /\ UNCHANGED <<first, published, turn, atLeast, failures, failed,
                     missing>>
  BY DEF FlushAgent, store
<1>2. conversation' \in [Runs -> Seq(Tokens)]
  <2>1. turn[r] \in 1 .. Len(PromptLengths)
    BY <1>1, WithinBounds
  <2>2. conversation[r] \o AgentTokens(r, turn[r]) \in Seq(Tokens)
    BY <2>1, BufferType, AgentIs, ConcatProperties
  <2> QED
    BY <1>1, <2>2 DEF TypeInv
<1>3. "flushingAgent" \in Places /\ "turn" \in Places
  BY DEF Places
<1>4. /\ buffer' \in [Runs -> Buffers] /\ futures' \in [Runs -> Seq(Futures)]
      /\ pc' \in [Runs -> Places]
      /\ \A s \in Runs : Len(buffer'[s].currentBlock) < BlockSize
      /\ \A s \in Runs : s # r => pc'[s] = pc[s]
  <2>1. conversation'[r] \in Seq(Tokens)
    BY <1>2
  <2> DEFINE tokens == conversation'[r]
  <2>2. AddAndFlush(r, tokens, "flushingAgent", "turn")
    BY <1>1
  <2> HIDE DEF tokens
  <2>3. tokens \in Seq(Tokens)
    BY <2>1 DEF tokens
  <2> QED
    BY <1>3, <2>2, <2>3, FlushType
<1>5. turn[r] # 0
  BY <1>1 DEF TypeInv
<1> QED
  BY <1>1, <1>2, <1>4, <1>5 DEF TypeInv

(* What the end of a write does.                                           *)
Ended(r, i, s) ==
  /\ futures' = [futures EXCEPT ![r][i].state = s]
  /\ futures'[r] \in Seq(Futures) /\ Len(futures'[r]) = Len(futures[r])
  /\ \A j \in 1 .. Len(futures[r]) :
       /\ futures'[r][j].version = futures[r][j].version
       /\ futures'[r][j].state = IF j = i THEN s ELSE futures[r][j].state
  /\ \A q \in Runs : q # r => futures'[q] = futures[q]

LEMMA EndedIs ==
  ASSUME TypeInv, NEW r \in Runs, NEW i \in DOMAIN futures[r],
         NEW s \in {"stored", "failed"},
         futures' = [futures EXCEPT ![r][i].state = s]
  PROVE  Ended(r, i, s)
<1>1. futures \in [Runs -> Seq(Futures)] /\ futures[r] \in Seq(Futures)
  BY DEF TypeInv
<1> DEFINE f == futures[r]
           e == [f[i] EXCEPT !.state = s]
<1>2. i \in 1 .. Len(f) /\ f[i] \in Futures
  BY <1>1
<1>3. e \in Futures /\ e.version = f[i].version /\ e.state = s
  BY <1>2 DEF Futures
<1>4. futures' = [futures EXCEPT ![r] = [f EXCEPT ![i] = e]]
  OBVIOUS
<1> HIDE DEF e
<1>5. /\ [f EXCEPT ![i] = e] \in Seq(Futures)
      /\ Len([f EXCEPT ![i] = e]) = Len(f)
      /\ \A j \in 1 .. Len(f) : [f EXCEPT ![i] = e][j] = IF j = i THEN e ELSE f[j]
  BY <1>1, <1>2, <1>3, ExceptSeq
<1>6. futures'[r] = [f EXCEPT ![i] = e]
      /\ \A q \in Runs : q # r => futures'[q] = futures[q]
  BY <1>1, <1>4
<1> HIDE DEF f
<1>7. ASSUME NEW j \in 1 .. Len(f)
      PROVE  /\ futures'[r][j].version = f[j].version
             /\ futures'[r][j].state = IF j = i THEN s ELSE f[j].state
  <2>1. futures'[r][j] = IF j = i THEN e ELSE f[j]
    BY <1>5, <1>6, Zenon
  <2>2. CASE j = i
    <3>1. futures'[r][j] = e /\ f[j] = f[i]
      BY <2>1, <2>2
    <3> QED
      BY <1>3, <2>2, <3>1
  <2>3. CASE j # i
    <3>1. futures'[r][j] = f[j]
      BY <2>1, <2>3
    <3> QED
      BY <2>3, <3>1
  <2> QED
    BY <2>2, <2>3
<1>8. futures'[r] \in Seq(Futures) /\ Len(futures'[r]) = Len(f)
  BY <1>5, <1>6
<1> QED
  BY <1>6, <1>7, <1>8, Zenon DEF Ended, f

LEMMA WriteEndsCases ==
  ASSUME TypeInv, NEW r \in Runs, NEW i \in DOMAIN futures[r], WriteEnds(r, i)
  PROVE  /\ i \in 1 .. Len(futures[r])
         /\ futures[r][i].version \in Versions
         /\ UNCHANGED <<pc, turn, conversation, buffer, atLeast, missing>>
         /\ \/ Stores(futures[r][i].version)
            \/ UNCHANGED store
         /\ \/ /\ Ended(r, i, "stored")
               /\ \/ Stores(futures[r][i].version)
                  \/ Contended(futures[r][i].version) /\ UNCHANGED store
               /\ UNCHANGED <<failures, failed>>
            \/ /\ failures < MaxFailures
               /\ failures' = failures + 1 /\ failed' = failed \cup {r}
               /\ Ended(r, i, "stored") \/ Ended(r, i, "failed")
<1>1. futures[r] \in Seq(Futures)
  BY BufferType
<1>2. i \in 1 .. Len(futures[r]) /\ futures[r][i] \in Futures
  BY <1>1
<1>3. futures[r][i].version \in Versions
  BY <1>2 DEF Futures
<1>4. /\ futures' = [futures EXCEPT ![r][i].state = "stored"]
           => Ended(r, i, "stored")
      /\ futures' = [futures EXCEPT ![r][i].state = "failed"]
           => Ended(r, i, "failed")
  BY EndedIs
<1> QED
  BY <1>2, <1>3, <1>4, Zenon DEF WriteEnds

LEMMA WriteEndsType ==
  ASSUME TypeInv, NEW r \in Runs, NEW i \in DOMAIN futures[r], WriteEnds(r, i)
  PROVE  TypeInv'
<1>1. /\ futures[r][i].version \in Versions
      /\ UNCHANGED <<pc, turn, conversation, buffer, atLeast, missing>>
      /\ Stores(futures[r][i].version) \/ UNCHANGED store
      /\ \/ UNCHANGED <<failures, failed>>
         \/ /\ failures < MaxFailures
            /\ failures' = failures + 1 /\ failed' = failed \cup {r}
  BY WriteEndsCases
<1>2. \E s : Ended(r, i, s)
  BY WriteEndsCases
<1>3. first' \subseteq published' /\ published' \subseteq Versions
  BY <1>1 DEF TypeInv, Stores, store
<1>4. futures' \in [Runs -> Seq(Futures)]
  <2>1. PICK s : Ended(r, i, s)
    BY <1>2
  <2>2. futures' = [futures EXCEPT ![r] =
                      [futures[r] EXCEPT ![i].state = s]]
    BY <2>1 DEF Ended
  <2>3. futures'[r] \in Seq(Futures)
    BY <2>1 DEF Ended
  <2>4. futures \in [Runs -> Seq(Futures)]
    BY DEF TypeInv
  <2> DEFINE e == [futures[r] EXCEPT ![i].state = s]
  <2>5. futures' = [futures EXCEPT ![r] = e]
    BY <2>2
  <2> HIDE DEF e
  <2>6. e \in Seq(Futures)
    BY <2>3, <2>4, <2>5
  <2> QED
    BY <2>4, <2>5, <2>6
<1>5. failures' \in 0 .. MaxFailures /\ failed' \subseteq Runs
  <2>1. failures \in 0 .. MaxFailures /\ MaxFailures \in Nat /\ failed \subseteq Runs
    BY SizesAssumption DEF TypeInv
  <2> QED
    BY <1>1, <2>1
<1> QED
  BY <1>1, <1>3, <1>4, <1>5 DEF TypeInv

LEMMA FlushEndsCases ==
  ASSUME TypeInv, NEW r \in Runs, FlushEnds(r)
  PROVE  /\ WritesEnded(r)
         /\ futures' = [futures EXCEPT ![r] = <<>>]
         /\ UNCHANGED <<first, published, turn, conversation, atLeast,
                        failures, failed,
                        missing>>
         /\ \E p \in {"agent", "turn"} : pc' = [pc EXCEPT ![r] = p]
         /\ \/ AllStored(r) /\ buffer' = [buffer EXCEPT ![r].completedBlocks = <<>>]
            \/ ~AllStored(r) /\ UNCHANGED buffer /\ pc' = [pc EXCEPT ![r] = "turn"]
BY Zenon DEF FlushEnds, Flushed, store

LEMMA FlushEndsType ==
  ASSUME TypeInv, NEW r \in Runs, FlushEnds(r)
  PROVE  TypeInv'
<1>1. buffer \in [Runs -> Buffers]
      /\ \A s \in Runs : Len(buffer[s].currentBlock) < BlockSize
  BY DEF TypeInv
<1>2. buffer' \in [Runs -> Buffers]
      /\ \A s \in Runs : Len(buffer'[s].currentBlock) < BlockSize
  <2>1. CASE UNCHANGED buffer
    BY <1>1, <2>1
  <2>2. CASE buffer' = [buffer EXCEPT ![r].completedBlocks = <<>>]
    <3> DEFINE c == [buffer[r] EXCEPT !.completedBlocks = <<>>]
    <3>1. buffer[r] \in Buffers
      BY <1>1
    <3>2. c \in Buffers /\ c.currentBlock = buffer[r].currentBlock
      <4>1. c = [completedBlocks  |-> <<>>,
                 currentBlock     |-> buffer[r].currentBlock,
                 processed        |-> buffer[r].processed,
                 lastWrittenHash  |-> buffer[r].lastWrittenHash,
                 allWrittenTokens |-> buffer[r].allWrittenTokens]
        BY SMTT(20), <3>1 DEF Buffers
      <4>2. <<>> \in Seq(Blocks)
        OBVIOUS
      <4> QED
        BY <3>1, <4>1, <4>2 DEF Buffers
    <3>3. buffer' = [buffer EXCEPT ![r] = c]
      BY <2>2
    <3> HIDE DEF c
    <3> QED
      BY <1>1, <3>2, <3>3
  <2> QED
    BY <2>1, <2>2, FlushEndsCases
<1>3. futures' \in [Runs -> Seq(Futures)]
  <2>1. futures' = [futures EXCEPT ![r] = <<>>] /\ <<>> \in Seq(Futures)
    BY FlushEndsCases
  <2> QED
    BY <2>1 DEF TypeInv
<1>4. pc' \in [Runs -> Places] /\ \A s \in Runs : s # r => pc'[s] = pc[s]
  BY ZenonT(30), FlushEndsCases DEF TypeInv, Places
<1>5. turn[r] # 0
  BY FlushEndsCases DEF TypeInv, WritesEnded, IsFlushing
<1>6. UNCHANGED <<first, published, turn, conversation, atLeast, failures,
                  failed, missing>>
  BY FlushEndsCases
<1> QED
  BY <1>2, <1>3, <1>4, <1>5, <1>6 DEF TypeInv

LEMMA TypeKept == TypeInv /\ [Next]_vars => TypeInv'
<1> SUFFICES ASSUME TypeInv, [Next]_vars
             PROVE  TypeInv'
  OBVIOUS
<1>1. CASE UNCHANGED core
  BY <1>1 DEF core, TypeInv
<1>2. ASSUME NEW r \in Runs, runConversation(r)
      PROVE  TypeInv'
  BY <1>2, NextTurnType, RunEndsType, ValidatedType, AddPromptType,
     CacheCheckedType, FlushPromptType, FlushAgentType, FlushEndsType
     DEF runConversation
<1>3. ASSUME NEW r \in Runs, NEW i \in DOMAIN futures[r], WriteEnds(r, i)
      PROVE  TypeInv'
  BY <1>3, WriteEndsType
<1> QED
  BY <1>1, <1>2, <1>3, Steps

LEMMA EmptyBufferType ==
  /\ EmptyBuffer \in Buffers
  /\ EmptyBuffer.completedBlocks = <<>> /\ EmptyBuffer.currentBlock = <<>>
  /\ EmptyBuffer.processed = 0 /\ EmptyBuffer.lastWrittenHash = NoParent
  /\ EmptyBuffer.allWrittenTokens = <<>>
<1>1. <<>> \in Seq(Blocks) /\ <<>> \in Seq(Tokens)
  OBVIOUS
<1> QED
  BY <1>1 DEF EmptyBuffer, Buffers, NoParent

LEMMA TypeInit == Init => TypeInv
<1> SUFFICES ASSUME Init
             PROVE  TypeInv
  OBVIOUS
<1>1. /\ EmptyBuffer \in Buffers /\ EmptyBuffer.currentBlock = <<>>
      /\ Len(<<>>) = 0 /\ BlockSize \in Nat \ {0}
  BY EmptyBufferType, SizesAssumption
<1>2. <<>> \in Seq(Tokens) /\ <<>> \in Seq(Futures)
  OBVIOUS
<1>3. /\ Len(PromptLengths) \in Nat /\ MaxFailures \in Nat
  BY SizesAssumption
<1>4. buffer \in [Runs -> Buffers]
      /\ \A r \in Runs : Len(buffer[r].currentBlock) < BlockSize
  BY <1>1 DEF Init
<1>5. /\ first \subseteq published /\ published \subseteq Versions
      /\ failed \subseteq Runs
      /\ pc \in [Runs -> Places]
      /\ conversation \in [Runs -> Seq(Tokens)]
      /\ futures \in [Runs -> Seq(Futures)]
      /\ atLeast \in [Runs -> Nat] /\ missing \in [Runs -> Nat]
      /\ \A r \in Runs : pc[r] = "turn"
  BY <1>2 DEF Init, Places
<1>6. turn \in [Runs -> 0 .. Len(PromptLengths)] /\ failures \in 0 .. MaxFailures
  BY <1>3 DEF Init
<1> QED
  BY <1>4, <1>5, <1>6 DEF TypeInv

LEMMA TypeInvariant == Spec => []TypeInv
<1>1. Init => TypeInv
  BY TypeInit
<1>2. TypeInv /\ [Next]_vars => TypeInv'
  BY TypeKept
<1> QED
  BY <1>1, <1>2, PTL DEF Spec

(* A version that was evicted was there, and was not the first of its      *)
(* block.                                                                  *)
StoreInv == evicted \subseteq published \ first

LEMMA StoreKept == TypeInv /\ StoreInv /\ [Next]_vars => StoreInv'
<1> SUFFICES ASSUME TypeInv, StoreInv, [Next]_vars
             PROVE  StoreInv'
  OBVIOUS
<1>1. first \subseteq published
  BY DEF TypeInv
<1>2. CASE UNCHANGED vars
  BY <1>2 DEF vars, store, StoreInv
<1>3. ASSUME NEW r \in Runs, runConversation(r)
      PROVE  StoreInv'
  <2>1. UNCHANGED store
    BY <1>3 DEF runConversation, NextTurn, RunEnds, Validated, AddPrompt,
       CacheChecked, FlushPrompt, FlushAgent, FlushEnds
  <2> QED
    BY <2>1 DEF store, StoreInv
<1>4. ASSUME NEW r \in Runs, NEW i \in DOMAIN futures[r], WriteEnds(r, i)
      PROVE  StoreInv'
  <2>1. Stores(futures[r][i].version) \/ UNCHANGED store
    BY <1>4, WriteEndsCases
  <2>2. CASE UNCHANGED store
    BY <2>2 DEF store, StoreInv
  <2>3. CASE Stores(futures[r][i].version)
    <3> DEFINE v == futures[r][i].version
    <3>1. /\ first' \in {first, first \cup {v}}
          /\ published' = published \cup {v} /\ evicted' = evicted \ {v}
      BY <2>3 DEF Stores
    <3> HIDE DEF v
    <3> QED
      BY <3>1 DEF StoreInv
  <2> QED
    BY <2>1, <2>2, <2>3
<1>5. ASSUME NEW r \in Runs, NEW i \in DOMAIN futures[r], Evict(r, i)
      PROVE  StoreInv'
  <2>1. /\ UNCHANGED <<first, published>>
        /\ \E u \in published \ first : evicted' = evicted \cup {u}
    BY <1>5 DEF Evict, Additional, cache
  <2> QED
    BY <2>1 DEF StoreInv
<1> QED
  BY <1>2, <1>3, <1>4, <1>5 DEF Next

LEMMA StoreInvariant == Spec => []StoreInv
<1>1. Init => StoreInv
  BY DEF Init, StoreInv
<1>2. TypeInv /\ StoreInv /\ [Next]_vars => StoreInv'
  BY StoreKept
<1> QED
  BY <1>1, <1>2, TypeInvariant, PTL DEF Spec

LEMMA TypeInvIs == TypeInv /\ StoreInv => TypeOK
<1> SUFFICES ASSUME TypeInv, StoreInv
             PROVE  TypeOK
  OBVIOUS
<1>1. ASSUME NEW r \in Runs
      PROVE  /\ buffer[r].completedBlocks \in Seq(Blocks)
             /\ buffer[r].currentBlock \in Seq(Tokens)
             /\ buffer[r].processed \in Nat
             /\ buffer[r].lastWrittenHash \in Blocks \cup {NoParent}
             /\ buffer[r].allWrittenTokens \in Seq(Tokens)
             /\ futures[r] \in Seq(Futures)
  BY BufferType
<1> QED
  BY <1>1 DEF TypeInv, StoreInv, TypeOK, Places, Futures

(* Everything has the type that the code gives it: buffers hold whole      *)
(* blocks and less than one more.                                          *)
THEOREM ConversationTypeCorrect == Spec => []TypeOK
<1>1. TypeInv /\ StoreInv => TypeOK
  BY TypeInvIs
<1> QED
  BY <1>1, TypeInvariant, StoreInvariant, PTL

-----------------------------------------------------------------------------
(* What the threads of one run leave alone.                                *)

Others(r) ==
  /\ first \subseteq first' /\ published \subseteq published'
  /\ failed \subseteq failed'
  /\ \A s \in Runs \ {r} :
       /\ pc'[s] = pc[s] /\ turn'[s] = turn[s]
       /\ conversation'[s] = conversation[s]
       /\ buffer'[s] = buffer[s] /\ futures'[s] = futures[s]
       /\ atLeast'[s] = atLeast[s] /\ missing'[s] = missing[s]

LEMMA OthersStay ==
  ASSUME TypeInv, NEW r \in Runs,
         runConversation(r) \/ \E i \in DOMAIN futures[r] : WriteEnds(r, i)
  PROVE  Others(r)
<1>0. /\ pc \in [Runs -> Places] /\ turn \in [Runs -> 0 .. Len(PromptLengths)]
      /\ conversation \in [Runs -> Seq(Tokens)]
      /\ buffer \in [Runs -> Buffers]
      /\ futures \in [Runs -> Seq(Futures)]
      /\ atLeast \in [Runs -> Nat] /\ missing \in [Runs -> Nat]
  BY DEF TypeInv
<1>1. CASE NextTurn(r)
  BY <1>0, <1>1 DEF NextTurn, Others, store
<1>2. CASE RunEnds(r)
  BY <1>0, <1>2 DEF RunEnds, Others, store
<1>3. CASE Validated(r)
  <2>1. /\ UNCHANGED <<first, published, turn, conversation, buffer, futures,
                       atLeast>>
        /\ pc' = [pc EXCEPT ![r] = "prompt"]
        /\ failed \subseteq failed'
        /\ \E m : missing' = [missing EXCEPT ![r] = m]
    BY <1>3 DEF Validated, store
  <2> QED
    BY <1>0, <2>1 DEF Others
<1>4. CASE AddPrompt(r)
  <2>1. /\ UNCHANGED <<first, published, turn, buffer, futures, failures,
                       failed, missing>>
        /\ \E p : pc' = [pc EXCEPT ![r] = p]
        /\ UNCHANGED atLeast \/ \E m : atLeast' = [atLeast EXCEPT ![r] = m]
        /\ \E m : conversation' = [conversation EXCEPT ![r] = m]
    BY <1>4, Zenon DEF AddPrompt, store
  <2> QED
    BY <1>0, <2>1 DEF Others
<1>5. CASE CacheChecked(r)
  <2>1. /\ UNCHANGED <<first, published, turn, conversation, futures, atLeast,
                       failed, missing>>
        /\ pc' = [pc EXCEPT ![r] = "adding"]
    BY <1>5 DEF CacheChecked, store
  <2>2. UNCHANGED buffer \/ \E m : buffer' = [buffer EXCEPT ![r] = m]
    BY <1>5, CacheCheckedCases
  <2> QED
    BY <1>0, <2>1, <2>2 DEF Others
<1>6. ASSUME NEW tokens, NEW p, NEW q, AddAndFlush(r, tokens, p, q)
      PROVE  /\ \E m : buffer' = [buffer EXCEPT ![r] = m]
             /\ \E m : futures' = [futures EXCEPT ![r] = m]
             /\ \E m : pc' = [pc EXCEPT ![r] = m]
  BY <1>6, Zenon DEF AddAndFlush
<1>7. CASE FlushPrompt(r)
  <2>1. UNCHANGED <<first, published, turn, conversation, atLeast, failures,
                    failed, missing>>
        /\ AddAndFlush(r, conversation[r], "flushingPrompt", "agent")
    BY <1>7 DEF FlushPrompt, store
  <2> QED
    BY <1>0, <1>6, <2>1 DEF Others
<1>8. CASE FlushAgent(r)
  <2>1. UNCHANGED <<first, published, turn, atLeast, failures, failed, missing>>
        /\ AddAndFlush(r, conversation'[r], "flushingAgent", "turn")
        /\ \E m : conversation' = [conversation EXCEPT ![r] = m]
    BY <1>8, Zenon DEF FlushAgent, store
  <2>2. /\ \E m : buffer' = [buffer EXCEPT ![r] = m]
        /\ \E m : futures' = [futures EXCEPT ![r] = m]
        /\ \E m : pc' = [pc EXCEPT ![r] = m]
    BY <2>1, Zenon DEF AddAndFlush
  <2> QED
    BY <1>0, <2>1, <2>2 DEF Others
<1>9. CASE FlushEnds(r)
  <2>1. /\ futures' = [futures EXCEPT ![r] = <<>>]
        /\ UNCHANGED <<first, published, turn, conversation, atLeast, failures,
                       failed,
                       missing>>
        /\ \E p : pc' = [pc EXCEPT ![r] = p]
        /\ \/ buffer' = [buffer EXCEPT ![r].completedBlocks = <<>>]
           \/ UNCHANGED buffer
    BY <1>9, FlushEndsCases
  <2> QED
    BY <1>0, <2>1 DEF Others
<1>10. ASSUME NEW i \in DOMAIN futures[r], WriteEnds(r, i)
       PROVE  Others(r)
  <2>1. /\ UNCHANGED <<pc, turn, conversation, buffer, atLeast, missing>>
        /\ Stores(futures[r][i].version) \/ UNCHANGED store
        /\ failed \subseteq failed' /\ \E s : Ended(r, i, s)
    BY <1>10, WriteEndsCases
  <2>2. first \subseteq first' /\ published \subseteq published'
    BY <2>1 DEF Stores, store
  <2> QED
    BY <2>1, <2>2 DEF Others, Ended
<1> QED
  BY <1>1, <1>2, <1>3, <1>4, <1>5, <1>7, <1>8, <1>9, <1>10 DEF runConversation

(* A version that comes into the store is one that the run writes.         *)
LEMMA NewVersion ==
  ASSUME TypeInv, NEW r \in Runs,
         runConversation(r) \/ \E i \in DOMAIN futures[r] : WriteEnds(r, i),
         NEW v \in published', v \notin published
  PROVE  \E i \in 1 .. Len(futures[r]) : v = futures[r][i].version
<1>1. ~UNCHANGED published
  OBVIOUS
<1>2. PICK i \in DOMAIN futures[r] : WriteEnds(r, i)
  BY <1>1 DEF runConversation, NextTurn, RunEnds, Validated, AddPrompt,
     CacheChecked, FlushPrompt, FlushAgent, FlushEnds, store
<1>3. /\ i \in 1 .. Len(futures[r])
      /\ Stores(futures[r][i].version) \/ UNCHANGED store
  BY <1>2, WriteEndsCases
<1>4. v = futures[r][i].version
  BY <1>1, <1>3 DEF Stores, store
<1> QED
  BY <1>3, <1>4

-----------------------------------------------------------------------------
(* What a flush does with the tokens it is given, of which the buffer has  *)
(* the processed part.                                                     *)

LEMMA NoBlocks ==
  ASSUME NEW s \in Seq(Tokens), Len(s) < BlockSize
  PROVE  FullBlocks(s) = <<>>
<1>1. /\ FullBlocks(s) \in Seq(Blocks)
      /\ Len(FullBlocks(s)) = Len(s) \div BlockSize
  BY FullBlocksIs
<1> DEFINE n == Len(s)
           q == n \div BlockSize
<1>2. n \in Nat /\ q \in Nat /\ q * BlockSize \in 0 .. n /\ n < BlockSize
      /\ BlockSize \in Nat \ {0}
  <2>1. n \in Nat
    OBVIOUS
  <2> QED
    BY <2>1, BlocksOf, SizesAssumption
<1> HIDE DEF n, q
<1>3. q = 0
  <2> SUFFICES ASSUME 1 <= q
               PROVE  FALSE
    BY <1>2
  <2>1. 1 * BlockSize <= q * BlockSize
    BY <1>2, LargerProduct
  <2> QED
    BY <1>2, <2>1
<1>4. Len(FullBlocks(s)) = 0
  BY <1>1, <1>3 DEF q, n
<1> QED
  BY <1>1, <1>4

LEMMA NoContent == Content(<<>>) = <<>>
<1>1. <<>> \in Seq(Blocks) /\ Len(<<>>) = 0
  OBVIOUS
<1>2. Content(<<>>) \in Seq(Tokens) /\ Len(Content(<<>>)) = Len(<<>>) * BlockSize
  BY <1>1, ContentIs
<1>3. Len(<<>>) * BlockSize = 0
  BY <1>1, SizesAssumption
<1> QED
  BY <1>2, <1>3

Counted(b, tokens) ==
  /\ b.processed <= Len(tokens)
  /\ b.allWrittenTokens \o b.currentBlock = SubSeq(tokens, 1, b.processed)

LEMMA FilledIs ==
  ASSUME TypeInv, NEW r \in Runs, NEW tokens \in Seq(Tokens),
         Counted(buffer[r], tokens), buffer[r].completedBlocks = <<>>
  PROVE  LET c == Filled(r, tokens)
         IN  /\ c.processed = Len(tokens)
             /\ c.allWrittenTokens = buffer[r].allWrittenTokens
             /\ c.lastWrittenHash = buffer[r].lastWrittenHash
             /\ c.allWrittenTokens \o (Content(c.completedBlocks) \o c.currentBlock)
                  = tokens
             /\ ~Flushes(r, tokens) => c.completedBlocks = <<>>
<1> DEFINE b == buffer[r]
           new == NewTokens(r, tokens)
           c == Filled(r, tokens)
           a == All(b, new)
           F == FullBlocks(a)
<1>1. /\ b \in Buffers /\ b.allWrittenTokens \in Seq(Tokens)
      /\ b.currentBlock \in Seq(Tokens) /\ b.processed \in Nat
      /\ Len(b.currentBlock) < BlockSize
  BY BufferType DEF TypeInv
<1>2. new \in Seq(Tokens) /\ c \in Buffers
  BY NewTokensType
<1>3. /\ a \in Seq(Tokens) /\ c.completedBlocks = b.completedBlocks \o F
      /\ c.currentBlock = SubSeq(a, Len(F) * BlockSize + 1, Len(a))
      /\ c.processed = b.processed + Len(new)
      /\ c.lastWrittenHash = b.lastWrittenHash
      /\ c.allWrittenTokens = b.allWrittenTokens
  BY <1>1, <1>2, AddTokens DEF Filled
<1>4. F \in Seq(Blocks)
  BY <1>3, FullBlocksIs
<1> HIDE DEF F
<1>5. c.completedBlocks = F
  BY <1>3, <1>4
<1>6. Content(F) \o c.currentBlock = a
  BY <1>3, CutAndJoined DEF F
<1> HIDE DEF c
<1>7. b.allWrittenTokens \o a = tokens
  <2> DEFINE n == Len(tokens)
             p == b.processed
  <2>1. n \in Nat /\ p \in Nat /\ p <= n
    BY <1>1 DEF Counted
  <2>2. (b.allWrittenTokens \o b.currentBlock) \o new
          = b.allWrittenTokens \o a
    <3>1. \A s, t, u \in Seq(Tokens) : (s \o t) \o u = s \o (t \o u)
      BY JoinedInAnyOrder
    <3> HIDE DEF b, new
    <3> QED
      BY <1>1, <1>2, <3>1, Zenon DEF All
  <2>3. SubSeq(tokens, 1, p) \o SubSeq(tokens, p + 1, n) = SubSeq(tokens, 1, n)
    <3>1. 1 \in 1 .. n + 1 /\ p \in 1 - 1 .. n /\ n \in p .. n
      BY <2>1
    <3> HIDE DEF p
    <3> QED
      BY <3>1, ConcatAdjacentSubSeq
  <2>4. SubSeq(tokens, 1, n) = tokens
    BY SubSeqFull
  <2>5. b.allWrittenTokens \o b.currentBlock = SubSeq(tokens, 1, p)
    BY DEF Counted
  <2>6. new = SubSeq(tokens, p + 1, n)
    BY DEF NewTokens
  <2> HIDE DEF a, new, n, p
  <2> QED
    BY <2>2, <2>3, <2>4, <2>5, <2>6
<1>8. c.processed = Len(tokens)
  <2> DEFINE n == Len(tokens)
             p == b.processed
  <2>1. n \in Nat /\ p \in Nat /\ p <= n
    BY <1>1 DEF Counted
  <2>2. new = SubSeq(tokens, p + 1, n)
    BY DEF NewTokens
  <2>3. Len(SubSeq(tokens, p + 1, n)) = n - p
    <3> HIDE DEF p
    <3> QED
      BY <2>1
  <2>4. c.processed = p + Len(new)
    BY <1>3
  <2> HIDE DEF new, n, p
  <2>5. c.processed = n
    BY <2>1, <2>2, <2>3, <2>4
  <2> QED
    BY <2>5 DEF n
<1>9. ASSUME ~Flushes(r, tokens)
      PROVE  F = <<>>
  <2>1. CASE new = <<>>
    <3>1. a = b.currentBlock
      BY <1>1, <2>1, ConcatEmptySeq DEF All
    <3> QED
      BY <1>1, <3>1, NoBlocks DEF F
  <2>2. CASE c.completedBlocks = <<>>
    BY <1>5, <2>2
  <2> QED
    BY <1>9, <2>1, <2>2 DEF Flushes, c
<1> QED
  BY <1>3, <1>5, <1>6, <1>7, <1>8, <1>9 DEF c

-----------------------------------------------------------------------------
(* The inductive invariant of TokensAccounted, for a run of which no       *)
(* request has failed: p is where it is, s its conversation, b its buffer  *)
(* and f its futures.  A token of the run's own is among the first block   *)
(* of its conversation when that did not suffice for a block at once, so   *)
(* that no other run can have written that block.                          *)

InFlush == {"flushingPrompt", "flushingAgent"}
BetweenTurns == {"turn", "validating", "prompt"}

Marked(s, r) == \E j \in 1 .. Len(s) : j <= BlockSize /\ s[j][1] = r

AccountOf(p, s, b, f, r) ==
  /\ Counted(b, s)
  /\ p \notin InFlush => b.completedBlocks = <<>> /\ f = <<>>
  /\ p \in InFlush => b.allWrittenTokens # <<>>
  /\ \A i \in 1 .. Len(f) : f[i].state # "failed"
  /\ p \notin {"checking", "adding"} => b.processed = Len(s)
  /\ p = "checking" =>
       b.allWrittenTokens = <<>> /\ (b.currentBlock = <<>> \/ Marked(s, r))
  /\ p \in BetweenTurns /\ b.allWrittenTokens = <<>> =>
       s = <<>> \/ (Len(s) < BlockSize /\ Marked(s, r))

Account(r) == AccountOf(pc[r], conversation[r], buffer[r], futures[r], r)
AccountInv == \A r \in Runs \ failed : Account(r)

(* A run writes blocks of its own tokens and of the prompts only.          *)
Owned(s, r) == \A i \in 1 .. Len(s) : s[i][1] \in {0, r}
OwnBlock(b, r) == \A j \in 1 .. BlockSize : b[j][1] \in {0, r}

OwnOf(s, b, f, r) ==
  /\ Owned(s, r) /\ Owned(b.currentBlock, r)
  /\ \A k \in 1 .. Len(b.completedBlocks) : OwnBlock(b.completedBlocks[k], r)
  /\ \A i \in 1 .. Len(f) : OwnBlock(f[i].version.block, r)
  /\ f # <<>> => b.allWrittenTokens # <<>>

Own(r) == OwnOf(conversation[r], buffer[r], futures[r], r)

OwnInv ==
  /\ \A r \in Runs : Own(r)
  /\ \A v \in published, j \in 1 .. BlockSize, q \in Runs :
       v.block[j][1] = q => buffer[q].allWrittenTokens # <<>>

LEMMA OwnedConcat ==
  ASSUME NEW s \in Seq(Tokens), NEW t \in Seq(Tokens), NEW r,
         Owned(s, r), Owned(t, r)
  PROVE  Owned(s \o t, r)
<1>1. /\ Len(s \o t) = Len(s) + Len(t) /\ Len(s) \in Nat /\ Len(t) \in Nat
      /\ \A i \in 1 .. Len(s) + Len(t) :
           (s \o t)[i] = IF i <= Len(s) THEN s[i] ELSE t[i - Len(s)]
  BY ConcatProperties
<1> DEFINE u == s \o t
<1> HIDE DEF u
<1>2. ASSUME NEW i \in 1 .. Len(u)
      PROVE  u[i][1] \in {0, r}
  <2>1. Len(u) = Len(s) + Len(t) /\ i \in 1 .. Len(s) + Len(t)
    BY <1>1 DEF u
  <2>2. u[i] = IF i <= Len(s) THEN s[i] ELSE t[i - Len(s)]
    BY <1>1, <2>1 DEF u
  <2>3. CASE i <= Len(s)
    <3>1. i \in 1 .. Len(s)
      BY <1>1, <2>1, <2>3
    <3> QED
      BY <2>2, <2>3, <3>1 DEF Owned
  <2>4. CASE ~(i <= Len(s))
    <3>1. i - Len(s) \in 1 .. Len(t)
      BY <1>1, <2>1, <2>4
    <3>2. u[i] = t[i - Len(s)]
      BY <2>2, <2>4
    <3> QED
      BY <3>1, <3>2, Zenon DEF Owned
  <2> QED
    BY <2>3, <2>4
<1> QED
  BY <1>2 DEF Owned, u

LEMMA OwnedSuffix ==
  ASSUME NEW s \in Seq(Tokens), NEW r, NEW m \in Nat, Owned(s, r)
  PROVE  Owned(SubSeq(s, m + 1, Len(s)), r)
<1> DEFINE t == SubSeq(s, m + 1, Len(s))
<1>0. Len(s) \in Nat
  OBVIOUS
<1>1. CASE m < Len(s)
  <2>1. /\ Len(t) = Len(s) - m
        /\ \A i \in 1 .. Len(s) - m : t[i] = s[m + i]
    BY <1>0, <1>1
  <2> HIDE DEF t
  <2>2. \A i \in 1 .. Len(s) - m : m + i \in 1 .. Len(s)
    BY <1>0, <1>1
  <2>3. Owned(t, r)
    BY <2>1, <2>2 DEF Owned
  <2> QED
    BY <2>3 DEF t
<1>2. CASE ~(m < Len(s))
  <2>1. Len(t) = 0
    BY <1>0, <1>2
  <2>2. 1 .. 0 = {}
    OBVIOUS
  <2> QED
    BY <2>1, <2>2, Zenon DEF Owned
<1> QED
  BY <1>1, <1>2

LEMMA OwnedBlocks ==
  ASSUME NEW s \in Seq(Tokens), NEW r, Owned(s, r)
  PROVE  \A k \in 1 .. Len(FullBlocks(s)) : OwnBlock(FullBlocks(s)[k], r)
<1>1. \A k \in 1 .. Len(FullBlocks(s)), j \in 1 .. BlockSize :
        /\ (k - 1) * BlockSize + j \in 1 .. Len(s)
        /\ FullBlocks(s)[k][j] = s[(k - 1) * BlockSize + j]
  BY FullBlocksIs
<1> QED
  BY <1>1, Zenon DEF Owned, OwnBlock

(* The parts of a buffer that is filled are the run's own.                 *)
LEMMA OwnedFilled ==
  ASSUME TypeInv, NEW r \in Runs, NEW tokens \in Seq(Tokens),
         Own(r), Owned(tokens, r)
  PROVE  LET c == Filled(r, tokens)
         IN  /\ Owned(c.currentBlock, r)
             /\ \A k \in 1 .. Len(c.completedBlocks) :
                  OwnBlock(c.completedBlocks[k], r)
             /\ c.allWrittenTokens = buffer[r].allWrittenTokens
<1> DEFINE b == buffer[r]
           new == NewTokens(r, tokens)
           c == Filled(r, tokens)
           a == All(b, new)
           F == FullBlocks(a)
           D == b.completedBlocks
<1>1. /\ b \in Buffers /\ b.currentBlock \in Seq(Tokens) /\ b.processed \in Nat
      /\ D \in Seq(Blocks)
  BY BufferType
<1>2. new \in Seq(Tokens)
  BY NewTokensType
<1>3. /\ a \in Seq(Tokens) /\ c.completedBlocks = D \o F
      /\ c.currentBlock = SubSeq(a, Len(F) * BlockSize + 1, Len(a))
      /\ c.allWrittenTokens = b.allWrittenTokens
  BY <1>1, <1>2, AddTokens DEF Filled
<1>4. Owned(new, r)
  BY <1>1, OwnedSuffix DEF NewTokens
<1>5. Owned(a, r)
  <2>1. Owned(b.currentBlock, r)
    BY DEF Own, OwnOf
  <2> QED
    BY <1>1, <1>2, <1>4, <2>1, OwnedConcat DEF All
<1>6. F \in Seq(Blocks) /\ \A k \in 1 .. Len(F) : OwnBlock(F[k], r)
  BY <1>3, <1>5, FullBlocksIs, OwnedBlocks
<1>7. Len(F) * BlockSize \in Nat
  BY <1>6, ContentIs
<1> HIDE DEF F
<1>8. Owned(c.currentBlock, r)
  BY <1>3, <1>5, <1>7, OwnedSuffix
<1> HIDE DEF c
<1>9. ASSUME NEW k \in 1 .. Len(c.completedBlocks)
      PROVE  OwnBlock(c.completedBlocks[k], r)
  <2>1. /\ Len(D \o F) = Len(D) + Len(F) /\ Len(D) \in Nat /\ Len(F) \in Nat
        /\ \A i \in 1 .. Len(D) + Len(F) :
             (D \o F)[i] = IF i <= Len(D) THEN D[i] ELSE F[i - Len(D)]
    BY <1>1, <1>6, ConcatProperties
  <2>2. /\ \A i \in 1 .. Len(D) : OwnBlock(D[i], r)
    BY DEF Own, OwnOf
  <2> HIDE DEF D
  <2>3. k \in 1 .. Len(D) + Len(F)
    BY <1>3, <2>1
  <2>4. CASE k <= Len(D)
    <3>1. k \in 1 .. Len(D) /\ c.completedBlocks[k] = D[k]
      BY <1>3, <2>1, <2>3, <2>4
    <3> QED
      BY <2>2, <3>1, Zenon
  <2>5. CASE ~(k <= Len(D))
    <3>1. k - Len(D) \in 1 .. Len(F) /\ c.completedBlocks[k] = F[k - Len(D)]
      BY <1>3, <2>1, <2>3, <2>5
    <3> QED
      BY <1>6, <3>1, Zenon
  <2> QED
    BY <2>4, <2>5
<1> QED
  BY <1>3, <1>8, <1>9 DEF c

OwnStep(r) ==
  /\ Own(r)'
  /\ buffer[r].allWrittenTokens # <<>> => buffer'[r].allWrittenTokens # <<>>

LEMMA NotEmptied ==
  ASSUME NEW s \in Seq(Tokens), NEW t \in Seq(Tokens), s # <<>>
  PROVE  s \o t # <<>>
BY ConcatEqualIffEmpty

LEMMA RestOwn ==
  ASSUME TypeInv, NEW r \in Runs, Own(r),
         NextTurn(r) \/ RunEnds(r) \/ Validated(r)
  PROVE  OwnStep(r)
<1>1. UNCHANGED <<conversation, buffer, futures>>
  BY DEF NextTurn, RunEnds, Validated
<1> QED
  BY <1>1, Zenon DEF OwnStep, Own

LEMMA AddPromptOwn ==
  ASSUME TypeInv, NEW r \in Runs, Own(r), AddPrompt(r)
  PROVE  OwnStep(r)
<1>1. UNCHANGED <<buffer, futures>>
  BY DEF AddPrompt
<1>2. turn[r] \in 1 .. Len(PromptLengths)
  BY WithinBounds DEF AddPrompt
<1>3. conversation'[r] = conversation[r] \o PromptTokens(turn[r])
  BY DEF AddPrompt, TypeInv
<1>4. Owned(PromptTokens(turn[r]), r)
  BY <1>2, PromptIs DEF Owned
<1>5. Owned(conversation'[r], r)
  <2>1. Owned(conversation[r], r) /\ conversation[r] \in Seq(Tokens)
        /\ PromptTokens(turn[r]) \in Seq(Tokens)
    BY <1>2, BufferType, PromptIs DEF Own, OwnOf
  <2> QED
    BY <1>3, <1>4, <2>1, OwnedConcat
<1> QED
  BY <1>1, <1>5, Zenon DEF OwnStep, Own, OwnOf

LEMMA CacheCheckedOwn ==
  ASSUME TypeInv, NEW r \in Runs, Own(r), CacheChecked(r)
  PROVE  OwnStep(r)
<1>1. UNCHANGED <<conversation, futures>>
  BY DEF CacheChecked
<1>2. CASE UNCHANGED buffer
  BY <1>1, <1>2, Zenon DEF OwnStep, Own
<1>3. CASE \E n \in 1 .. Len(lookupBlocks(r)) :
             buffer' = [buffer EXCEPT ![r] = Cached(r, n)]
  <2>1. PICK n \in 1 .. Len(lookupBlocks(r)) :
               buffer' = [buffer EXCEPT ![r] = Cached(r, n)]
    BY <1>3
  <2>2. buffer'[r] = Cached(r, n)
    BY <2>1 DEF TypeInv
  <2>3. /\ Cached(r, n).completedBlocks = buffer[r].completedBlocks
        /\ Cached(r, n).currentBlock = buffer[r].currentBlock
        /\ \E w \in Seq(Tokens) :
             Cached(r, n).allWrittenTokens = buffer[r].allWrittenTokens \o w
    BY CachedIs
  <2>4. buffer[r].allWrittenTokens # <<>> => buffer'[r].allWrittenTokens # <<>>
    BY <2>2, <2>3, BufferType, NotEmptied
  <2> QED
    BY <1>1, <2>2, <2>3, <2>4, Zenon DEF OwnStep, Own, OwnOf
<1> QED
  BY <1>2, <1>3, CacheCheckedCases

LEMMA FlushOwn ==
  ASSUME TypeInv, NEW r \in Runs, Own(r), NEW tokens \in Seq(Tokens),
         Owned(tokens, r), conversation'[r] = tokens, NEW p, NEW q,
         AddAndFlush(r, tokens, p, q)
  PROVE  OwnStep(r)
<1> DEFINE c == Filled(r, tokens)
<1>1. /\ c \in Buffers
      /\ Owned(c.currentBlock, r)
      /\ \A k \in 1 .. Len(c.completedBlocks) : OwnBlock(c.completedBlocks[k], r)
      /\ c.allWrittenTokens = buffer[r].allWrittenTokens
  BY NewTokensType, OwnedFilled
<1> HIDE DEF c
<1>2. CASE /\ Flushes(r, tokens)
           /\ buffer' = [buffer EXCEPT ![r] = Flushing(c)]
           /\ futures' = [futures EXCEPT ![r] = Launched(c)]
  <2>1. buffer'[r] = Flushing(c) /\ futures'[r] = Launched(c)
    BY <1>2 DEF TypeInv
  <2>2. c.completedBlocks # <<>>
    BY <1>2 DEF Flushes, c
  <2>3. /\ Flushing(c).completedBlocks = c.completedBlocks
        /\ Flushing(c).currentBlock = c.currentBlock
        /\ Flushing(c).allWrittenTokens # <<>>
    BY <1>1, <2>2, FlushingIs
  <2>4. /\ Len(Launched(c)) = Len(c.completedBlocks)
        /\ \A i \in 1 .. Len(c.completedBlocks) :
             Launched(c)[i].version.block = c.completedBlocks[i]
    BY <1>1, LaunchedIs
  <2>5. \A i \in 1 .. Len(Launched(c)) : OwnBlock(Launched(c)[i].version.block, r)
    BY <1>1, <2>4, Zenon
  <2>6. OwnOf(tokens, buffer'[r], futures'[r], r)
    BY <1>1, <2>1, <2>3, <2>5, Zenon DEF OwnOf
  <2> QED
    BY <2>1, <2>3, <2>6, Zenon DEF OwnStep, Own
<1>3. CASE /\ buffer' = [buffer EXCEPT ![r] = c]
           /\ futures' = [futures EXCEPT ![r] = <<>>]
  <2>1. buffer'[r] = c /\ futures'[r] = <<>>
    BY <1>3 DEF TypeInv
  <2>2. 1 .. Len(<<>>) = {}
    OBVIOUS
  <2>3. OwnOf(tokens, buffer'[r], futures'[r], r)
    BY <1>1, <2>1, <2>2, Zenon DEF OwnOf
  <2> QED
    BY <1>1, <2>1, <2>3, Zenon DEF OwnStep, Own
<1> QED
  BY <1>2, <1>3, FlushCases DEF c

LEMMA FlushPromptOwn ==
  ASSUME TypeInv, NEW r \in Runs, Own(r), FlushPrompt(r)
  PROVE  OwnStep(r)
<1>1. /\ AddAndFlush(r, conversation[r], "flushingPrompt", "agent")
      /\ conversation'[r] = conversation[r]
  BY DEF FlushPrompt
<1>2. conversation[r] \in Seq(Tokens) /\ Owned(conversation[r], r)
  BY BufferType DEF Own, OwnOf
<1> QED
  BY <1>1, <1>2, FlushOwn

LEMMA FlushAgentOwn ==
  ASSUME TypeInv, NEW r \in Runs, Own(r), FlushAgent(r)
  PROVE  OwnStep(r)
<1>1. turn[r] \in 1 .. Len(PromptLengths)
  BY WithinBounds DEF FlushAgent
<1> DEFINE tokens == conversation[r] \o AgentTokens(r, turn[r])
<1>2. conversation'[r] = tokens
  BY DEF FlushAgent, TypeInv
<1>3. AddAndFlush(r, tokens, "flushingAgent", "turn")
  <2>1. AddAndFlush(r, conversation'[r], "flushingAgent", "turn")
    BY DEF FlushAgent
  <2> QED
    BY <1>2, <2>1, Zenon
<1>4. tokens \in Seq(Tokens) /\ Owned(tokens, r)
  <2>1. Owned(conversation[r], r) /\ conversation[r] \in Seq(Tokens)
        /\ AgentTokens(r, turn[r]) \in Seq(Tokens)
        /\ Owned(AgentTokens(r, turn[r]), r)
    BY <1>1, BufferType, AgentIs DEF Own, OwnOf, Owned
  <2> QED
    BY <2>1, OwnedConcat, ConcatProperties
<1> HIDE DEF tokens
<1> QED
  BY <1>2, <1>3, <1>4, FlushOwn

LEMMA FlushEndsOwn ==
  ASSUME TypeInv, NEW r \in Runs, Own(r), FlushEnds(r)
  PROVE  OwnStep(r)
<1>1. futures'[r] = <<>> /\ UNCHANGED conversation
  BY FlushEndsCases DEF TypeInv
<1>2. /\ buffer'[r].currentBlock = buffer[r].currentBlock
      /\ buffer'[r].allWrittenTokens = buffer[r].allWrittenTokens
      /\ \/ buffer'[r].completedBlocks = buffer[r].completedBlocks
         \/ buffer'[r].completedBlocks = <<>>
  <2>1. buffer \in [Runs -> Buffers]
    BY DEF TypeInv
  <2>2. \/ UNCHANGED buffer
        \/ buffer' = [buffer EXCEPT ![r].completedBlocks = <<>>]
    BY FlushEndsCases
  <2> QED
    BY <2>1, <2>2 DEF Buffers
<1>3. 1 .. Len(<<>>) = {}
  OBVIOUS
<1> QED
  BY <1>1, <1>2, <1>3, Zenon DEF OwnStep, Own, OwnOf

LEMMA WriteEndsOwn ==
  ASSUME TypeInv, NEW r \in Runs, Own(r),
         NEW i \in DOMAIN futures[r], WriteEnds(r, i)
  PROVE  OwnStep(r)
<1>1. UNCHANGED <<conversation, buffer>> /\ \E s : Ended(r, i, s)
  BY WriteEndsCases
<1>2. /\ Len(futures'[r]) = Len(futures[r])
      /\ \A j \in 1 .. Len(futures[r]) :
           futures'[r][j].version = futures[r][j].version
  BY <1>1 DEF Ended
<1>3. futures[r] # <<>>
  BY BufferType
<1> QED
  BY <1>1, <1>2, <1>3, Zenon DEF OwnStep, Own, OwnOf

LEMMA OwnKept == TypeInv /\ OwnInv /\ [Next]_vars => OwnInv'
<1> SUFFICES ASSUME TypeInv, OwnInv, [Next]_vars
             PROVE  OwnInv'
  OBVIOUS
<1>1. CASE UNCHANGED core
  <2>1. UNCHANGED <<published, conversation, buffer, futures>>
    BY <1>1 DEF core
  <2> QED
    BY <2>1, Zenon DEF OwnInv, Own
<1>2. ASSUME NEW r \in Runs,
             runConversation(r) \/ \E i \in DOMAIN futures[r] : WriteEnds(r, i)
      PROVE  OwnInv'
  <2>1. Own(r) /\ \A s \in Runs : Own(s)
    BY DEF OwnInv
  <2>2. OwnStep(r)
    BY <1>2, <2>1, RestOwn, AddPromptOwn, CacheCheckedOwn, FlushPromptOwn,
       FlushAgentOwn, FlushEndsOwn, WriteEndsOwn DEF runConversation
  <2>3. Others(r)
    BY <1>2, OthersStay
  <2>4. ASSUME NEW s \in Runs PROVE Own(s)'
    <3>1. CASE s = r
      BY <2>2, <3>1 DEF OwnStep
    <3>2. CASE s # r
      <4>1. /\ conversation'[s] = conversation[s] /\ buffer'[s] = buffer[s]
            /\ futures'[s] = futures[s]
        BY <2>3, <3>2 DEF Others
      <4> QED
        BY <2>1, <4>1, Zenon DEF Own
    <3> QED
      BY <3>1, <3>2
  <2>5. \A q \in Runs :
          buffer[q].allWrittenTokens # <<>> => buffer'[q].allWrittenTokens # <<>>
    BY <2>2, <2>3, Zenon DEF OwnStep, Others
  <2>6. ASSUME NEW v \in published', NEW j \in 1 .. BlockSize, NEW q \in Runs,
               v.block[j][1] = q
        PROVE  buffer'[q].allWrittenTokens # <<>>
    <3>1. CASE v \in published
      BY <2>5, <2>6, <3>1, Zenon DEF OwnInv
    <3>2. CASE v \notin published
      <4>1. PICK i \in 1 .. Len(futures[r]) : v = futures[r][i].version
        BY <1>2, <2>6, <3>2, NewVersion
      <4>2. OwnBlock(v.block, r) /\ buffer[r].allWrittenTokens # <<>>
        <5>1. futures[r] # <<>>
          BY <4>1
        <5> QED
          BY <2>1, <4>1, <5>1, Zenon DEF Own, OwnOf
      <4>3. q = r
        <5>1. q \in {0, r}
          BY <2>6, <4>2, Zenon DEF OwnBlock
        <5> QED
          BY <5>1, SizesAssumption
      <4> QED
        BY <2>5, <4>2, <4>3
    <3> QED
      BY <3>1, <3>2
  <2> QED
    BY <2>4, <2>6 DEF OwnInv
<1> QED
  BY <1>1, <1>2, Steps

LEMMA OwnInit == Init => OwnInv
<1> SUFFICES ASSUME Init
             PROVE  OwnInv
  OBVIOUS
<1>1. 1 .. Len(<<>>) = {}
  OBVIOUS
<1>2. ASSUME NEW r \in Runs PROVE Own(r)
  <2>1. conversation[r] = <<>> /\ futures[r] = <<>> /\ buffer[r] = EmptyBuffer
    BY <1>2 DEF Init
  <2> QED
    BY <1>1, <2>1, EmptyBufferType, Zenon DEF Own, OwnOf, Owned
<1> QED
  BY <1>2 DEF OwnInv, Init

-----------------------------------------------------------------------------
(* What the buffer has and what counts as written are the conversation.    *)

LEMMA RestAccount ==
  ASSUME TypeInv, NEW r \in Runs, Account(r),
         NextTurn(r) \/ RunEnds(r) \/ Validated(r)
  PROVE  Account(r)'
<1>1. UNCHANGED <<conversation, buffer, futures>>
  BY DEF NextTurn, RunEnds, Validated
<1>2. /\ pc[r] \in {"turn", "validating"}
      /\ pc'[r] \in {"done", "validating", "prompt"}
  BY DEF NextTurn, RunEnds, Validated, TypeInv
<1>3. AccountOf(pc'[r], conversation[r], buffer[r], futures[r], r)
  BY <1>2 DEF Account, AccountOf, InFlush, BetweenTurns
<1> QED
  BY <1>1, <1>3, Zenon DEF Account

(* The processed part stays the same as the conversation grows.            *)
LEMMA CountedStays ==
  ASSUME NEW b \in Buffers, NEW s \in Seq(Tokens), NEW t \in Seq(Tokens),
         Counted(b, s)
  PROVE  Counted(b, s \o t)
<1> DEFINE p == b.processed
           u == s \o t
<1>1. p \in Nat /\ p <= Len(s) /\ Len(s) \in Nat /\ Len(t) \in Nat
  BY DEF Buffers, Counted
<1>2. u \in Seq(Tokens) /\ Len(u) = Len(s) + Len(t)
      /\ \A i \in 1 .. Len(s) + Len(t) :
           u[i] = IF i <= Len(s) THEN s[i] ELSE t[i - Len(s)]
  BY ConcatProperties
<1> HIDE DEF u, p
<1>3. p <= Len(u)
  BY <1>1, <1>2
<1>4. SubSeq(u, 1, p) = SubSeq(s, 1, p)
  <2>1. \A i \in 1 .. p : u[i] = s[i] /\ s[i] \in Tokens
    BY <1>1, <1>2
  <2>2. /\ SubSeq(s, 1, p) \in Seq(Tokens) /\ Len(SubSeq(s, 1, p)) = p
        /\ \A i \in 1 .. p : SubSeq(s, 1, p)[i] = s[i]
    BY <1>1, <2>1
  <2>3. /\ SubSeq(u, 1, p) \in Seq(Tokens) /\ Len(SubSeq(u, 1, p)) = p
        /\ \A i \in 1 .. p : SubSeq(u, 1, p)[i] = u[i]
    BY <1>1, <1>2, <2>1
  <2> QED
    BY <2>1, <2>2, <2>3, SeqEqual
<1> QED
  BY <1>3, <1>4 DEF Counted, p, u

LEMMA MarkedStays ==
  ASSUME NEW s \in Seq(Tokens), NEW t \in Seq(Tokens), NEW r, Marked(s, r)
  PROVE  Marked(s \o t, r)
<1>1. PICK j \in 1 .. Len(s) : j <= BlockSize /\ s[j][1] = r
  BY DEF Marked
<1>2. /\ Len(s \o t) = Len(s) + Len(t) /\ Len(s) \in Nat /\ Len(t) \in Nat
      /\ \A i \in 1 .. Len(s) + Len(t) :
           (s \o t)[i] = IF i <= Len(s) THEN s[i] ELSE t[i - Len(s)]
  BY ConcatProperties
<1> DEFINE u == s \o t
<1> HIDE DEF u
<1>3. j \in 1 .. Len(u) /\ u[j] = s[j]
  BY <1>1, <1>2 DEF u
<1>4. Marked(u, r)
  BY <1>1, <1>3, Zenon DEF Marked
<1> QED
  BY <1>4 DEF u

(* A buffer that is counted and has nothing has processed nothing.         *)
LEMMA NothingCounted ==
  ASSUME NEW b \in Buffers, Counted(b, <<>>)
  PROVE  b.currentBlock = <<>>
<1>1. b.allWrittenTokens \in Seq(Tokens) /\ b.currentBlock \in Seq(Tokens)
      /\ b.processed \in Nat
  BY DEF Buffers
<1>2. b.processed = 0
  BY <1>1 DEF Counted
<1>3. b.allWrittenTokens \o b.currentBlock = <<>>
  BY <1>2 DEF Counted
<1> QED
  BY <1>1, <1>3, ConcatEqualIffEmpty

LEMMA AddPromptAccount ==
  ASSUME TypeInv, NEW r \in Runs, Account(r), AddPrompt(r)
  PROVE  Account(r)'
<1> DEFINE s == conversation[r]
           t == PromptTokens(turn[r])
           b == buffer[r]
           u == s \o t
<1>1. /\ UNCHANGED <<buffer, futures>> /\ pc[r] = "prompt"
      /\ conversation'[r] = u
      /\ \/ pc'[r] = "checking" /\ b.allWrittenTokens = <<>>
         \/ pc'[r] = "adding"
  BY DEF AddPrompt, TypeInv
<1>2. s \in Seq(Tokens) /\ t \in Seq(Tokens) /\ b \in Buffers
  BY <1>1, WithinBounds, PromptIs, BufferType
<1>3. /\ Counted(b, s) /\ b.completedBlocks = <<>> /\ futures[r] = <<>>
      /\ \A i \in 1 .. Len(futures[r]) : futures[r][i].state # "failed"
      /\ b.allWrittenTokens = <<>> => s = <<>> \/ Marked(s, r)
  BY <1>1 DEF Account, AccountOf, InFlush, BetweenTurns
<1> HIDE DEF s, t, b
<1>4. Counted(b, u)
  BY <1>2, <1>3, CountedStays
<1>5. b.allWrittenTokens = <<>> => b.currentBlock = <<>> \/ Marked(u, r)
  <2>1. s = <<>> => b.currentBlock = <<>>
    BY <1>2, <1>3, NothingCounted
  <2>2. Marked(s, r) => Marked(u, r)
    BY <1>2, MarkedStays
  <2> QED
    BY <1>3, <2>1, <2>2
<1> HIDE DEF u
<1>6. ASSUME NEW p,
             (p = "checking" /\ b.allWrittenTokens = <<>>) \/ p = "adding"
      PROVE  AccountOf(p, u, b, futures[r], r)
  BY <1>3, <1>4, <1>5, <1>6 DEF AccountOf, InFlush, BetweenTurns
<1>7. AccountOf(pc'[r], u, b, futures[r], r)
  BY <1>1, <1>6
<1> QED
  BY <1>1, <1>7, Zenon DEF Account, b

(* Nobody else has written a block with a token of the run.                *)
LEMMA OthersBlock ==
  ASSUME TypeInv, OwnInv, NEW r \in Runs, NEW n \in 1 .. Len(lookupBlocks(r)),
         Linked(published, lookupBlocks(r), 1), buffer[r].allWrittenTokens = <<>>
  PROVE  ~Marked(conversation[r], r)
<1> SUFFICES ASSUME Marked(conversation[r], r)
             PROVE  FALSE
  OBVIOUS
<1> DEFINE s == conversation[r]
           F == FullBlocks(s)
<1>1. /\ s \in Seq(Tokens)
      /\ \A k \in 1 .. Len(F), j \in 1 .. BlockSize :
           F[k][j] = s[(k - 1) * BlockSize + j]
  BY BufferType, FullBlocksIs
<1>2. PICK j \in 1 .. Len(s) : j <= BlockSize /\ s[j][1] = r
  BY DEF Marked
<1>3. PICK v \in published : v.block = F[1]
  BY Zenon DEF Linked, lookupBlocks
<1>4. 1 \in 1 .. Len(F) /\ j \in 1 .. BlockSize /\ (1 - 1) * BlockSize + j = j
  <2>1. n \in 1 .. Len(F) /\ Len(F) \in Nat
    BY <1>1, FullBlocksIs DEF lookupBlocks
  <2>2. BlockSize \in Nat /\ Len(s) \in Nat
    BY <1>1, SizesAssumption
  <2> HIDE DEF F, s
  <2> QED
    BY <1>2, <2>1, <2>2
<1> HIDE DEF F, s
<1>5. v.block[j] = s[j]
  BY <1>1, <1>3, <1>4
<1>6. v.block[j][1] = r
  BY <1>2, <1>5
<1> QED
  BY <1>4, <1>6, Zenon DEF OwnInv

LEMMA CacheCheckedAccount ==
  ASSUME TypeInv, OwnInv, NEW r \in Runs, Account(r), CacheChecked(r)
  PROVE  Account(r)'
<1> DEFINE s == conversation[r]
           b == buffer[r]
<1>1. /\ UNCHANGED <<conversation, futures>> /\ pc[r] = "checking"
      /\ pc'[r] = "adding"
  BY DEF CacheChecked, TypeInv
<1>2. /\ Counted(b, s) /\ b.completedBlocks = <<>> /\ futures[r] = <<>>
      /\ \A i \in 1 .. Len(futures[r]) : futures[r][i].state # "failed"
      /\ b.allWrittenTokens = <<>> /\ (b.currentBlock = <<>> \/ Marked(s, r))
  BY <1>1 DEF Account, AccountOf, InFlush
<1>3. ASSUME NEW c, Counted(c, s), c.completedBlocks = <<>>
      PROVE  AccountOf("adding", s, c, futures[r], r)
  <2> HIDE DEF s, b
  <2> QED
    BY <1>2, <1>3 DEF AccountOf, InFlush, BetweenTurns
<1>4. CASE UNCHANGED buffer
  <2>1. AccountOf("adding", s, b, futures[r], r)
    BY <1>2, <1>3
  <2> QED
    BY <1>1, <1>4, <2>1, Zenon DEF Account
<1>5. CASE \E n \in 1 .. Len(lookupBlocks(r)) :
             /\ \A i \in 1 .. n : Linked(published, lookupBlocks(r), i)
             /\ buffer' = [buffer EXCEPT ![r] = Cached(r, n)]
  <2>1. PICK n \in 1 .. Len(lookupBlocks(r)) :
               /\ \A i \in 1 .. n : Linked(published, lookupBlocks(r), i)
               /\ buffer' = [buffer EXCEPT ![r] = Cached(r, n)]
    BY <1>5
  <2> DEFINE c == Cached(r, n)
             w == SubSeq(s, 1, n * BlockSize)
  <2>2. /\ n * BlockSize \in 1 .. Len(s) /\ w \in Seq(Tokens)
        /\ c.completedBlocks = <<>> /\ c.currentBlock = b.currentBlock
        /\ c.processed = n * BlockSize
        /\ c.allWrittenTokens = b.allWrittenTokens \o w
    BY <1>2, CachedIs
  <2>3. b.currentBlock = <<>>
    <3>1. 1 \in 1 .. n
      <4>1. lookupBlocks(r) \in Seq(Blocks)
        BY BufferType
      <4> QED
        BY <4>1
    <3> QED
      BY <1>2, <2>1, <3>1, OthersBlock
  <2>4. c.allWrittenTokens \o c.currentBlock = w
    BY <1>2, <2>2, <2>3, ConcatEmptySeq
  <2>5. Len(s) \in Nat
    BY BufferType
  <2>6. buffer'[r] = c
    BY <2>1 DEF TypeInv
  <2> HIDE DEF c, s, b
  <2>7. Counted(c, s)
    <3>1. c.processed <= Len(s)
      BY <2>2, <2>5
    <3>2. SubSeq(s, 1, c.processed) = w
      BY <2>2, Zenon
    <3> QED
      BY <2>4, <3>1, <3>2, Zenon DEF Counted
  <2>8. AccountOf("adding", s, c, futures[r], r)
    BY <1>3, <2>2, <2>7
  <2> QED
    BY <1>1, <2>6, <2>8, Zenon DEF Account, s
<1> QED
  BY <1>4, <1>5, CacheCheckedCases

(* A flush of the conversation, which ends in one of two ways.             *)
LEMMA FlushAccount ==
  ASSUME TypeInv, NEW r \in Runs, NEW tokens \in Seq(Tokens),
         Counted(buffer[r], tokens), buffer[r].completedBlocks = <<>>,
         conversation'[r] = tokens, NEW p \in InFlush, NEW q \in {"agent", "turn"},
         q = "turn" => Marked(tokens, r) \/ Len(tokens) >= BlockSize,
         AddAndFlush(r, tokens, p, q)
  PROVE  Account(r)'
<1> DEFINE c == Filled(r, tokens)
           d == Flushing(c)
<1>1. /\ c \in Buffers /\ c.processed = Len(tokens)
      /\ Len(c.currentBlock) < BlockSize
      /\ c.allWrittenTokens \o (Content(c.completedBlocks) \o c.currentBlock)
           = tokens
      /\ ~Flushes(r, tokens) => c.completedBlocks = <<>>
  BY NewTokensType, FilledIs
<1>2. Flushes(r, tokens) => c.completedBlocks # <<>>
  BY DEF Flushes
<1> HIDE DEF c
<1>3. /\ c.allWrittenTokens \in Seq(Tokens) /\ c.currentBlock \in Seq(Tokens)
      /\ c.completedBlocks \in Seq(Blocks)
  BY <1>1 DEF Buffers
<1>4. SubSeq(tokens, 1, Len(tokens)) = tokens /\ Len(tokens) \in Nat
  BY SubSeqFull
<1>5. CASE /\ Flushes(r, tokens)
           /\ buffer' = [buffer EXCEPT ![r] = d]
           /\ futures' = [futures EXCEPT ![r] = Launched(c)]
           /\ pc' = [pc EXCEPT ![r] = p]
  <2>1. buffer'[r] = d /\ futures'[r] = Launched(c) /\ pc'[r] = p
    BY <1>5 DEF TypeInv
  <2>2. /\ d.currentBlock = c.currentBlock /\ d.processed = c.processed
        /\ d.allWrittenTokens = c.allWrittenTokens \o Content(c.completedBlocks)
        /\ d.allWrittenTokens # <<>>
    BY <1>1, <1>2, <1>5, FlushingIs
  <2> HIDE DEF d
  <2>3. d.allWrittenTokens \o d.currentBlock = tokens
    <3>1. Content(c.completedBlocks) \in Seq(Tokens)
      BY <1>3, ContentIs
    <3>2. \A x, y, z \in Seq(Tokens) : (x \o y) \o z = x \o (y \o z)
      BY JoinedInAnyOrder
    <3> DEFINE x == c.allWrittenTokens
               y == Content(c.completedBlocks)
               z == c.currentBlock
    <3>3. (x \o y) \o z = x \o (y \o z) /\ x \o (y \o z) = tokens
      BY <1>1, <1>3, <3>1, <3>2
    <3>4. d.allWrittenTokens = x \o y /\ d.currentBlock = z
      BY <2>2
    <3> HIDE DEF x, y, z
    <3> QED
      BY <3>3, <3>4
  <2>4. Counted(d, tokens)
    <3>1. d.processed <= Len(tokens)
      BY <1>1, <1>4, <2>2
    <3>2. SubSeq(tokens, 1, d.processed) = tokens
      BY <1>1, <1>4, <2>2, Zenon
    <3> QED
      BY <2>3, <3>1, <3>2, Zenon DEF Counted
  <2>5. \A i \in 1 .. Len(Launched(c)) : Launched(c)[i].state # "failed"
    BY <1>1, LaunchedIs
  <2>6. AccountOf(p, tokens, d, Launched(c), r)
    BY <1>1, <2>2, <2>4, <2>5 DEF AccountOf, InFlush, BetweenTurns
  <2> QED
    BY <2>1, <2>6, Zenon DEF Account
<1>6. CASE /\ ~Flushes(r, tokens)
           /\ buffer' = [buffer EXCEPT ![r] = c]
           /\ futures' = [futures EXCEPT ![r] = <<>>]
           /\ pc' = [pc EXCEPT ![r] = q]
  <2>1. buffer'[r] = c /\ futures'[r] = <<>> /\ pc'[r] = q
    BY <1>6 DEF TypeInv
  <2>2. c.allWrittenTokens \o c.currentBlock = tokens
    BY <1>1, <1>3, <1>6, NoContent, ConcatEmptySeq
  <2>3. Counted(c, tokens)
    <3>1. c.processed <= Len(tokens)
      BY <1>1, <1>4
    <3>2. SubSeq(tokens, 1, c.processed) = tokens
      BY <1>1, <1>4, Zenon
    <3> QED
      BY <2>2, <3>1, <3>2, Zenon DEF Counted
  <2>4. c.allWrittenTokens = <<>> => Len(tokens) < BlockSize
    BY <1>1, <1>3, <2>2, ConcatEmptySeq
  <2>5. q = "turn" /\ c.allWrittenTokens = <<>> =>
          Len(tokens) < BlockSize /\ Marked(tokens, r)
    BY <1>4, <2>4, SizesAssumption
  <2>6. \A i \in 1 .. Len(<<>>) : <<>>[i].state # "failed"
    OBVIOUS
  <2>7. AccountOf(q, tokens, c, <<>>, r)
    BY <1>1, <1>6, <2>3, <2>5, <2>6 DEF AccountOf, InFlush, BetweenTurns
  <2> QED
    BY <2>1, <2>7, Zenon DEF Account
<1> QED
  BY <1>5, <1>6, FlushCases DEF c

LEMMA FlushPromptAccount ==
  ASSUME TypeInv, NEW r \in Runs, Account(r), FlushPrompt(r)
  PROVE  Account(r)'
<1>1. /\ AddAndFlush(r, conversation[r], "flushingPrompt", "agent")
      /\ conversation'[r] = conversation[r] /\ pc[r] = "adding"
  BY DEF FlushPrompt
<1>2. /\ Counted(buffer[r], conversation[r])
      /\ buffer[r].completedBlocks = <<>>
      /\ conversation[r] \in Seq(Tokens)
  BY <1>1, BufferType DEF Account, AccountOf, InFlush
<1>3. "flushingPrompt" \in InFlush /\ "agent" \in {"agent", "turn"}
  BY DEF InFlush
<1> DEFINE p == "flushingPrompt"
           q == "agent"
<1>4. p \in InFlush /\ q \in {"agent", "turn"} /\ q # "turn"
      /\ AddAndFlush(r, conversation[r], p, q)
  BY <1>1, <1>3
<1> HIDE DEF p, q
<1> QED
  BY <1>1, <1>2, <1>4, FlushAccount

LEMMA FlushAgentAccount ==
  ASSUME TypeInv, NEW r \in Runs, Account(r), FlushAgent(r)
  PROVE  Account(r)'
<1> DEFINE s == conversation[r]
           t == AgentTokens(r, turn[r])
           tokens == s \o t
<1>1. pc[r] = "agent" /\ turn[r] \in 1 .. Len(PromptLengths)
  BY WithinBounds DEF FlushAgent
<1>2. conversation'[r] = tokens
  BY DEF FlushAgent, TypeInv
<1>3. AddAndFlush(r, tokens, "flushingAgent", "turn")
  <2>1. AddAndFlush(r, conversation'[r], "flushingAgent", "turn")
    BY DEF FlushAgent
  <2> QED
    BY <1>2, <2>1, Zenon
<1>4. /\ s \in Seq(Tokens) /\ t \in Seq(Tokens) /\ Len(t) = AgentLength
      /\ \A i \in 1 .. AgentLength : t[i] = <<r, turn[r], i>>
      /\ AgentLength \in Nat \ {0} /\ BlockSize \in Nat \ {0}
  BY <1>1, BufferType, AgentIs, SizesAssumption
<1>5. Counted(buffer[r], s) /\ buffer[r].completedBlocks = <<>>
      /\ buffer[r] \in Buffers
  BY <1>1, BufferType DEF Account, AccountOf, InFlush
<1>6. tokens \in Seq(Tokens) /\ Len(tokens) = Len(s) + AgentLength
      /\ \A i \in 1 .. Len(s) + AgentLength :
           tokens[i] = IF i <= Len(s) THEN s[i] ELSE t[i - Len(s)]
  <2>1. tokens \in Seq(Tokens) /\ Len(tokens) = Len(s) + Len(t)
        /\ \A i \in 1 .. Len(s) + Len(t) :
             tokens[i] = IF i <= Len(s) THEN s[i] ELSE t[i - Len(s)]
    <3>1. s \in Seq(Tokens) /\ t \in Seq(Tokens)
      BY <1>4
    <3> HIDE DEF s, t
    <3> QED
      BY <3>1, ConcatProperties
  <2>2. Len(t) = AgentLength
    BY <1>4
  <2> HIDE DEF tokens, s, t
  <2> QED
    BY <2>1, <2>2
<1>7. Counted(buffer[r], tokens)
  BY <1>4, <1>5, CountedStays
<1>8. Marked(tokens, r) \/ Len(tokens) >= BlockSize
  <2> SUFFICES ASSUME ~(Len(tokens) >= BlockSize)
               PROVE  Marked(tokens, r)
    OBVIOUS
  <2>1. Len(s) \in Nat
    BY <1>4
  <2> HIDE DEF s, t, tokens
  <2> DEFINE j == Len(s) + 1
  <2>2. j \in 1 .. Len(tokens) /\ j <= BlockSize /\ j - Len(s) = 1
        /\ ~(j <= Len(s)) /\ 1 \in 1 .. AgentLength
        /\ j \in 1 .. Len(s) + AgentLength
    BY <1>4, <1>6, <2>1
  <2>3. tokens[j] = t[1]
    BY <1>6, <2>2
  <2>4. tokens[j][1] = r
    BY <1>4, <2>2, <2>3
  <2> QED
    BY <2>2, <2>4 DEF Marked
<1> DEFINE p == "flushingAgent"
           q == "turn"
<1>9. p \in InFlush /\ q \in {"agent", "turn"}
      /\ AddAndFlush(r, tokens, p, q)
  BY <1>3 DEF InFlush
<1> HIDE DEF p, q, tokens
<1> QED
  BY <1>2, <1>5, <1>6, <1>7, <1>8, <1>9, FlushAccount

LEMMA FlushEndsAccount ==
  ASSUME TypeInv, NEW r \in Runs, Account(r), FlushEnds(r)
  PROVE  Account(r)'
<1> DEFINE b == buffer[r]
           c == [b EXCEPT !.completedBlocks = <<>>]
<1>1. /\ pc[r] \in InFlush /\ futures'[r] = <<>> /\ UNCHANGED conversation
      /\ pc'[r] \in {"agent", "turn"} /\ WritesEnded(r)
      /\ \/ AllStored(r) /\ buffer' = [buffer EXCEPT ![r].completedBlocks = <<>>]
         \/ ~AllStored(r)
  BY FlushEndsCases DEF TypeInv, WritesEnded, IsFlushing, InFlush
<1>2. AllStored(r)
  <2>1. futures[r] \in Seq(Futures)
    BY BufferType
  <2>2. \A i \in 1 .. Len(futures[r]) : futures[r][i].state # "failed"
    BY DEF Account, AccountOf
  <2>3. \A i \in 1 .. Len(futures[r]) :
          futures[r][i].state \in {"pending", "stored", "failed"}
    <3>1. \A i \in 1 .. Len(futures[r]) : futures[r][i] \in Futures
      BY <2>1
    <3> QED
      BY <3>1, Zenon DEF Futures
  <2> QED
    BY <1>1, <2>1, <2>2, <2>3 DEF WritesEnded, AllStored
<1>3. buffer'[r] = c
  BY <1>1, <1>2 DEF TypeInv
<1>4. /\ c.completedBlocks = <<>> /\ c.processed = b.processed
      /\ c.allWrittenTokens = b.allWrittenTokens
      /\ c.currentBlock = b.currentBlock
  BY BufferType DEF Buffers
<1>5. /\ Counted(b, conversation[r]) /\ b.processed = Len(conversation[r])
      /\ b.allWrittenTokens # <<>>
  BY <1>1 DEF Account, AccountOf, InFlush
<1> HIDE DEF b, c
<1>6. Counted(c, conversation[r])
  BY <1>4, <1>5 DEF Counted
<1>7. \A i \in 1 .. Len(<<>>) : <<>>[i].state # "failed"
  OBVIOUS
<1>8. AccountOf(pc'[r], conversation[r], c, <<>>, r)
  BY <1>1, <1>4, <1>5, <1>6, <1>7 DEF AccountOf, InFlush, BetweenTurns
<1> QED
  BY <1>1, <1>3, <1>8, Zenon DEF Account

LEMMA WriteEndsAccount ==
  ASSUME TypeInv, NEW r \in Runs, Account(r), r \notin failed',
         NEW i \in DOMAIN futures[r], WriteEnds(r, i)
  PROVE  Account(r)'
<1>1. UNCHANGED <<conversation, buffer, pc>> /\ Ended(r, i, "stored")
  BY WriteEndsCases
<1>2. /\ Len(futures'[r]) = Len(futures[r])
      /\ \A j \in 1 .. Len(futures[r]) :
           futures'[r][j].state = IF j = i THEN "stored" ELSE futures[r][j].state
  BY <1>1 DEF Ended
<1>3. futures[r] # <<>>
  BY BufferType
<1>4. AccountOf(pc[r], conversation[r], buffer[r], futures'[r], r)
  BY <1>2, <1>3 DEF Account, AccountOf
<1> QED
  BY <1>1, <1>4, Zenon DEF Account

LEMMA AccountKept == TypeInv /\ OwnInv /\ AccountInv /\ [Next]_vars => AccountInv'
<1> SUFFICES ASSUME TypeInv, OwnInv, AccountInv, [Next]_vars
             PROVE  AccountInv'
  OBVIOUS
<1>1. CASE UNCHANGED core
  <2>1. UNCHANGED <<pc, conversation, buffer, futures, failed>>
    BY <1>1 DEF core
  <2> QED
    BY <2>1, Zenon DEF AccountInv, Account
<1>2. ASSUME NEW r \in Runs,
             runConversation(r) \/ \E i \in DOMAIN futures[r] : WriteEnds(r, i)
      PROVE  AccountInv'
  <2>1. Others(r)
    BY <1>2, OthersStay
  <2>2. ASSUME r \notin failed' PROVE Account(r)'
    <3>1. Account(r)
      BY <2>1, <2>2 DEF AccountInv, Others
    <3> QED
      BY <1>2, <2>2, <3>1, RestAccount, AddPromptAccount, CacheCheckedAccount,
         FlushPromptAccount, FlushAgentAccount, FlushEndsAccount,
         WriteEndsAccount DEF runConversation
  <2>3. ASSUME NEW s \in Runs \ failed' PROVE Account(s)'
    <3>1. CASE s = r
      BY <2>2, <2>3, <3>1
    <3>2. CASE s # r
      <4>1. /\ conversation'[s] = conversation[s] /\ buffer'[s] = buffer[s]
            /\ futures'[s] = futures[s] /\ pc'[s] = pc[s]
        BY <2>1, <3>2 DEF Others
      <4>2. Account(s)
        BY <2>1, <2>3 DEF AccountInv, Others
      <4> QED
        BY <4>1, <4>2, Zenon DEF Account
    <3> QED
      BY <3>1, <3>2
  <2> QED
    BY <2>3, Zenon DEF AccountInv
<1> QED
  BY <1>1, <1>2, Steps

LEMMA AccountInit == Init => AccountInv
<1> SUFFICES ASSUME Init, NEW r \in Runs
             PROVE  Account(r)
  BY DEF AccountInv
<1>1. /\ conversation[r] = <<>> /\ futures[r] = <<>> /\ pc[r] = "turn"
      /\ buffer[r] = EmptyBuffer
  BY DEF Init
<1>2. Counted(EmptyBuffer, <<>>)
  <2>1. /\ EmptyBuffer.processed = 0 /\ EmptyBuffer.allWrittenTokens = <<>>
        /\ EmptyBuffer.currentBlock = <<>>
    BY EmptyBufferType
  <2>2. Len(<<>>) = 0 /\ <<>> \o <<>> = <<>> /\ SubSeq(<<>>, 1, 0) = <<>>
    OBVIOUS
  <2> QED
    BY <2>1, <2>2 DEF Counted
<1>3. Len(<<>>) = 0 /\ \A i \in 1 .. Len(<<>>) : <<>>[i].state # "failed"
  OBVIOUS
<1>4. AccountOf("turn", <<>>, EmptyBuffer, <<>>, r)
  BY <1>2, <1>3, EmptyBufferType DEF AccountOf, InFlush, BetweenTurns
<1> QED
  BY <1>1, <1>4, Zenon DEF Account

RunInv == TypeInv /\ OwnInv /\ AccountInv

LEMMA RunInvariant == Spec => []RunInv
<1>1. Init => RunInv
  BY TypeInit, OwnInit, AccountInit DEF RunInv
<1>2. RunInv /\ [Next]_vars => RunInv'
  BY TypeKept, OwnKept, AccountKept DEF RunInv
<1> QED
  BY <1>1, <1>2, PTL DEF Spec

(* Unless a request of the run has failed, no token of its conversation is *)
(* written twice, skipped or moved by the buffer, for any number of runs,  *)
(* length of the prompts and size of a block.                              *)
THEOREM EveryTokenOnce == Spec => []TokensAccounted
<1>1. RunInv => TokensAccounted
  BY DEF RunInv, AccountInv, Account, AccountOf, Counted, TokensAccounted
<1> QED
  BY <1>1, RunInvariant, PTL

-----------------------------------------------------------------------------
(* The inductive invariant of what a run writes: the blocks that count as  *)
(* written form a chain, whose last ones are those of the writes under     *)
(* way, unless a request of the run has failed.                            *)

ParentIn(blocks, i) == IF i = 1 THEN NoParent ELSE blocks[i - 1]

Links(v, blocks, i) == v.block = blocks[i] /\ v.parent = ParentIn(blocks, i)

ChainOf(b, f) ==
  LET blocks == FullBlocks(b.allWrittenTokens)
      rest == Len(blocks) - Len(f)
  IN /\ Whole(b.allWrittenTokens) /\ rest >= 0
     /\ b.lastWrittenHash = ParentIn(blocks, Len(blocks) + 1)
     /\ \A i \in 1 .. Len(f) : Links(f[i].version, blocks, rest + i)

Chain(r) == ChainOf(buffer[r], futures[r])
ChainInv == \A r \in Runs \ failed : Chain(r)

LEMMA RestChain ==
  ASSUME NEW r \in Runs, Chain(r),
         NextTurn(r) \/ RunEnds(r) \/ Validated(r) \/ AddPrompt(r)
  PROVE  Chain(r)'
<1>1. UNCHANGED <<buffer, futures>>
  BY DEF NextTurn, RunEnds, Validated, AddPrompt
<1> QED
  BY <1>1, Zenon DEF Chain

(* The blocks of the conversation that a lookup found count as written.    *)
CachedOf(r, n) ==
  LET b == buffer'[r]
      W == FullBlocks(b.allWrittenTokens)
  IN /\ buffer[r].allWrittenTokens = <<>>
     /\ b.allWrittenTokens \in Seq(Tokens) /\ Whole(b.allWrittenTokens)
     /\ Begins(b.allWrittenTokens, conversation[r])
     /\ Len(W) = n /\ \A k \in 1 .. n : W[k] = lookupBlocks(r)[k]
     /\ b.lastWrittenHash = lookupBlocks(r)[n]

LEMMA CachedWritten ==
  ASSUME TypeInv, NEW r \in Runs, Account(r), pc[r] = "checking",
         NEW n \in 1 .. Len(lookupBlocks(r)),
         buffer' = [buffer EXCEPT ![r] = Cached(r, n)]
  PROVE  CachedOf(r, n)
<1> DEFINE s == conversation[r]
           w == SubSeq(s, 1, n * BlockSize)
           W == FullBlocks(w)
           L == lookupBlocks(r)
           b == buffer'[r]
<1>1. buffer[r].allWrittenTokens = <<>>
  BY DEF Account, AccountOf, InFlush
<1>2. b = Cached(r, n)
  BY DEF TypeInv
<1>3. /\ w \in Seq(Tokens) /\ Len(w) = n * BlockSize /\ Begins(w, s)
      /\ b.lastWrittenHash = L[n]
      /\ b.allWrittenTokens = w
  <2>1. /\ w \in Seq(Tokens) /\ Len(w) = n * BlockSize /\ Begins(w, s)
        /\ b.lastWrittenHash = L[n]
        /\ b.allWrittenTokens = <<>> \o w
    BY <1>1, <1>2, CachedIs
  <2>2. <<>> \o w = w
    BY <2>1, ConcatEmptySeq
  <2> QED
    BY <2>1, <2>2, Zenon
<1>4. s \in Seq(Tokens) /\ L \in Seq(Blocks) /\ n \in Nat \ {0}
  <2>1. s \in Seq(Tokens) /\ L \in Seq(Blocks)
    BY BufferType
  <2>2. Len(L) \in Nat
    BY <2>1
  <2> QED
    BY <2>1, <2>2
<1> HIDE DEF w
<1>5. Len(W) = n /\ Whole(w)
  <2>1. Len(W) = Len(w) \div BlockSize
    BY <1>3, FullBlocksIs
  <2>2. Len(W) = n
    BY <1>3, <1>4, <2>1, BlocksOfMultiple
  <2> QED
    BY <1>3, <2>2, Zenon DEF Whole
<1>6. \A k \in 1 .. n : W[k] = L[k]
  BY <1>3, <1>4, <1>5, BlocksOfBeginning DEF lookupBlocks
<1> HIDE DEF L, s, b
<1> QED
  BY <1>1, <1>3, <1>5, <1>6, Zenon DEF CachedOf, L, s, b

LEMMA CacheCheckedChain ==
  ASSUME TypeInv, NEW r \in Runs, Account(r), Chain(r), CacheChecked(r)
  PROVE  Chain(r)'
<1>1. UNCHANGED futures /\ pc[r] = "checking"
  BY DEF CacheChecked
<1>2. futures[r] = <<>>
  BY <1>1 DEF Account, AccountOf, InFlush
<1>3. CASE UNCHANGED buffer
  BY <1>1, <1>3, Zenon DEF Chain
<1>4. ASSUME NEW n \in 1 .. Len(lookupBlocks(r)),
             buffer' = [buffer EXCEPT ![r] = Cached(r, n)]
      PROVE  Chain(r)'
  <2> DEFINE b == buffer'[r]
             W == FullBlocks(b.allWrittenTokens)
  <2>1. /\ Whole(b.allWrittenTokens) /\ Len(W) = n
        /\ \A k \in 1 .. n : W[k] = lookupBlocks(r)[k]
        /\ b.lastWrittenHash = lookupBlocks(r)[n]
    BY <1>1, <1>4, CachedWritten DEF CachedOf
  <2>2. n \in Nat \ {0}
    <3>1. lookupBlocks(r) \in Seq(Blocks)
      BY BufferType
    <3> QED
      BY <3>1
  <2> HIDE DEF W, b
  <2>3. b.lastWrittenHash = ParentIn(W, n + 1)
    <3>1. n + 1 # 1 /\ (n + 1) - 1 = n /\ n \in 1 .. n
      BY <2>2
    <3> QED
      BY <2>1, <3>1, Zenon DEF ParentIn
  <2>4. Len(<<>>) = 0 /\ n - 0 = n /\ n >= 0 /\ 1 .. 0 = {}
    BY <2>2
  <2>5. ChainOf(b, <<>>)
    BY <2>1, <2>3, <2>4, Zenon DEF ChainOf, W
  <2> QED
    BY <1>1, <1>2, <2>5, Zenon DEF Chain, b
<1> QED
  BY <1>3, <1>4, CacheCheckedCases

(* The blocks that a flush writes follow those that count as written.      *)
LEMMA FlushedChain ==
  ASSUME NEW b \in Buffers, NEW e, b.completedBlocks # <<>>,
         e.allWrittenTokens = b.allWrittenTokens,
         e.lastWrittenHash = b.lastWrittenHash, ChainOf(e, <<>>)
  PROVE  ChainOf(Flushing(b), Launched(b))
<1> DEFINE w == b.allWrittenTokens
           D == b.completedBlocks
           v == Flushing(b).allWrittenTokens
           W == FullBlocks(w)
           V == FullBlocks(v)
           L == Launched(b)
           m == Len(W)
           n == Len(D)
<1>1. /\ w \in Seq(Tokens) /\ D \in Seq(Blocks)
      /\ v = w \o Content(D) /\ Flushing(b).lastWrittenHash = D[n]
  BY FlushingIs DEF Buffers
<1>2. /\ W \in Seq(Blocks) /\ m \in Nat /\ n \in Nat \ {0}
  BY <1>1, FullBlocksIs
<1>3. Whole(w) /\ b.lastWrittenHash = ParentIn(W, m + 1)
  BY Zenon DEF ChainOf
<1>4. /\ Whole(v) /\ Len(V) = m + n
      /\ \A k \in 1 .. m : V[k] = W[k]
      /\ \A i \in 1 .. n : V[m + i] = D[i]
  <2> DEFINE u == w \o Content(D)
             U == FullBlocks(u)
  <2>1. v = u
    BY <1>1
  <2>2. /\ Whole(u) /\ Len(U) = m + n
        /\ \A k \in 1 .. m : U[k] = W[k]
        /\ \A i \in 1 .. n : U[m + i] = D[i]
    <3> HIDE DEF w, D
    <3> QED
      BY <1>1, <1>3, AppendedBlocks
  <2> HIDE DEF u, v, m, n, W, D
  <2> QED
    BY <2>1, <2>2
<1>5. /\ Len(L) = n
      /\ \A i \in 1 .. n :
           /\ L[i].version.block = D[i]
           /\ L[i].version.parent = parentHash(b, i)
  BY LaunchedIs
<1> HIDE DEF V, W, L, m, n, D, v
<1>6. ASSUME NEW i \in 1 .. n
      PROVE  Links(L[i].version, V, m + i)
  <2>1. L[i].version.block = V[m + i]
    BY <1>4, <1>5
  <2>2. L[i].version.parent = ParentIn(V, m + i)
    <3>1. CASE i = 1
      <4>1. L[i].version.parent = b.lastWrittenHash
        BY <1>5, <3>1 DEF parentHash
      <4>2. CASE m = 0
        BY <1>3, <3>1, <4>1, <4>2 DEF ParentIn
      <4>3. CASE m # 0
        <5>1. m + 1 # 1 /\ (m + 1) - 1 = m /\ m \in 1 .. m /\ m + i = m + 1
          BY <1>2, <3>1, <4>3
        <5>2. V[m] = W[m]
          BY <1>4, <5>1
        <5> QED
          BY <1>3, <4>1, <5>1, <5>2, Zenon DEF ParentIn
      <4> QED
        BY <4>2, <4>3
    <3>2. CASE i # 1
      <4>1. L[i].version.parent = D[i - 1]
        BY <1>5, <3>2 DEF parentHash, D
      <4>2. /\ i - 1 \in 1 .. n /\ m + i # 1 /\ (m + i) - 1 = m + (i - 1)
        BY <1>2, <3>2
      <4>3. V[m + (i - 1)] = D[i - 1]
        BY <1>4, <4>2
      <4> QED
        BY <4>1, <4>2, <4>3, Zenon DEF ParentIn
    <3> QED
      BY <3>1, <3>2
  <2> QED
    BY <2>1, <2>2 DEF Links
<1>7. Flushing(b).lastWrittenHash = ParentIn(V, Len(V) + 1)
  <2>1. Len(V) + 1 # 1 /\ (Len(V) + 1) - 1 = m + n /\ n \in 1 .. n
    BY <1>2, <1>4
  <2> QED
    BY <1>1, <1>4, <2>1, Zenon DEF ParentIn
<1>8. Len(V) - Len(L) = m /\ m >= 0
  BY <1>2, <1>4, <1>5
<1> QED
  BY <1>4, <1>5, <1>6, <1>7, <1>8, Zenon DEF ChainOf, V, v, L

LEMMA FlushChain ==
  ASSUME TypeInv, NEW r \in Runs, Chain(r),
         NEW tokens \in Seq(Tokens), Counted(buffer[r], tokens),
         buffer[r].completedBlocks = <<>>, futures[r] = <<>>,
         NEW p, NEW q, AddAndFlush(r, tokens, p, q)
  PROVE  Chain(r)'
<1> DEFINE c == Filled(r, tokens)
<1>1. c \in Buffers /\ c.allWrittenTokens = buffer[r].allWrittenTokens
      /\ c.lastWrittenHash = buffer[r].lastWrittenHash
  BY NewTokensType, FilledIs
<1>2. Flushes(r, tokens) => c.completedBlocks # <<>>
  BY DEF Flushes
<1> HIDE DEF c
<1>3. ChainOf(buffer[r], <<>>)
  BY Zenon DEF Chain
<1>4. CASE /\ Flushes(r, tokens)
           /\ buffer' = [buffer EXCEPT ![r] = Flushing(c)]
           /\ futures' = [futures EXCEPT ![r] = Launched(c)]
  <2>1. buffer'[r] = Flushing(c) /\ futures'[r] = Launched(c)
    BY <1>4 DEF TypeInv
  <2>2. ChainOf(Flushing(c), Launched(c))
    BY <1>1, <1>2, <1>3, <1>4, FlushedChain
  <2> QED
    BY <2>1, <2>2, Zenon DEF Chain
<1>5. CASE /\ buffer' = [buffer EXCEPT ![r] = c]
           /\ futures' = [futures EXCEPT ![r] = <<>>]
  <2>1. buffer'[r] = c /\ futures'[r] = <<>>
    BY <1>5 DEF TypeInv
  <2>2. ChainOf(c, <<>>)
    BY <1>1, <1>3, Zenon DEF ChainOf
  <2> QED
    BY <2>1, <2>2, Zenon DEF Chain
<1> QED
  BY <1>4, <1>5, FlushCases DEF c

LEMMA FlushPromptChain ==
  ASSUME TypeInv, NEW r \in Runs, Account(r), Chain(r), FlushPrompt(r)
  PROVE  Chain(r)'
<1>1. /\ AddAndFlush(r, conversation[r], "flushingPrompt", "agent")
      /\ pc[r] = "adding"
  BY DEF FlushPrompt
<1>2. /\ Counted(buffer[r], conversation[r])
      /\ buffer[r].completedBlocks = <<>> /\ futures[r] = <<>>
      /\ conversation[r] \in Seq(Tokens)
  BY <1>1, BufferType DEF Account, AccountOf, InFlush
<1> QED
  BY <1>1, <1>2, FlushChain

(* The agent's tokens come behind the conversation, which the buffer has.  *)
LEMMA AgentFlushes ==
  ASSUME TypeInv, NEW r \in Runs, Account(r), FlushAgent(r)
  PROVE  /\ AddAndFlush(r, conversation'[r], "flushingAgent", "turn")
         /\ conversation'[r] \in Seq(Tokens)
         /\ Counted(buffer[r], conversation'[r])
         /\ buffer[r].completedBlocks = <<>> /\ futures[r] = <<>>
<1> DEFINE s == conversation[r]
           t == AgentTokens(r, turn[r])
           tokens == s \o t
<1>1. pc[r] = "agent" /\ turn[r] \in 1 .. Len(PromptLengths)
  BY WithinBounds DEF FlushAgent
<1>2. conversation'[r] = tokens
  BY DEF FlushAgent, TypeInv
<1>3. AddAndFlush(r, conversation'[r], "flushingAgent", "turn")
  BY DEF FlushAgent
<1>4. s \in Seq(Tokens) /\ t \in Seq(Tokens)
  BY <1>1, BufferType, AgentIs
<1>5. Counted(buffer[r], s) /\ buffer[r].completedBlocks = <<>>
      /\ futures[r] = <<>> /\ buffer[r] \in Buffers
  BY <1>1, BufferType DEF Account, AccountOf, InFlush
<1>6. tokens \in Seq(Tokens) /\ Counted(buffer[r], tokens)
  BY <1>4, <1>5, CountedStays, ConcatProperties
<1> HIDE DEF tokens
<1> QED
  BY <1>2, <1>3, <1>5, <1>6

LEMMA FlushAgentChain ==
  ASSUME TypeInv, NEW r \in Runs, Account(r), Chain(r), FlushAgent(r)
  PROVE  Chain(r)'
<1> DEFINE tokens == conversation'[r]
<1>1. /\ AddAndFlush(r, tokens, "flushingAgent", "turn")
      /\ tokens \in Seq(Tokens) /\ Counted(buffer[r], tokens)
      /\ buffer[r].completedBlocks = <<>> /\ futures[r] = <<>>
  BY AgentFlushes
<1> HIDE DEF tokens
<1> QED
  BY <1>1, FlushChain

LEMMA FlushEndsChain ==
  ASSUME TypeInv, NEW r \in Runs, Chain(r), FlushEnds(r)
  PROVE  Chain(r)'
<1> DEFINE b == buffer[r]
           m == Len(FullBlocks(b.allWrittenTokens))
<1>1. futures'[r] = <<>>
  BY FlushEndsCases DEF TypeInv
<1>2. /\ buffer'[r].allWrittenTokens = b.allWrittenTokens
      /\ buffer'[r].lastWrittenHash = b.lastWrittenHash
  <2>1. \/ buffer' = [buffer EXCEPT ![r].completedBlocks = <<>>]
        \/ UNCHANGED buffer
    BY FlushEndsCases
  <2> QED
    BY <2>1 DEF TypeInv, Buffers
<1>3. m \in Nat
  BY BufferType, FullBlocksIs
<1>4. Whole(b.allWrittenTokens)
      /\ b.lastWrittenHash = ParentIn(FullBlocks(b.allWrittenTokens), m + 1)
  BY Zenon DEF Chain, ChainOf
<1>5. Len(<<>>) = 0 /\ m - 0 >= 0 /\ 1 .. 0 = {}
  <2> HIDE DEF m
  <2> QED
    BY <1>3
<1>6. ChainOf(buffer'[r], <<>>)
  BY <1>2, <1>4, <1>5, Zenon DEF ChainOf
<1> QED
  BY <1>1, <1>6, Zenon DEF Chain

LEMMA WriteEndsChain ==
  ASSUME TypeInv, NEW r \in Runs, Chain(r),
         NEW i \in DOMAIN futures[r], WriteEnds(r, i)
  PROVE  Chain(r)'
<1> DEFINE f == futures[r]
           g == futures'[r]
           b == buffer[r]
<1>1. UNCHANGED buffer /\ \E s : Ended(r, i, s)
  BY WriteEndsCases
<1>2. /\ Len(g) = Len(f)
      /\ \A j \in 1 .. Len(f) : g[j].version = f[j].version
  BY <1>1, Zenon DEF Ended
<1>3. ChainOf(b, f)
  BY DEF Chain
<1>4. ChainOf(b, g)
  <2> HIDE DEF f, g, b
  <2> QED
    BY <1>2, <1>3, Zenon DEF ChainOf
<1> QED
  BY <1>1, <1>4, Zenon DEF Chain

LEMMA ChainKept ==
  TypeInv /\ AccountInv /\ ChainInv /\ [Next]_vars => ChainInv'
<1> SUFFICES ASSUME TypeInv, AccountInv, ChainInv, [Next]_vars
             PROVE  ChainInv'
  OBVIOUS
<1>1. CASE UNCHANGED core
  <2>1. UNCHANGED <<buffer, futures, failed>>
    BY <1>1 DEF core
  <2> QED
    BY <2>1, Zenon DEF ChainInv, Chain
<1>2. ASSUME NEW r \in Runs,
             runConversation(r) \/ \E i \in DOMAIN futures[r] : WriteEnds(r, i)
      PROVE  ChainInv'
  <2>1. Others(r)
    BY <1>2, OthersStay
  <2>2. ASSUME r \notin failed' PROVE Chain(r)'
    <3>1. Account(r) /\ Chain(r)
      BY <2>1, <2>2 DEF AccountInv, ChainInv, Others
    <3> QED
      BY <1>2, <3>1, RestChain, CacheCheckedChain, FlushPromptChain,
         FlushAgentChain, FlushEndsChain, WriteEndsChain DEF runConversation
  <2>3. ASSUME NEW s \in Runs \ failed' PROVE Chain(s)'
    <3>1. CASE s = r
      BY <2>2, <2>3, <3>1
    <3>2. CASE s # r
      <4>1. buffer'[s] = buffer[s] /\ futures'[s] = futures[s]
        BY <2>1, <3>2 DEF Others
      <4>2. Chain(s)
        BY <2>1, <2>3 DEF ChainInv, Others
      <4> QED
        BY <4>1, <4>2, Zenon DEF Chain
    <3> QED
      BY <3>1, <3>2
  <2> QED
    BY <2>3, Zenon DEF ChainInv
<1> QED
  BY <1>1, <1>2, Steps

LEMMA ChainInit == Init => ChainInv
<1> SUFFICES ASSUME Init, NEW r \in Runs
             PROVE  Chain(r)
  BY DEF ChainInv
<1>1. futures[r] = <<>> /\ buffer[r] = EmptyBuffer
  BY DEF Init
<1>2. <<>> \in Seq(Tokens) /\ Len(<<>>) = 0 /\ BlockSize \in Nat \ {0}
  BY SizesAssumption
<1>3. FullBlocks(<<>>) = <<>>
  <2>1. Len(<<>>) < BlockSize
    BY <1>2
  <2> QED
    BY <1>2, <2>1, NoBlocks
<1>4. Whole(<<>>)
  BY <1>2, <1>3 DEF Whole
<1>5. ParentIn(<<>>, Len(<<>>) + 1) = NoParent
  BY DEF ParentIn
<1>6. Len(<<>>) - Len(<<>>) = 0 /\ 0 >= 0 /\ 1 .. 0 = {}
  OBVIOUS
<1>7. ChainOf(EmptyBuffer, <<>>)
  BY <1>2, <1>3, <1>4, <1>5, <1>6, EmptyBufferType, Zenon DEF ChainOf
<1> QED
  BY <1>1, <1>7, Zenon DEF Chain

-----------------------------------------------------------------------------
(* Every conversation begins with the first prompt, whose tokens are       *)
(* nowhere else.                                                           *)

Started(p, t) == t # 0 /\ ~(t = 1 /\ p \in {"validating", "prompt"})

ScriptOf(p, t, s) ==
  /\ \A j \in 1 .. Len(s), i \in Nat : s[j] = <<0, 1, i>> => i = j
  /\ Started(p, t) =>
       /\ PromptLengths[1] <= Len(s)
       /\ \A j \in 1 .. PromptLengths[1] : s[j] = <<0, 1, j>>
  /\ ~Started(p, t) => s = <<>>

Script(r) == ScriptOf(pc[r], turn[r], conversation[r])
ScriptInv == \A r \in Runs : Script(r)

LEMMA FirstPrompt ==
  ASSUME NEW t \in 1 .. Len(PromptLengths)
  PROVE  1 \in 1 .. Len(PromptLengths) /\ PromptLengths[1] \in Nat
<1>1. Len(PromptLengths) \in Nat
  BY SizesAssumption
<1>2. 1 \in 1 .. Len(PromptLengths)
  BY <1>1
<1> QED
  BY <1>2, PromptIs

(* Tokens that are not of the first prompt are added behind it.            *)
LEMMA ScriptGrows ==
  ASSUME NEW s \in Seq(Tokens), NEW t \in Seq(Tokens), NEW p, NEW n, NEW q, NEW m,
         n \in 1 .. Len(PromptLengths),
         ScriptOf(p, n, s), Started(p, n), Started(q, m),
         \A i \in 1 .. Len(t), k \in Nat : t[i] # <<0, 1, k>>
  PROVE  ScriptOf(q, m, s \o t)
<1> DEFINE u == s \o t
<1>1. /\ Len(u) = Len(s) + Len(t) /\ Len(s) \in Nat /\ Len(t) \in Nat
      /\ \A i \in 1 .. Len(s) + Len(t) :
           u[i] = IF i <= Len(s) THEN s[i] ELSE t[i - Len(s)]
  BY ConcatProperties
<1> HIDE DEF u
<1>2. PromptLengths[1] \in Nat
  BY FirstPrompt
<1>3. /\ PromptLengths[1] <= Len(s)
      /\ \A j \in 1 .. PromptLengths[1] : s[j] = <<0, 1, j>>
      /\ \A j \in 1 .. Len(s), i \in Nat : s[j] = <<0, 1, i>> => i = j
  BY Zenon DEF ScriptOf
<1>4. PromptLengths[1] <= Len(u)
  BY <1>1, <1>2, <1>3
<1>5. \A j \in 1 .. PromptLengths[1] : u[j] = <<0, 1, j>>
  <2> TAKE j \in 1 .. PromptLengths[1]
  <2>1. j <= Len(s) /\ j \in 1 .. Len(s) + Len(t)
    BY <1>1, <1>2, <1>3
  <2>2. u[j] = s[j]
    BY <1>1, <2>1
  <2> QED
    BY <1>3, <2>2, Zenon
<1>6. ASSUME NEW j \in 1 .. Len(u), NEW i \in Nat, u[j] = <<0, 1, i>>
      PROVE  i = j
  <2>1. j \in 1 .. Len(s) + Len(t)
    BY <1>1
  <2>2. CASE j <= Len(s)
    <3>1. j \in 1 .. Len(s) /\ u[j] = s[j]
      BY <1>1, <2>1, <2>2
    <3> QED
      BY <1>3, <1>6, <3>1, Zenon
  <2>3. CASE ~(j <= Len(s))
    <3>1. j - Len(s) \in 1 .. Len(t) /\ u[j] = t[j - Len(s)]
      BY <1>1, <2>1, <2>3
    <3> QED
      BY <1>6, <3>1, Zenon
  <2> QED
    BY <2>2, <2>3
<1>7. ScriptOf(q, m, u)
  BY <1>4, <1>5, <1>6, Zenon DEF ScriptOf
<1> QED
  BY <1>7 DEF u

LEMMA ScriptMoves ==
  ASSUME NEW p, NEW t, NEW s, NEW q, NEW u, ScriptOf(p, t, s),
         Started(p, t) <=> Started(q, u)
  PROVE  ScriptOf(q, u, s)
BY Zenon DEF ScriptOf

LEMMA AddPromptScript ==
  ASSUME TypeInv, NEW r \in Runs, Script(r), AddPrompt(r)
  PROVE  Script(r)'
<1> DEFINE s == conversation[r]
           n == turn[r]
           t == PromptTokens(n)
<1>1. /\ pc[r] = "prompt" /\ n \in 1 .. Len(PromptLengths)
      /\ turn'[r] = n /\ conversation'[r] = s \o t
      /\ pc'[r] \in {"checking", "adding"}
  BY WithinBounds DEF AddPrompt, TypeInv
<1>2. /\ s \in Seq(Tokens) /\ t \in Seq(Tokens) /\ Len(t) = PromptLengths[n]
      /\ \A i \in 1 .. PromptLengths[n] : t[i] = <<0, n, i>>
  BY <1>1, BufferType, PromptIs
<1>3. Started(pc'[r], n) /\ n \in Nat \ {0}
  BY <1>1 DEF Started
<1>4. ScriptOf("prompt", n, s)
  BY <1>1 DEF Script
<1> HIDE DEF s, n, t
<1>5. CASE n = 1
  <2>1. s = <<>>
    BY <1>4, <1>5 DEF ScriptOf, Started
  <2>2. s \o t = t
    BY <1>2, <2>1, ConcatEmptySeq
  <2>3. PromptLengths[1] \in Nat
    BY <1>1, FirstPrompt
  <2>4. PromptLengths[1] <= Len(t)
        /\ \A j \in 1 .. PromptLengths[1] : t[j] = <<0, 1, j>>
    BY <1>2, <1>5, <2>3
  <2>5. \A j \in 1 .. Len(t), i \in Nat : t[j] = <<0, 1, i>> => i = j
    BY <1>2, <1>5
  <2>6. ScriptOf(pc'[r], n, t)
    BY <1>3, <2>4, <2>5, Zenon DEF ScriptOf
  <2> QED
    BY <1>1, <2>2, <2>6, Zenon DEF Script
<1>6. CASE n # 1
  <2>1. Started("prompt", n)
    BY <1>3, <1>6 DEF Started
  <2>2. \A i \in 1 .. Len(t), k \in Nat : t[i] # <<0, 1, k>>
    BY <1>2, <1>6
  <2> DEFINE p == "prompt"
             q == pc'[r]
  <2>3. ScriptOf(p, n, s) /\ Started(p, n) /\ Started(q, n)
    BY <1>3, <1>4, <2>1
  <2> HIDE DEF p, q
  <2>4. ScriptOf(q, n, s \o t)
    BY <1>1, <1>2, <2>2, <2>3, ScriptGrows
  <2> QED
    BY <1>1, <2>4, Zenon DEF Script, q
<1> QED
  BY <1>5, <1>6

LEMMA FlushAgentScript ==
  ASSUME TypeInv, NEW r \in Runs, Script(r), FlushAgent(r)
  PROVE  Script(r)'
<1> DEFINE s == conversation[r]
           n == turn[r]
           t == AgentTokens(r, n)
           p == pc[r]
           q == pc'[r]
<1>1. /\ p = "agent" /\ n \in 1 .. Len(PromptLengths)
      /\ turn'[r] = n /\ conversation'[r] = s \o t
  BY WithinBounds DEF FlushAgent, TypeInv
<1>2. q \in {"flushingAgent", "turn"}
  BY DEF FlushAgent, AddAndFlush, TypeInv
<1>3. /\ s \in Seq(Tokens) /\ t \in Seq(Tokens) /\ Len(t) = AgentLength
      /\ \A i \in 1 .. AgentLength : t[i] = <<r, n, i>>
  BY <1>1, BufferType, AgentIs
<1>4. Started(p, n) /\ Started(q, n)
  BY <1>1, <1>2 DEF Started
<1>5. ScriptOf(p, n, s)
  BY DEF Script
<1> HIDE DEF s, n, t, p, q
<1>6. \A i \in 1 .. Len(t), k \in Nat : t[i] # <<0, 1, k>>
  <2>1. r # 0
    BY SizesAssumption
  <2> QED
    BY <1>3, <2>1
<1>7. ScriptOf(q, n, s \o t)
  BY <1>1, <1>3, <1>4, <1>5, <1>6, ScriptGrows
<1> QED
  BY <1>1, <1>7, Zenon DEF Script, q

LEMMA RestScript ==
  ASSUME TypeInv, NEW r \in Runs, Script(r),
         \/ NextTurn(r) \/ RunEnds(r) \/ Validated(r) \/ CacheChecked(r)
         \/ FlushPrompt(r) \/ FlushEnds(r)
         \/ \E i \in DOMAIN futures[r] : WriteEnds(r, i)
  PROVE  Script(r)'
<1>1. turn[r] \in Nat
  <2>1. Len(PromptLengths) \in Nat
    BY SizesAssumption
  <2> QED
    BY <2>1 DEF TypeInv
<1>2. ASSUME conversation'[r] = conversation[r],
             Started(pc[r], turn[r]) <=> Started(pc'[r], turn'[r])
      PROVE  Script(r)'
  <2> DEFINE p == pc[r]
             q == pc'[r]
             t == turn[r]
             u == turn'[r]
             s == conversation[r]
  <2>1. ScriptOf(p, t, s) /\ (Started(p, t) <=> Started(q, u))
    BY <1>2 DEF Script
  <2> HIDE DEF p, q, t, u, s
  <2>2. ScriptOf(q, u, s)
    BY <2>1, ScriptMoves
  <2> QED
    BY <1>2, <2>2, Zenon DEF Script, q, u, s
<1>3. CASE NextTurn(r)
  <2>1. /\ conversation'[r] = conversation[r] /\ turn'[r] = turn[r] + 1
        /\ pc[r] = "turn" /\ pc'[r] \in {"prompt", "validating"}
    BY <1>3 DEF NextTurn, TypeInv
  <2> QED
    BY <1>1, <1>2, <2>1 DEF Started
<1>4. CASE RunEnds(r)
  <2>1. /\ conversation'[r] = conversation[r] /\ turn'[r] = turn[r]
        /\ pc[r] = "turn" /\ pc'[r] = "done"
    BY <1>4 DEF RunEnds, TypeInv
  <2> QED
    BY <1>2, <2>1 DEF Started
<1>5. CASE Validated(r)
  <2>1. /\ conversation'[r] = conversation[r] /\ turn'[r] = turn[r]
        /\ pc[r] = "validating" /\ pc'[r] = "prompt"
    BY <1>5 DEF Validated, TypeInv
  <2> QED
    BY <1>2, <2>1 DEF Started
<1>6. CASE CacheChecked(r)
  <2>1. /\ conversation'[r] = conversation[r] /\ turn'[r] = turn[r]
        /\ pc[r] = "checking" /\ pc'[r] = "adding"
    BY <1>6 DEF CacheChecked, TypeInv
  <2> QED
    BY <1>2, <2>1 DEF Started
<1>7. CASE FlushPrompt(r)
  <2>1. /\ conversation'[r] = conversation[r] /\ turn'[r] = turn[r]
        /\ pc[r] = "adding" /\ pc'[r] \in {"flushingPrompt", "agent"}
    BY <1>7 DEF FlushPrompt, AddAndFlush, TypeInv
  <2> QED
    BY <1>2, <2>1 DEF Started
<1>8. CASE FlushEnds(r)
  <2>1. /\ conversation'[r] = conversation[r] /\ turn'[r] = turn[r]
        /\ pc[r] \in {"flushingPrompt", "flushingAgent"}
        /\ pc'[r] \in {"agent", "turn"}
    BY <1>8, FlushEndsCases DEF TypeInv, WritesEnded, IsFlushing
  <2> QED
    BY <1>2, <2>1 DEF Started
<1>9. CASE \E i \in DOMAIN futures[r] : WriteEnds(r, i)
  <2>1. UNCHANGED <<conversation, turn, pc>>
    BY <1>9 DEF WriteEnds
  <2> QED
    BY <1>2, <2>1
<1> QED
  BY <1>3, <1>4, <1>5, <1>6, <1>7, <1>8, <1>9

LEMMA ScriptKept == TypeInv /\ ScriptInv /\ [Next]_vars => ScriptInv'
<1> SUFFICES ASSUME TypeInv, ScriptInv, [Next]_vars, NEW s \in Runs
             PROVE  Script(s)'
  BY DEF ScriptInv
<1>0. \A r \in Runs : Script(r)
  BY DEF ScriptInv
<1>1. CASE UNCHANGED core
  <2>1. UNCHANGED <<pc, turn, conversation>>
    BY <1>1 DEF core
  <2> QED
    BY <1>0, <2>1, Zenon DEF Script
<1>2. ASSUME NEW r \in Runs,
             runConversation(r) \/ \E i \in DOMAIN futures[r] : WriteEnds(r, i)
      PROVE  Script(s)'
  <2>1. Others(r)
    BY <1>2, OthersStay
  <2>2. Script(r)'
    BY <1>0, <1>2, AddPromptScript, FlushAgentScript, RestScript
       DEF runConversation
  <2>3. CASE s # r
    <3>1. /\ conversation'[s] = conversation[s] /\ pc'[s] = pc[s]
          /\ turn'[s] = turn[s]
      BY <2>1, <2>3 DEF Others
    <3> QED
      BY <1>0, <3>1, Zenon DEF Script
  <2> QED
    BY <2>2, <2>3
<1> QED
  BY <1>1, <1>2, Steps

LEMMA ScriptInit == Init => ScriptInv
<1> SUFFICES ASSUME Init, NEW r \in Runs
             PROVE  Script(r)
  BY DEF ScriptInv
<1>1. pc[r] = "turn" /\ turn[r] = 0 /\ conversation[r] = <<>>
  BY DEF Init
<1>2. 1 .. Len(<<>>) = {}
  OBVIOUS
<1>3. ScriptOf("turn", 0, <<>>)
  BY <1>2, Zenon DEF ScriptOf, Started
<1> QED
  BY <1>1, <1>3, Zenon DEF Script

-----------------------------------------------------------------------------
(* The blocks of the first prompt, and the places where they can be.       *)

Shared == FullBlocks(PromptTokens(1))

LEMMA SharedIs ==
  ASSUME 1 \in 1 .. Len(PromptLengths)
  PROVE  /\ Shared \in Seq(Blocks) /\ Len(Shared) \in Nat
         /\ \A i \in 1 .. Len(Shared), j \in 1 .. BlockSize :
              /\ (i - 1) * BlockSize + j \in 1 .. PromptLengths[1]
              /\ Shared[i][j] = <<0, 1, (i - 1) * BlockSize + j>>
<1> DEFINE s == PromptTokens(1)
<1>1. /\ s \in Seq(Tokens) /\ Len(s) = PromptLengths[1]
      /\ \A i \in 1 .. PromptLengths[1] : s[i] = <<0, 1, i>>
  BY PromptIs
<1>2. Shared \in Seq(Blocks)
      /\ \A i \in 1 .. Len(Shared), j \in 1 .. BlockSize :
           /\ (i - 1) * BlockSize + j \in 1 .. Len(s)
           /\ Shared[i][j] = s[(i - 1) * BlockSize + j]
  <2> HIDE DEF s
  <2> QED
    BY <1>1, FullBlocksIs DEF Shared, s
<1> HIDE DEF s
<1>3. \A i \in 1 .. Len(Shared), j \in 1 .. BlockSize :
        /\ (i - 1) * BlockSize + j \in 1 .. PromptLengths[1]
        /\ Shared[i][j] = <<0, 1, (i - 1) * BlockSize + j>>
  BY <1>1, <1>2, Zenon
<1>4. Len(Shared) \in Nat
  BY <1>2
<1> QED
  BY <1>2, <1>3, <1>4

LEMMA SharedPlace ==
  ASSUME NEW p, NEW t, NEW s \in Seq(Tokens), ScriptOf(p, t, s),
         1 \in 1 .. Len(PromptLengths), NEW w \in Seq(Tokens), Begins(w, s),
         NEW k \in 1 .. Len(FullBlocks(w)), NEW i \in 1 .. Len(Shared),
         FullBlocks(w)[k] = Shared[i]
  PROVE  k = i
<1> DEFINE W == FullBlocks(w)
           a == (k - 1) * BlockSize
           b == (i - 1) * BlockSize
<1>1. BlockSize \in Nat \ {0} /\ 1 \in 1 .. BlockSize
  BY SizesAssumption
<1>2. W \in Seq(Blocks) /\ Len(W) \in Nat /\ Len(Shared) \in Nat
  BY FullBlocksIs, SharedIs
<1>3. a + 1 \in 1 .. Len(w) /\ W[k][1] = w[a + 1]
  BY <1>1, FullBlocksIs
<1>4. b + 1 \in 1 .. PromptLengths[1] /\ Shared[i][1] = <<0, 1, b + 1>>
  BY <1>1, SharedIs
<1>5. k - 1 \in Nat /\ i - 1 \in Nat /\ a \in Nat /\ b \in Nat
  BY <1>1, <1>2, Product
<1>6. w[a + 1] = s[a + 1] /\ a + 1 \in 1 .. Len(s)
  <2> HIDE DEF a
  <2>1. Len(w) \in Nat /\ Len(s) \in Nat
    OBVIOUS
  <2> QED
    BY <1>3, <2>1 DEF Begins
<1>7. s[a + 1] = <<0, 1, b + 1>>
  BY <1>3, <1>4, <1>6
<1>8. b + 1 = a + 1
  <2> HIDE DEF a, b
  <2>1. b + 1 \in Nat
    BY <1>5
  <2> QED
    BY <1>6, <1>7, <2>1, Zenon DEF ScriptOf
<1>9. (k - 1) * BlockSize = (i - 1) * BlockSize
  BY <1>5, <1>8
<1>10. k - 1 = i - 1
  <2> DEFINE x == k - 1
             y == i - 1
  <2>1. x \in Nat /\ y \in Nat /\ x * BlockSize = y * BlockSize
    BY <1>5, <1>9
  <2> HIDE DEF x, y
  <2>2. (x * BlockSize) \div BlockSize = x /\ (y * BlockSize) \div BlockSize = y
    BY <2>1, BlocksOfMultiple
  <2>3. x = y
    BY <2>1, <2>2, Zenon
  <2> QED
    BY <2>3 DEF x, y
<1> QED
  BY <1>2, <1>10

LEMMA SharedBlock ==
  ASSUME NEW p, NEW t, NEW s \in Seq(Tokens), ScriptOf(p, t, s), Started(p, t),
         1 \in 1 .. Len(PromptLengths), NEW w \in Seq(Tokens), Begins(w, s),
         NEW k \in 1 .. Len(FullBlocks(w)), k \in 1 .. Len(Shared)
  PROVE  FullBlocks(w)[k] = Shared[k]
<1> DEFINE W == FullBlocks(w)
<1>1. W[k] \in Blocks /\ Shared[k] \in Blocks
  BY FullBlocksIs, SharedIs
<1>2. ASSUME NEW j \in 1 .. BlockSize
      PROVE  W[k][j] = Shared[k][j]
  <2> DEFINE a == (k - 1) * BlockSize + j
  <2>1. a \in 1 .. Len(w) /\ W[k][j] = w[a]
    BY FullBlocksIs
  <2>2. a \in 1 .. PromptLengths[1] /\ Shared[k][j] = <<0, 1, a>>
    BY SharedIs
  <2> HIDE DEF a
  <2>3. w[a] = s[a]
    BY <2>1 DEF Begins
  <2>4. s[a] = <<0, 1, a>>
    BY <2>2, Zenon DEF ScriptOf
  <2> QED
    BY <2>1, <2>2, <2>3, <2>4
<1> QED
  BY <1>1, <1>2, SameBlock

-----------------------------------------------------------------------------
(* The inductive invariant of SharedBlocksOnce: as long as no request has  *)
(* failed, every version that was ever in the store is a block of some     *)
(* run, with the parent that it has in this run's chain.                   *)

InChainOf(v, w) ==
  \E k \in 1 .. Len(FullBlocks(w)) : Links(v, FullBlocks(w), k)

Known(v) == \E r \in Runs : InChainOf(v, buffer[r].allWrittenTokens)

ShareInv == failed = {} => \A v \in published : Known(v)

(* What is written of a conversation is a beginning of it.                 *)
LEMMA WrittenBegins ==
  ASSUME TypeInv, NEW r \in Runs, Account(r)
  PROVE  Begins(buffer[r].allWrittenTokens, conversation[r])
<1> DEFINE w == buffer[r].allWrittenTokens
           c == buffer[r].currentBlock
           s == conversation[r]
           p == buffer[r].processed
<1>1. /\ w \in Seq(Tokens) /\ c \in Seq(Tokens) /\ s \in Seq(Tokens) /\ p \in Nat
  BY BufferType
<1>2. p <= Len(s) /\ w \o c = SubSeq(s, 1, p)
  BY DEF Account, AccountOf, Counted
<1> HIDE DEF w, c, s, p
<1>3. /\ Len(w \o c) = Len(w) + Len(c) /\ Len(w) \in Nat /\ Len(c) \in Nat
      /\ \A i \in 1 .. Len(w) + Len(c) :
           (w \o c)[i] = IF i <= Len(w) THEN w[i] ELSE c[i - Len(w)]
  BY <1>1, ConcatProperties
<1>4. /\ Len(SubSeq(s, 1, p)) = p /\ Len(s) \in Nat
      /\ \A i \in 1 .. p : SubSeq(s, 1, p)[i] = s[i]
  BY <1>1, <1>2
<1>5. Len(w) + Len(c) = p
  BY <1>2, <1>3, <1>4, Zenon
<1>6. Len(w) <= Len(s)
  BY <1>1, <1>2, <1>3, <1>4, <1>5
<1>7. ASSUME NEW i \in 1 .. Len(w)
      PROVE  w[i] = s[i]
  <2>1. i \in 1 .. Len(w) + Len(c) /\ i <= Len(w) /\ i \in 1 .. p
    BY <1>1, <1>3, <1>5
  <2>2. (w \o c)[i] = w[i]
    BY <1>3, <2>1
  <2>3. SubSeq(s, 1, p)[i] = s[i]
    BY <1>4, <2>1
  <2> QED
    BY <1>2, <2>2, <2>3, Zenon
<1> QED
  BY <1>6, <1>7 DEF Begins, w, s

LEMMA BeginsItself ==
  ASSUME NEW w \in Seq(Tokens)
  PROVE  Begins(w, w)
BY DEF Begins

LEMMA BeginsConcat ==
  ASSUME NEW w \in Seq(Tokens), NEW t \in Seq(Tokens)
  PROVE  Begins(w, w \o t)
<1>1. /\ Len(w \o t) = Len(w) + Len(t) /\ Len(w) \in Nat /\ Len(t) \in Nat
      /\ \A i \in 1 .. Len(w) + Len(t) :
           (w \o t)[i] = IF i <= Len(w) THEN w[i] ELSE t[i - Len(w)]
  BY ConcatProperties
<1> DEFINE u == w \o t
<1> HIDE DEF u
<1>2. Len(u) = Len(w) + Len(t)
      /\ \A i \in 1 .. Len(w) + Len(t) :
           u[i] = IF i <= Len(w) THEN w[i] ELSE t[i - Len(w)]
  BY <1>1 DEF u
<1>3. Begins(w, u)
  BY <1>1, <1>2 DEF Begins
<1> QED
  BY <1>3 DEF u

(* What counts as written only grows.                                      *)
LEMMA FlushGrows ==
  ASSUME TypeInv, NEW r \in Runs, NEW tokens \in Seq(Tokens), NEW p, NEW q,
         AddAndFlush(r, tokens, p, q)
  PROVE  Begins(buffer[r].allWrittenTokens, buffer'[r].allWrittenTokens)
<1> DEFINE c == Filled(r, tokens)
           w == buffer[r].allWrittenTokens
<1>1. /\ c \in Buffers /\ w \in Seq(Tokens) /\ buffer \in [Runs -> Buffers]
  BY NewTokensType, BufferType DEF TypeInv
<1>2. c.allWrittenTokens = w
  BY NewTokensType, BufferType, AddTokens DEF Filled
<1> HIDE DEF c
<1>3. CASE /\ Flushes(r, tokens)
           /\ buffer' = [buffer EXCEPT ![r] = Flushing(c)]
  <2>1. c.completedBlocks # <<>> /\ c.completedBlocks \in Seq(Blocks)
    BY <1>1, <1>3 DEF Flushes, c, Buffers
  <2>2. Content(c.completedBlocks) \in Seq(Tokens)
    BY <2>1, ContentIs
  <2>3. buffer'[r].allWrittenTokens = w \o Content(c.completedBlocks)
    BY <1>1, <1>2, <1>3, <2>1, FlushingIs
  <2> HIDE DEF w
  <2>4. Begins(w, w \o Content(c.completedBlocks))
    BY <1>1, <2>2, BeginsConcat
  <2> QED
    BY <2>3, <2>4 DEF w
<1>4. CASE buffer' = [buffer EXCEPT ![r] = c]
  <2>1. buffer'[r].allWrittenTokens = w
    BY <1>1, <1>2, <1>4
  <2> QED
    BY <1>1, <2>1, BeginsItself
<1> QED
  BY <1>3, <1>4, FlushCases DEF c

(* The blocks that a flush adds to those written are those of its writes,  *)
(* none of which has ended.                                                *)
LEMMA FlushAppends ==
  ASSUME TypeInv, NEW r \in Runs, Whole(buffer[r].allWrittenTokens),
         NEW tokens \in Seq(Tokens), NEW p, NEW q, AddAndFlush(r, tokens, p, q)
  PROVE  /\ Len(FullBlocks(buffer'[r].allWrittenTokens)) - Len(futures'[r])
              = Len(FullBlocks(buffer[r].allWrittenTokens))
         /\ \A i \in 1 .. Len(futures'[r]) : futures'[r][i].state = "pending"
<1> DEFINE c == Filled(r, tokens)
           w == buffer[r].allWrittenTokens
           W == FullBlocks(w)
           V == FullBlocks(buffer'[r].allWrittenTokens)
<1>1. /\ w \in Seq(Tokens) /\ c \in Buffers /\ c.allWrittenTokens = w
      /\ c.completedBlocks \in Seq(Blocks)
      /\ W \in Seq(Blocks) /\ Len(W) \in Nat
  <2>1. buffer[r] \in Buffers /\ w \in Seq(Tokens) /\ c \in Buffers
    BY BufferType, NewTokensType
  <2>2. c.allWrittenTokens = w
    BY <2>1, NewTokensType, AddTokens DEF Filled
  <2>3. W \in Seq(Blocks) /\ Len(W) \in Nat
    BY <2>1, FullBlocksIs
  <2> HIDE DEF c, W
  <2> QED
    BY <2>1, <2>2, <2>3 DEF Buffers
<1>2. buffer \in [Runs -> Buffers] /\ futures \in [Runs -> Seq(Futures)]
  BY DEF TypeInv
<1> HIDE DEF c
<1>3. CASE /\ Flushes(r, tokens)
           /\ buffer' = [buffer EXCEPT ![r] = Flushing(c)]
           /\ futures' = [futures EXCEPT ![r] = Launched(c)]
  <2>1. buffer'[r] = Flushing(c) /\ futures'[r] = Launched(c)
    BY <1>2, <1>3
  <2>2. c.completedBlocks # <<>>
    BY <1>3 DEF Flushes, c
  <2> DEFINE D == c.completedBlocks
             u == w \o Content(D)
  <2>3. Flushing(c).allWrittenTokens = u
    BY <1>1, <2>2, FlushingIs
  <2>4. /\ Len(Launched(c)) = Len(D) /\ Len(D) \in Nat
        /\ \A i \in 1 .. Len(D) : Launched(c)[i].state = "pending"
    BY <1>1, LaunchedIs
  <2>5. Len(FullBlocks(u)) = Len(W) + Len(D)
    <3>1. Whole(w)
      OBVIOUS
    <3> HIDE DEF w, D
    <3> QED
      BY <1>1, <3>1, AppendedBlocks DEF D
  <2>6. Len(V) = Len(W) + Len(D)
    BY <2>1, <2>3, <2>5, Zenon
  <2> HIDE DEF V, W, D
  <2> QED
    BY <1>1, <2>1, <2>4, <2>6 DEF V, W
<1>4. CASE /\ buffer' = [buffer EXCEPT ![r] = c]
           /\ futures' = [futures EXCEPT ![r] = <<>>]
  <2>1. buffer'[r] = c /\ futures'[r] = <<>>
    BY <1>2, <1>4
  <2>2. V = W
    BY <1>1, <2>1
  <2>3. Len(W) - Len(<<>>) = Len(W) /\ 1 .. Len(<<>>) = {}
    <3> HIDE DEF W
    <3> QED
      BY <1>1
  <2> QED
    BY <2>1, <2>2, <2>3, Zenon
<1> QED
  BY <1>3, <1>4, FlushCases DEF c

LEMMA WrittenGrows ==
  ASSUME TypeInv, NEW r \in Runs,
         runConversation(r) \/ \E i \in DOMAIN futures[r] : WriteEnds(r, i)
  PROVE  Begins(buffer[r].allWrittenTokens, buffer'[r].allWrittenTokens)
<1>1. /\ buffer \in [Runs -> Buffers] /\ buffer[r].allWrittenTokens \in Seq(Tokens)
      /\ conversation[r] \in Seq(Tokens) /\ conversation \in [Runs -> Seq(Tokens)]
  BY BufferType DEF TypeInv
<1>2. CASE buffer'[r].allWrittenTokens = buffer[r].allWrittenTokens
  BY <1>1, <1>2, BeginsItself
<1>3. CASE NextTurn(r) \/ RunEnds(r) \/ Validated(r) \/ AddPrompt(r)
  BY <1>2, <1>3 DEF NextTurn, RunEnds, Validated, AddPrompt
<1>4. CASE CacheChecked(r)
  <2>1. CASE UNCHANGED buffer
    BY <1>2, <2>1
  <2>2. CASE \E n \in 1 .. Len(lookupBlocks(r)) :
               buffer' = [buffer EXCEPT ![r] = Cached(r, n)]
    <3>1. PICK n \in 1 .. Len(lookupBlocks(r)) :
                 buffer' = [buffer EXCEPT ![r] = Cached(r, n)]
      BY <2>2
    <3> DEFINE t == SubSeq(conversation[r], 1, n * BlockSize)
               w == buffer[r].allWrittenTokens
    <3>2. t \in Seq(Tokens) /\ Cached(r, n).allWrittenTokens = w \o t
      BY CachedIs
    <3> HIDE DEF t, w
    <3>3. buffer'[r] = Cached(r, n)
      BY <1>1, <3>1
    <3>4. Begins(w, w \o t)
      BY <1>1, <3>2, BeginsConcat DEF w
    <3> QED
      BY <3>2, <3>3, <3>4, Zenon DEF w
  <2> QED
    BY <1>4, <2>1, <2>2, CacheCheckedCases
<1>5. CASE FlushPrompt(r)
  <2>1. AddAndFlush(r, conversation[r], "flushingPrompt", "agent")
    BY <1>5 DEF FlushPrompt
  <2> QED
    BY <1>1, <2>1, FlushGrows
<1>6. CASE FlushAgent(r)
  <2>1. AddAndFlush(r, conversation'[r], "flushingAgent", "turn")
    BY <1>6 DEF FlushAgent
  <2>2. conversation'[r] \in Seq(Tokens)
    BY <1>6, FlushAgentType DEF TypeInv
  <2> QED
    BY <2>1, <2>2, FlushGrows
<1>7. CASE FlushEnds(r)
  <2>1. \/ buffer' = [buffer EXCEPT ![r].completedBlocks = <<>>]
        \/ UNCHANGED buffer
    BY <1>7, FlushEndsCases
  <2> QED
    BY <1>1, <1>2, <2>1 DEF Buffers
<1>8. CASE \E i \in DOMAIN futures[r] : WriteEnds(r, i)
  <2>1. UNCHANGED buffer
    BY <1>8 DEF WriteEnds
  <2> QED
    BY <1>2, <2>1
<1> QED
  BY <1>3, <1>4, <1>5, <1>6, <1>7, <1>8 DEF runConversation

LEMMA InChainStays ==
  ASSUME NEW w \in Seq(Tokens), NEW u \in Seq(Tokens), Begins(w, u),
         NEW v, InChainOf(v, w)
  PROVE  InChainOf(v, u)
<1> DEFINE W == FullBlocks(w)
           U == FullBlocks(u)
<1>1. /\ Len(W) <= Len(U) /\ \A k \in 1 .. Len(W) : W[k] = U[k]
      /\ Len(W) \in Nat /\ Len(U) \in Nat
  BY BlocksOfBeginning, FullBlocksIs
<1>2. PICK k \in 1 .. Len(W) : Links(v, W, k)
  BY DEF InChainOf
<1> HIDE DEF W, U
<1>3. k \in 1 .. Len(U) /\ W[k] = U[k]
  BY <1>1
<1>4. ParentIn(W, k) = ParentIn(U, k)
  <2>1. CASE k = 1
    BY <2>1 DEF ParentIn
  <2>2. CASE k # 1
    <3>1. k - 1 \in 1 .. Len(W)
      BY <1>1, <2>2
    <3>2. W[k - 1] = U[k - 1]
      BY <1>1, <3>1
    <3> QED
      BY <2>2, <3>2, Zenon DEF ParentIn
  <2> QED
    BY <2>1, <2>2
<1>5. Links(v, U, k)
  BY <1>2, <1>3, <1>4, Zenon DEF Links
<1> QED
  BY <1>3, <1>5 DEF InChainOf, U

(* A version that is being written is of the chain of its run.             *)
LEMMA WritesChained ==
  ASSUME TypeInv, NEW r \in Runs, Chain(r), NEW i \in 1 .. Len(futures[r])
  PROVE  /\ Len(writtenBlocks(r)) - Len(futures[r]) >= 0
         /\ Len(writtenBlocks(r)) - Len(futures[r]) + i
              \in 1 .. Len(writtenBlocks(r))
         /\ Links(futures[r][i].version, writtenBlocks(r),
                  Len(writtenBlocks(r)) - Len(futures[r]) + i)
<1> DEFINE W == writtenBlocks(r)
           f == futures[r]
<1>1. W \in Seq(Blocks) /\ f \in Seq(Futures)
  BY BufferType
<1>2. /\ Len(W) - Len(f) >= 0
      /\ Links(f[i].version, W, Len(W) - Len(f) + i)
  BY Zenon DEF Chain, ChainOf, writtenBlocks
<1>3. i \in 1 .. Len(f)
  OBVIOUS
<1> HIDE DEF W, f
<1>4. Len(W) \in Nat /\ Len(f) \in Nat
  BY <1>1
<1>5. Len(W) - Len(f) + i \in 1 .. Len(W)
  BY <1>2, <1>3, <1>4
<1> QED
  BY <1>2, <1>5 DEF W, f

LEMMA WriteChained ==
  ASSUME TypeInv, NEW r \in Runs, Chain(r), NEW i \in 1 .. Len(futures[r])
  PROVE  InChainOf(futures[r][i].version, buffer[r].allWrittenTokens)
<1> DEFINE W == writtenBlocks(r)
           k == Len(W) - Len(futures[r]) + i
<1>1. k \in 1 .. Len(W) /\ Links(futures[r][i].version, W, k)
  BY WritesChained
<1> HIDE DEF k
<1> QED
  BY <1>1, Zenon DEF InChainOf, writtenBlocks

LEMMA WrittenStays ==
  ASSUME TypeInv, [Next]_vars, NEW s \in Runs
  PROVE  /\ buffer[s].allWrittenTokens \in Seq(Tokens)
         /\ buffer'[s].allWrittenTokens \in Seq(Tokens)
         /\ Begins(buffer[s].allWrittenTokens, buffer'[s].allWrittenTokens)
<1>1. TypeInv'
  BY TypeKept
<1>2. /\ buffer[s].allWrittenTokens \in Seq(Tokens)
      /\ buffer'[s].allWrittenTokens \in Seq(Tokens)
  BY <1>1, BufferType DEF TypeInv, Buffers
<1>3. CASE buffer'[s] = buffer[s]
  <2>1. buffer'[s].allWrittenTokens = buffer[s].allWrittenTokens
    BY <1>3
  <2> QED
    BY <1>2, <2>1, BeginsItself
<1>4. CASE UNCHANGED core
  BY <1>3, <1>4 DEF core
<1>5. ASSUME NEW r \in Runs,
             runConversation(r) \/ \E i \in DOMAIN futures[r] : WriteEnds(r, i)
      PROVE  Begins(buffer[s].allWrittenTokens, buffer'[s].allWrittenTokens)
  <2>1. CASE s = r
    BY <1>5, <2>1, WrittenGrows
  <2>2. CASE s # r
    <3>1. Others(r)
      BY <1>5, OthersStay
    <3> QED
      BY <1>3, <2>2, <3>1 DEF Others
  <2> QED
    BY <2>1, <2>2
<1> QED
  BY <1>2, <1>4, <1>5, Steps

LEMMA KnownStays ==
  ASSUME TypeInv, [Next]_vars, NEW v, Known(v)
  PROVE  Known(v)'
<1>1. PICK s \in Runs : InChainOf(v, buffer[s].allWrittenTokens)
  BY DEF Known
<1>2. InChainOf(v, buffer'[s].allWrittenTokens)
  BY <1>1, WrittenStays, InChainStays
<1> QED
  BY <1>2, Zenon DEF Known

LEMMA ShareKept ==
  TypeInv /\ ChainInv /\ ShareInv /\ [Next]_vars => ShareInv'
<1> SUFFICES ASSUME TypeInv, ChainInv, ShareInv, [Next]_vars, failed' = {},
                    NEW v \in published'
             PROVE  Known(v)'
  BY Zenon DEF ShareInv
<1>1. CASE UNCHANGED core
  <2>1. UNCHANGED <<published, buffer, failed>>
    BY <1>1 DEF core
  <2> QED
    BY <2>1, Zenon DEF ShareInv, Known
<1>2. ASSUME NEW r \in Runs,
             runConversation(r) \/ \E i \in DOMAIN futures[r] : WriteEnds(r, i)
      PROVE  Known(v)'
  <2>1. failed = {}
    BY <1>2, OthersStay DEF Others
  <2>2. CASE v \in published
    BY <2>1, <2>2, KnownStays DEF ShareInv
  <2>3. CASE v \notin published
    <3>1. PICK i \in 1 .. Len(futures[r]) : v = futures[r][i].version
      BY <1>2, <2>3, NewVersion
    <3>2. InChainOf(v, buffer[r].allWrittenTokens)
      BY <2>1, <3>1, WriteChained DEF ChainInv
    <3> QED
      BY <3>2, KnownStays DEF Known
  <2> QED
    BY <2>2, <2>3
<1> QED
  BY <1>1, <1>2, Steps

(* A run that has written a block has added the first prompt.              *)
LEMMA HasStarted ==
  ASSUME TypeInv, NEW r \in Runs, Account(r), Script(r),
         Len(writtenBlocks(r)) # 0
  PROVE  Started(pc[r], turn[r]) /\ 1 \in 1 .. Len(PromptLengths)
<1> DEFINE w == buffer[r].allWrittenTokens
           s == conversation[r]
<1>1. w \in Seq(Tokens) /\ s \in Seq(Tokens) /\ Begins(w, s)
  BY BufferType, WrittenBegins
<1>2. ASSUME s = <<>>
      PROVE  FALSE
  <2>1. Len(w) = 0 /\ 0 < BlockSize
    BY <1>1, <1>2, SizesAssumption DEF Begins
  <2>2. FullBlocks(w) = <<>>
    BY <1>1, <2>1, NoBlocks
  <2> QED
    BY <2>2 DEF writtenBlocks
<1>3. Started(pc[r], turn[r])
  BY <1>2, Zenon DEF Script, ScriptOf
<1>4. turn[r] \in 0 .. Len(PromptLengths) /\ turn[r] # 0
  BY <1>3 DEF Started, TypeInv
<1>5. Len(PromptLengths) \in Nat
  BY SizesAssumption
<1> QED
  BY <1>3, <1>4, <1>5

(* Of the first prompt's blocks, each has its one place and one parent.    *)
LEMMA SharedParent ==
  ASSUME TypeInv, NEW r \in Runs, Account(r), Script(r), NEW v,
         InChainOf(v, buffer[r].allWrittenTokens),
         NEW i \in 1 .. Len(Shared), v.block = Shared[i]
  PROVE  v.parent = IF i = 1 THEN NoParent ELSE Shared[i - 1]
<1> DEFINE w == buffer[r].allWrittenTokens
           s == conversation[r]
           p == pc[r]
           t == turn[r]
           W == FullBlocks(w)
<1>1. w \in Seq(Tokens) /\ s \in Seq(Tokens) /\ Begins(w, s)
  BY BufferType, WrittenBegins
<1>2. ScriptOf(p, t, s)
  BY DEF Script
<1>3. PICK k \in 1 .. Len(W) : Links(v, W, k)
  BY DEF InChainOf
<1>4. Started(p, t) /\ 1 \in 1 .. Len(PromptLengths)
  <2>1. writtenBlocks(r) = W
    BY Zenon DEF writtenBlocks
  <2>2. Len(W) # 0
    BY <1>3
  <2> QED
    BY <2>1, <2>2, HasStarted
<1> HIDE DEF w, s, p, t
<1>5. W[k] = Shared[i]
  BY <1>3, Zenon DEF Links
<1>6. k = i
  BY <1>1, <1>2, <1>5, <1>4, SharedPlace
<1>7. CASE i = 1
  BY <1>3, <1>6, <1>7, Zenon DEF Links, ParentIn
<1>8. CASE i # 1
  <2>1. Len(W) \in Nat /\ Len(Shared) \in Nat
    BY <1>1, <1>4, FullBlocksIs, SharedIs
  <2>2. i - 1 \in 1 .. Len(W) /\ i - 1 \in 1 .. Len(Shared)
    BY <1>6, <1>8, <2>1
  <2>3. W[i - 1] = Shared[i - 1]
    BY <1>1, <1>2, <1>4, <2>2, SharedBlock
  <2> QED
    BY <1>3, <1>6, <1>8, <2>3, Zenon DEF Links, ParentIn
<1> QED
  BY <1>7, <1>8

-----------------------------------------------------------------------------
(* The tokens of a run's own agent, each of which the conversation has     *)
(* once: those of the turn t are there once the agent has answered.        *)

Answered == {"flushingAgent", "turn", "done"}

OnceOf(p, t, s, r) ==
  /\ \A j \in 1 .. Len(s), u \in Nat, i \in Nat :
       s[j] = <<r, u, i>> => u <= t /\ (u = t => p \in Answered)
  /\ \A j \in 1 .. Len(s), k \in 1 .. Len(s) : s[j][1] = r /\ s[j] = s[k] => j = k

Once(r) == OnceOf(pc[r], turn[r], conversation[r], r)
OnceInv == \A r \in Runs : Once(r)

LEMMA OnceMoves ==
  ASSUME NEW p, NEW t \in Nat, NEW s, NEW r, NEW q, NEW u, OnceOf(p, t, s, r),
         \/ u = t /\ (p \in Answered => q \in Answered)
         \/ u = t + 1
  PROVE  OnceOf(q, u, s, r)
<1>1. ASSUME NEW j \in 1 .. Len(s), NEW v \in Nat, NEW i \in Nat,
             s[j] = <<r, v, i>>
      PROVE  v <= u /\ (v = u => q \in Answered)
  <2>1. v <= t /\ (v = t => p \in Answered)
    BY <1>1, Zenon DEF OnceOf
  <2> QED
    BY <2>1
<1>2. \A j \in 1 .. Len(s), k \in 1 .. Len(s) : s[j][1] = r /\ s[j] = s[k] => j = k
  BY Zenon DEF OnceOf
<1> QED
  BY <1>1, <1>2, Zenon DEF OnceOf

(* Tokens that are not r's, or r's of a turn that has none yet, are added. *)
LEMMA OnceGrows ==
  ASSUME NEW p, NEW n \in Nat, NEW q, NEW s \in Seq(Tokens), NEW t \in Seq(Tokens),
         NEW r \in Runs, OnceOf(p, n, s, r),
         \/ /\ \A i \in 1 .. Len(t) : t[i][1] # r
            /\ p \in Answered => q \in Answered
         \/ /\ \A i \in 1 .. Len(t) : t[i] = <<r, n, i>>
            /\ p \notin Answered /\ q \in Answered
  PROVE  OnceOf(q, n, s \o t, r)
<1> DEFINE u == s \o t
           m == Len(s)
<1>1. /\ Len(u) = m + Len(t) /\ m \in Nat /\ Len(t) \in Nat
      /\ \A i \in 1 .. m + Len(t) : u[i] = IF i <= m THEN s[i] ELSE t[i - m]
  BY ConcatProperties
<1>2. /\ \A j \in 1 .. m, v \in Nat, i \in Nat :
           s[j] = <<r, v, i>> => v <= n /\ (v = n => p \in Answered)
      /\ \A j \in 1 .. m, k \in 1 .. m : s[j][1] = r /\ s[j] = s[k] => j = k
  BY Zenon DEF OnceOf
<1> HIDE DEF u, m
<1>3. ASSUME NEW j \in 1 .. Len(u)
      PROVE  \/ j \in 1 .. m /\ u[j] = s[j]
             \/ j - m \in 1 .. Len(t) /\ u[j] = t[j - m] /\ j \notin 1 .. m
  <2>1. j \in 1 .. m + Len(t)
    BY <1>1
  <2>2. CASE j <= m
    BY <1>1, <2>1, <2>2
  <2>3. CASE ~(j <= m)
    <3>1. j - m \in 1 .. Len(t) /\ u[j] = t[j - m] /\ j \notin 1 .. m
      BY <1>1, <2>1, <2>3
    <3> QED
      BY <3>1
  <2> QED
    BY <2>2, <2>3
<1>4. ASSUME NEW j \in 1 .. Len(u), NEW v \in Nat, NEW i \in Nat,
             u[j] = <<r, v, i>>
      PROVE  v <= n /\ (v = n => q \in Answered)
  <2>1. CASE j \in 1 .. m /\ u[j] = s[j]
    <3>1. v <= n /\ (v = n => p \in Answered)
      BY <1>2, <1>4, <2>1, Zenon
    <3> QED
      BY <3>1
  <2>2. CASE j - m \in 1 .. Len(t) /\ u[j] = t[j - m]
    <3> DEFINE k == j - m
    <3>1. k \in 1 .. Len(t) /\ t[k] = <<r, v, i>>
      BY <1>4, <2>2
    <3> HIDE DEF k
    <3>2. t[k][1] = r
      BY <3>1
    <3>3. t[k] = <<r, n, k>> /\ q \in Answered
      BY <3>1, <3>2
    <3>4. v = n
      BY <3>1, <3>3
    <3> QED
      BY <3>3, <3>4
  <2> QED
    BY <1>3, <2>1, <2>2
<1>5. ASSUME NEW j \in 1 .. m, NEW k \in 1 .. Len(t), s[j] = t[k], s[j][1] = r
      PROVE  FALSE
  <2>1. t[k] = <<r, n, k>> /\ p \notin Answered
    BY <1>5
  <2>2. k \in Nat /\ s[j] = <<r, n, k>>
    BY <1>1, <1>5, <2>1
  <2> QED
    BY <1>2, <2>1, <2>2, Zenon
<1>6. ASSUME NEW j \in 1 .. Len(u), NEW k \in 1 .. Len(u),
             u[j][1] = r, u[j] = u[k]
      PROVE  j = k
  <2>1. CASE (j \in 1 .. m /\ u[j] = s[j]) /\ (k \in 1 .. m /\ u[k] = s[k])
    BY <1>2, <1>6, <2>1, Zenon
  <2> DEFINE a == j - m
             b == k - m
  <2>2. CASE /\ a \in 1 .. Len(t) /\ u[j] = t[a]
             /\ b \in 1 .. Len(t) /\ u[k] = t[b]
    <3>1. a \in 1 .. Len(t) /\ b \in 1 .. Len(t) /\ t[a][1] = r /\ t[a] = t[b]
      BY <1>6, <2>2
    <3>2. a = b
      <4> HIDE DEF a, b
      <4>1. t[a] = <<r, n, a>> /\ t[b] = <<r, n, b>>
        BY <3>1
      <4>2. <<r, n, a>> = <<r, n, b>>
        BY <3>1, <4>1, Zenon
      <4> QED
        BY <4>2, Zenon
    <3>3. j \in Nat /\ k \in Nat
      BY <1>1
    <3> QED
      BY <1>1, <3>2, <3>3
  <2>3. CASE /\ j \in 1 .. m /\ u[j] = s[j]
             /\ b \in 1 .. Len(t) /\ u[k] = t[b]
    <3> HIDE DEF b
    <3> QED
      BY <1>5, <1>6, <2>3
  <2>4. CASE /\ k \in 1 .. m /\ u[k] = s[k]
             /\ a \in 1 .. Len(t) /\ u[j] = t[a]
    <3> HIDE DEF a
    <3>1. s[k] = t[a] /\ s[k][1] = r
      BY <1>6, <2>4
    <3> QED
      BY <1>5, <2>4, <3>1
  <2> QED
    BY <1>3, <2>1, <2>2, <2>3, <2>4
<1>7. OnceOf(q, n, u, r)
  BY <1>4, <1>6, Zenon DEF OnceOf
<1> QED
  BY <1>7 DEF u

LEMMA AddPromptOnce ==
  ASSUME TypeInv, NEW r \in Runs, Once(r), AddPrompt(r)
  PROVE  Once(r)'
<1> DEFINE s == conversation[r]
           n == turn[r]
           t == PromptTokens(n)
           p == pc[r]
           q == pc'[r]
<1>1. /\ p = "prompt" /\ n \in 1 .. Len(PromptLengths)
      /\ turn'[r] = n /\ conversation'[r] = s \o t
  BY WithinBounds DEF AddPrompt, TypeInv
<1>2. /\ s \in Seq(Tokens) /\ t \in Seq(Tokens) /\ Len(t) = PromptLengths[n]
      /\ \A i \in 1 .. PromptLengths[n] : t[i] = <<0, n, i>>
  BY <1>1, BufferType, PromptIs
<1>3. OnceOf(p, n, s, r) /\ n \in Nat
  BY <1>1 DEF Once
<1>4. p \notin Answered /\ r # 0
  BY <1>1, SizesAssumption DEF Answered
<1> HIDE DEF s, n, t, p, q
<1>5. \A i \in 1 .. Len(t) : t[i][1] # r
  BY <1>2, <1>4
<1>6. OnceOf(q, n, s \o t, r)
  BY <1>2, <1>3, <1>4, <1>5, OnceGrows
<1> QED
  BY <1>1, <1>6, Zenon DEF Once, q

LEMMA FlushAgentOnce ==
  ASSUME TypeInv, NEW r \in Runs, Once(r), FlushAgent(r)
  PROVE  Once(r)'
<1> DEFINE s == conversation[r]
           n == turn[r]
           t == AgentTokens(r, n)
           p == pc[r]
           q == pc'[r]
<1>1. /\ p = "agent" /\ n \in 1 .. Len(PromptLengths)
      /\ turn'[r] = n /\ conversation'[r] = s \o t
  BY WithinBounds DEF FlushAgent, TypeInv
<1>2. q \in {"flushingAgent", "turn"}
  BY DEF FlushAgent, AddAndFlush, TypeInv
<1>3. /\ s \in Seq(Tokens) /\ t \in Seq(Tokens) /\ Len(t) = AgentLength
      /\ \A i \in 1 .. AgentLength : t[i] = <<r, n, i>>
  BY <1>1, BufferType, AgentIs
<1>4. OnceOf(p, n, s, r) /\ n \in Nat
  BY <1>1 DEF Once
<1>5. p \notin Answered /\ q \in Answered
  BY <1>1, <1>2 DEF Answered
<1> HIDE DEF s, n, t, p, q
<1>6. \A i \in 1 .. Len(t) : t[i] = <<r, n, i>>
  BY <1>3
<1>7. OnceOf(q, n, s \o t, r)
  BY <1>3, <1>4, <1>5, <1>6, OnceGrows
<1> QED
  BY <1>1, <1>7, Zenon DEF Once, q

LEMMA RestOnce ==
  ASSUME TypeInv, NEW r \in Runs, Once(r),
         \/ NextTurn(r) \/ RunEnds(r) \/ Validated(r) \/ CacheChecked(r)
         \/ FlushPrompt(r) \/ FlushEnds(r)
         \/ \E i \in DOMAIN futures[r] : WriteEnds(r, i)
  PROVE  Once(r)'
<1> DEFINE p == pc[r]
           q == pc'[r]
           t == turn[r]
           u == turn'[r]
           s == conversation[r]
<1>1. conversation'[r] = s
  BY FlushEndsCases DEF NextTurn, RunEnds, Validated, CacheChecked,
     FlushPrompt, WriteEnds
<1>2. \/ u = t /\ (p \in Answered => q \in Answered)
      \/ u = t + 1
  <2>1. CASE NextTurn(r)
    BY <2>1 DEF NextTurn, TypeInv
  <2>2. CASE RunEnds(r)
    BY <2>2 DEF RunEnds, TypeInv, Answered
  <2>3. CASE Validated(r) \/ CacheChecked(r) \/ FlushPrompt(r)
    BY <2>3 DEF Validated, CacheChecked, FlushPrompt, Answered
  <2>4. CASE FlushEnds(r)
    <3>1. /\ UNCHANGED turn
          /\ \/ p = "flushingPrompt"
             \/ pc' = [pc EXCEPT ![r] = "turn"]
      BY <2>4 DEF FlushEnds, Flushed, WritesEnded, IsFlushing
    <3> QED
      BY <3>1 DEF TypeInv, Answered
  <2>5. CASE \E i \in DOMAIN futures[r] : WriteEnds(r, i)
    BY <2>5 DEF WriteEnds
  <2> QED
    BY <2>1, <2>2, <2>3, <2>4, <2>5
<1>3. OnceOf(p, t, s, r) /\ t \in Nat
  BY SizesAssumption DEF Once, TypeInv
<1> HIDE DEF p, q, t, u, s
<1>4. OnceOf(q, u, s, r)
  BY <1>2, <1>3, OnceMoves
<1> QED
  BY <1>1, <1>4, Zenon DEF Once, q, u, s

LEMMA OnceKept == TypeInv /\ OnceInv /\ [Next]_vars => OnceInv'
<1> SUFFICES ASSUME TypeInv, OnceInv, [Next]_vars, NEW s \in Runs
             PROVE  Once(s)'
  BY DEF OnceInv
<1>1. \A r \in Runs : Once(r)
  BY DEF OnceInv
<1>2. CASE UNCHANGED core
  <2>1. UNCHANGED <<pc, turn, conversation>>
    BY <1>2 DEF core
  <2> QED
    BY <1>1, <2>1, Zenon DEF Once
<1>3. ASSUME NEW r \in Runs,
             runConversation(r) \/ \E i \in DOMAIN futures[r] : WriteEnds(r, i)
      PROVE  Once(s)'
  <2>1. Others(r)
    BY <1>3, OthersStay
  <2>2. Once(r)'
    BY <1>1, <1>3, AddPromptOnce, FlushAgentOnce, RestOnce DEF runConversation
  <2>3. CASE s # r
    <3>1. /\ conversation'[s] = conversation[s] /\ pc'[s] = pc[s]
          /\ turn'[s] = turn[s]
      BY <2>1, <2>3 DEF Others
    <3> QED
      BY <1>1, <3>1, Zenon DEF Once
  <2> QED
    BY <2>2, <2>3
<1> QED
  BY <1>2, <1>3, Steps

LEMMA OnceInit == Init => OnceInv
<1> SUFFICES ASSUME Init, NEW r \in Runs
             PROVE  Once(r)
  BY DEF OnceInv
<1>1. pc[r] = "turn" /\ turn[r] = 0 /\ conversation[r] = <<>>
  BY DEF Init
<1>2. 1 .. Len(<<>>) = {}
  OBVIOUS
<1>3. OnceOf("turn", 0, <<>>, r)
  BY <1>2, Zenon DEF OnceOf
<1> QED
  BY <1>1, <1>3, Zenon DEF Once

(* So a block with a token of the agent's has one place in the chain.      *)
LEMMA OwnPlace ==
  ASSUME NEW p, NEW t, NEW s \in Seq(Tokens), NEW r, OnceOf(p, t, s, r),
         NEW w \in Seq(Tokens), Begins(w, s),
         NEW k \in 1 .. Len(FullBlocks(w)), NEW i \in 1 .. Len(FullBlocks(w)),
         FullBlocks(w)[k] = FullBlocks(w)[i],
         NEW j \in 1 .. BlockSize, FullBlocks(w)[k][j][1] = r
  PROVE  k = i
<1> DEFINE W == FullBlocks(w)
           a == (k - 1) * BlockSize
           b == (i - 1) * BlockSize
<1>1. BlockSize \in Nat \ {0} /\ Len(W) \in Nat
  BY FullBlocksIs, SizesAssumption
<1>2. /\ a + j \in 1 .. Len(w) /\ W[k][j] = w[a + j]
      /\ b + j \in 1 .. Len(w) /\ W[i][j] = w[b + j]
  BY FullBlocksIs
<1>3. k - 1 \in Nat /\ i - 1 \in Nat /\ a \in Nat /\ b \in Nat /\ j \in Nat
  BY SMTT(20), <1>1, Product
<1>4. /\ w[a + j] = s[a + j] /\ a + j \in 1 .. Len(s)
      /\ w[b + j] = s[b + j] /\ b + j \in 1 .. Len(s)
  <2> HIDE DEF a, b
  <2>1. Len(w) \in Nat /\ Len(s) \in Nat
    OBVIOUS
  <2> QED
    BY <1>2, <2>1 DEF Begins
<1>5. s[a + j] = s[b + j] /\ s[a + j][1] = r
  BY <1>2, <1>4
<1>6. a + j = b + j
  <2> HIDE DEF a, b
  <2> QED
    BY <1>4, <1>5, Zenon DEF OnceOf
<1>7. (k - 1) * BlockSize = (i - 1) * BlockSize
  BY <1>3, <1>6
<1>8. k - 1 = i - 1
  <2> DEFINE x == k - 1
             y == i - 1
  <2>1. x \in Nat /\ y \in Nat /\ x * BlockSize = y * BlockSize
    BY <1>3, <1>7
  <2> HIDE DEF x, y
  <2>2. (x * BlockSize) \div BlockSize = x /\ (y * BlockSize) \div BlockSize = y
    BY <2>1, BlocksOfMultiple
  <2>3. x = y
    BY <2>1, <2>2, Zenon
  <2> QED
    BY <2>3 DEF x, y
<1> QED
  BY <1>1, <1>8

-----------------------------------------------------------------------------
(* Of each block in the store, its first version is; and a version with a  *)
(* token of a run's own agent is a block of this run, unless a request of  *)
(* it has failed.                                                          *)

FirstInv == \A v \in published : \E u \in first : u.block = v.block

OwnToken(block, r) == \E j \in 1 .. BlockSize : block[j][1] = r

OwnKnownInv ==
  \A r \in Runs \ failed, v \in published :
    OwnToken(v.block, r) => InChainOf(v, buffer[r].allWrittenTokens)

LEMMA FirstKept == TypeInv /\ FirstInv /\ [Next]_vars => FirstInv'
<1> SUFFICES ASSUME TypeInv, FirstInv, [Next]_vars
             PROVE  FirstInv'
  OBVIOUS
<1>1. CASE UNCHANGED <<first, published>>
  BY <1>1 DEF FirstInv
<1>2. ASSUME NEW v, Stores(v)
      PROVE  FirstInv'
  <2>1. published' = published \cup {v} /\ first \subseteq first'
    BY <1>2 DEF Stores
  <2>2. \E u \in first' : u.block = v.block
    <3>1. CASE \E u \in first : u.block = v.block
      BY <2>1, <3>1
    <3>2. CASE ~\E u \in first : u.block = v.block
      BY <1>2, <3>2 DEF Stores
    <3> QED
      BY <3>1, <3>2
  <2> QED
    BY <2>1, <2>2 DEF FirstInv
<1>3. CASE UNCHANGED core
  BY <1>1, <1>3 DEF core
<1>4. ASSUME NEW r \in Runs, runConversation(r)
      PROVE  FirstInv'
  BY <1>1, <1>4 DEF runConversation, NextTurn, RunEnds, Validated, AddPrompt,
     CacheChecked, FlushPrompt, FlushAgent, FlushEnds, store
<1>5. ASSUME NEW r \in Runs, NEW i \in DOMAIN futures[r], WriteEnds(r, i)
      PROVE  FirstInv'
  <2>1. Stores(futures[r][i].version) \/ UNCHANGED store
    BY <1>5, WriteEndsCases
  <2> QED
    BY <1>1, <1>2, <2>1 DEF store
<1> QED
  BY <1>3, <1>4, <1>5, Steps

LEMMA OwnKnownKept ==
  TypeInv /\ OwnInv /\ ChainInv /\ OwnKnownInv /\ [Next]_vars => OwnKnownInv'
<1> SUFFICES ASSUME TypeInv, OwnInv, ChainInv, OwnKnownInv, [Next]_vars,
                    NEW r \in Runs \ failed', NEW v \in published',
                    OwnToken(v.block, r)
             PROVE  InChainOf(v, buffer'[r].allWrittenTokens)
  BY Zenon DEF OwnKnownInv
<1>1. ASSUME InChainOf(v, buffer[r].allWrittenTokens)
      PROVE  InChainOf(v, buffer'[r].allWrittenTokens)
  BY <1>1, WrittenStays, InChainStays
<1>2. CASE UNCHANGED core
  <2>1. UNCHANGED <<published, failed>>
    BY <1>2 DEF core
  <2> QED
    BY <1>1, <2>1 DEF OwnKnownInv
<1>3. ASSUME NEW s \in Runs,
             runConversation(s) \/ \E i \in DOMAIN futures[s] : WriteEnds(s, i)
      PROVE  InChainOf(v, buffer'[r].allWrittenTokens)
  <2>1. r \notin failed
    BY <1>3, OthersStay DEF Others
  <2>2. CASE v \in published
    BY <1>1, <2>1, <2>2 DEF OwnKnownInv
  <2>3. CASE v \notin published
    <3>1. PICK i \in 1 .. Len(futures[s]) : v = futures[s][i].version
      BY <1>3, <2>3, NewVersion
    <3>2. OwnBlock(v.block, s)
      <4>1. Own(s) /\ futures[s] # <<>>
        BY <3>1 DEF OwnInv
      <4> QED
        BY <3>1, <4>1, Zenon DEF Own, OwnOf
    <3>3. r = s
      <4>1. r \in {0, s}
        BY <3>2, Zenon DEF OwnBlock, OwnToken
      <4> QED
        BY <4>1, SizesAssumption
    <3> QED
      BY <1>1, <2>1, <3>1, <3>3, WriteChained DEF ChainInv
  <2> QED
    BY <2>2, <2>3
<1> QED
  BY <1>2, <1>3, Steps

(* What the invariants so far say together.                                *)
WrittenInv ==
  /\ TypeInv /\ OwnInv /\ AccountInv /\ ChainInv /\ ScriptInv /\ OnceInv
  /\ ShareInv /\ FirstInv /\ OwnKnownInv

LEMMA WrittenKept == WrittenInv /\ [Next]_vars => WrittenInv'
BY TypeKept, OwnKept, AccountKept, ChainKept, ScriptKept, OnceKept, ShareKept,
   FirstKept, OwnKnownKept DEF WrittenInv

LEMMA WrittenInit == Init => WrittenInv
<1>1. Init => ShareInv /\ FirstInv /\ OwnKnownInv
  BY DEF Init, ShareInv, FirstInv, OwnKnownInv
<1> QED
  BY <1>1, TypeInit, OwnInit, AccountInit, ChainInit, ScriptInit, OnceInit
     DEF WrittenInv

(* A block that no other run writes under another parent: all its versions *)
(* are one.                                                                *)
Sure(blocks, r, k, fs) ==
  OwnToken(blocks[k], r) \/ (fs = {} /\ k <= Len(Shared))

LEMMA OneVersion ==
  ASSUME WrittenInv, NEW r \in Runs \ failed,
         NEW k \in 1 .. Len(writtenBlocks(r)),
         Sure(writtenBlocks(r), r, k, failed),
         NEW v \in Versions, Links(v, writtenBlocks(r), k),
         NEW u \in published, u.block = v.block
  PROVE  u = v
<1> DEFINE w == buffer[r].allWrittenTokens
           s == conversation[r]
           W == FullBlocks(w)
<1>1. /\ TypeInv /\ Account(r) /\ Script(r) /\ Once(r)
      /\ r \in Runs /\ r \notin failed
  BY DEF WrittenInv, AccountInv, ScriptInv, OnceInv
<1>2. /\ w \in Seq(Tokens) /\ s \in Seq(Tokens) /\ Begins(w, s)
      /\ Len(writtenBlocks(r)) # 0
  BY <1>1, BufferType, WrittenBegins
<1>3. k \in 1 .. Len(W) /\ Links(v, W, k) /\ writtenBlocks(r) = W
  BY Zenon DEF writtenBlocks
<1>4. u \in Versions
  BY <1>1 DEF TypeInv
<1>5. u.parent = v.parent => u = v
  BY <1>4 DEF Versions
<1>6. CASE OwnToken(W[k], r)
  <2>1. InChainOf(u, w)
    <3>1. OwnToken(u.block, r)
      BY <1>3, <1>6, Zenon DEF Links
    <3> QED
      BY <3>1 DEF WrittenInv, OwnKnownInv
  <2>2. PICK i \in 1 .. Len(W) : Links(u, W, i)
    BY <2>1 DEF InChainOf
  <2>3. PICK j \in 1 .. BlockSize : W[k][j][1] = r
    BY <1>6 DEF OwnToken
  <2>4. OnceOf(pc[r], turn[r], s, r)
    BY <1>1 DEF Once
  <2>5. W[k] = W[i]
    BY <1>3, <2>2, Zenon DEF Links
  <2>6. k = i
    <3> HIDE DEF w, s
    <3> QED
      BY <1>2, <1>3, <2>3, <2>4, <2>5, OwnPlace
  <2>7. u.parent = v.parent
    BY <1>3, <2>2, <2>6, Zenon DEF Links
  <2> QED
    BY <1>5, <2>7
<1>7. CASE failed = {} /\ k <= Len(Shared)
  <2>1. Started(pc[r], turn[r]) /\ 1 \in 1 .. Len(PromptLengths)
    BY <1>1, <1>2, HasStarted
  <2>2. k \in 1 .. Len(Shared)
    BY <1>2, <1>3, <1>7, <2>1, SharedIs, FullBlocksIs
  <2>3. W[k] = Shared[k]
    <3> DEFINE p == pc[r]
               t == turn[r]
    <3>1. ScriptOf(p, t, s) /\ Started(p, t)
      BY <1>1, <2>1 DEF Script
    <3> HIDE DEF w, s, p, t
    <3> QED
      BY <1>2, <1>3, <2>1, <2>2, <3>1, SharedBlock
  <2>4. v.block = Shared[k] /\ u.block = Shared[k]
    BY <1>3, <2>3, Zenon DEF Links
  <2>5. InChainOf(v, w)
    BY <1>3, Zenon DEF InChainOf
  <2>6. PICK q \in Runs : InChainOf(u, buffer[q].allWrittenTokens)
    BY <1>7, Zenon DEF WrittenInv, ShareInv, Known
  <2>7. Account(q) /\ Script(q)
    BY <1>7 DEF WrittenInv, AccountInv, ScriptInv
  <2>8. u.parent = v.parent
    BY <1>1, <2>2, <2>4, <2>5, <2>6, <2>7, SharedParent
  <2> QED
    BY <1>5, <2>8
<1> QED
  BY <1>3, <1>6, <1>7, Zenon DEF Sure

-----------------------------------------------------------------------------
(* The inductive invariant of ReadsItsWrites, for a run of which no        *)
(* request has failed: the versions of its sure blocks are the first ones, *)
(* and so stay in the store, but for those that are being written.         *)

Ends(m, f, k) == k <= m - Len(f) \/ f[k - (m - Len(f))].state = "stored"

KeptOf(c, blocks, f, r, fs) ==
  \A k \in 1 .. Len(blocks) :
    Sure(blocks, r, k, fs) /\ Ends(Len(blocks), f, k) => Linked(c, blocks, k)

Kept(r) == KeptOf(first, writtenBlocks(r), futures[r], r, failed)
KeptInv == \A r \in Runs \ failed : Kept(r)

LEMMA KeptGrows ==
  ASSUME NEW c, NEW d, c \subseteq d, NEW fs, NEW gs, fs \subseteq gs,
         NEW blocks, NEW f, NEW r, KeptOf(c, blocks, f, r, fs)
  PROVE  KeptOf(d, blocks, f, r, gs)
<1>1. \A k : Linked(c, blocks, k) => Linked(d, blocks, k)
  BY Zenon DEF Linked
<1>2. \A k : Sure(blocks, r, k, gs) => Sure(blocks, r, k, fs)
  <2>1. gs = {} => fs = {}
    OBVIOUS
  <2> QED
    BY <2>1, Zenon DEF Sure
<1> QED
  BY <1>1, <1>2, Zenon DEF KeptOf

(* Block k of a chain that begins with another one.                        *)
LEMMA SameLink ==
  ASSUME NEW W, NEW V, NEW k \in 1 .. Len(W), Len(W) \in Nat,
         \A i \in 1 .. Len(W) : V[i] = W[i],
         NEW c, NEW r, NEW fs
  PROVE  /\ Linked(c, V, k) <=> Linked(c, W, k)
         /\ Sure(V, r, k, fs) <=> Sure(W, r, k, fs)
<1>1. V[k] = W[k]
  OBVIOUS
<1>2. Linked(c, V, k) <=> Linked(c, W, k)
  <2>1. CASE k = 1
    BY <1>1, <2>1, Zenon DEF Linked
  <2>2. CASE k # 1
    <3>1. k - 1 \in 1 .. Len(W)
      BY <2>2
    <3>2. V[k - 1] = W[k - 1]
      BY <3>1
    <3> QED
      BY <1>1, <2>2, <3>2, Zenon DEF Linked
  <2> QED
    BY <2>1, <2>2
<1>3. Sure(V, r, k, fs) <=> Sure(W, r, k, fs)
  BY <1>1, Zenon DEF Sure
<1> QED
  BY <1>2, <1>3

(* A step of r that leaves these as they are, or of another run.           *)
LEMMA KeptStays ==
  ASSUME NEW r, Kept(r), first \subseteq first', failed \subseteq failed',
         buffer'[r].allWrittenTokens = buffer[r].allWrittenTokens,
         futures'[r] = futures[r]
  PROVE  Kept(r)'
<1> DEFINE W == writtenBlocks(r)
           f == futures[r]
           c == first
           d == first'
           fs == failed
           gs == failed'
<1>1. KeptOf(c, W, f, r, fs)
  BY DEF Kept
<1>2. W = FullBlocks(buffer'[r].allWrittenTokens)
  BY Zenon DEF writtenBlocks
<1>3. c \subseteq d /\ fs \subseteq gs
  OBVIOUS
<1> HIDE DEF W, f, c, d, fs, gs
<1>4. KeptOf(d, W, f, r, gs)
  BY <1>1, <1>3, KeptGrows
<1> QED
  BY <1>2, <1>4, Zenon DEF Kept, writtenBlocks, d, f, gs

LEMMA FlushKept ==
  ASSUME TypeInv, TypeInv', NEW r \in Runs, Chain(r), Kept(r),
         futures[r] = <<>>, UNCHANGED <<first, failed>>,
         NEW tokens \in Seq(Tokens), NEW p, NEW q, AddAndFlush(r, tokens, p, q)
  PROVE  Kept(r)'
<1> DEFINE w == buffer[r].allWrittenTokens
           v == buffer'[r].allWrittenTokens
           W == FullBlocks(w)
           V == FullBlocks(v)
           g == futures'[r]
           m == Len(W)
           n == Len(g)
<1>1. w \in Seq(Tokens) /\ v \in Seq(Tokens) /\ Begins(w, v)
  BY BufferType, FlushGrows DEF TypeInv, Buffers
<1>2. m \in Nat /\ Len(V) \in Nat /\ n \in Nat
  <2>1. g \in Seq(Futures)
    BY DEF TypeInv
  <2>2. W \in Seq(Blocks) /\ V \in Seq(Blocks)
    <3> HIDE DEF w, v
    <3> QED
      BY <1>1, FullBlocksIs
  <2> HIDE DEF g, W, V
  <2> QED
    BY <2>1, <2>2
<1>3. \A i \in 1 .. m : V[i] = W[i]
  BY <1>1, BlocksOfBeginning
<1>4. Len(V) - n = m /\ \A i \in 1 .. n : g[i].state = "pending"
  <2>1. Whole(w)
    BY Zenon DEF Chain, ChainOf
  <2> QED
    BY <2>1, FlushAppends
<1>5. KeptOf(first, W, <<>>, r, failed)
  BY Zenon DEF Kept, writtenBlocks
<1> HIDE DEF V, W, g, m, n
<1>6. ASSUME NEW k \in 1 .. Len(V), Sure(V, r, k, failed), Ends(Len(V), g, k)
      PROVE  Linked(first, V, k)
  <2>1. k \in 1 .. m
    <3> SUFFICES ASSUME ~(k <= m)
                 PROVE  FALSE
      BY <1>2
    <3>1. g[k - m].state = "stored"
      <4>1. k <= m \/ g[k - m].state = "stored"
        BY <1>4, <1>6, Zenon DEF Ends, n
      <4> QED
        BY <4>1
    <3>2. k - m \in 1 .. n
      BY <1>2, <1>4
    <3> QED
      BY <1>4, <3>1, <3>2
  <2>2. Linked(first, W, k) <=> Linked(first, V, k)
    BY <1>2, <1>3, <2>1, SameLink DEF m
  <2>3. Sure(W, r, k, failed)
    BY <1>2, <1>3, <1>6, <2>1, SameLink DEF m
  <2>4. Ends(m, <<>>, k)
    <3>1. Len(<<>>) = 0 /\ k <= m - 0
      BY <1>2, <2>1
    <3> QED
      BY <3>1, Zenon DEF Ends
  <2>5. Linked(first, W, k)
    BY <1>5, <2>1, <2>3, <2>4, Zenon DEF KeptOf, m
  <2> QED
    BY <2>2, <2>5
<1>7. KeptOf(first, V, g, r, failed)
  BY <1>6, Zenon DEF KeptOf
<1> QED
  BY <1>7, Zenon DEF Kept, writtenBlocks, V, g

(* The writes that were waited for have stored their versions.             *)
LEMMA FlushEndsKept ==
  ASSUME TypeInv, NEW r \in Runs, Account(r), Chain(r), Kept(r), FlushEnds(r)
  PROVE  Kept(r)'
<1> DEFINE f == futures[r]
           W == writtenBlocks(r)
           m == Len(W)
           n == Len(f)
<1>1. /\ UNCHANGED <<first, failed>> /\ futures'[r] = <<>> /\ WritesEnded(r)
      /\ buffer'[r].allWrittenTokens = buffer[r].allWrittenTokens
  <2>1. /\ UNCHANGED <<first, failed>> /\ WritesEnded(r)
        /\ futures' = [futures EXCEPT ![r] = <<>>]
        /\ \/ buffer' = [buffer EXCEPT ![r].completedBlocks = <<>>]
           \/ UNCHANGED buffer
    BY FlushEndsCases
  <2> QED
    BY <2>1 DEF TypeInv, Buffers
<1>2. f \in Seq(Futures) /\ n \in Nat /\ m \in Nat /\ m - n >= 0
  <2>1. f \in Seq(Futures) /\ n \in Nat /\ m \in Nat
    BY BufferType
  <2>2. m - n >= 0
    BY Zenon DEF Chain, ChainOf, writtenBlocks
  <2> QED
    BY <2>1, <2>2
<1>3. \A i \in 1 .. n : f[i].state = "stored"
  <2> TAKE i \in 1 .. n
  <2>1. f[i] \in Futures /\ i \in DOMAIN f
    BY <1>2
  <2>2. f[i].state # "failed"
    BY Zenon DEF Account, AccountOf
  <2>3. f[i].state # "pending"
    BY <1>1, <2>1 DEF WritesEnded
  <2> QED
    BY <2>1, <2>2, <2>3 DEF Futures
<1>4. KeptOf(first, W, f, r, failed)
  BY DEF Kept
<1>5. W = FullBlocks(buffer'[r].allWrittenTokens)
  BY <1>1, Zenon DEF writtenBlocks
<1> HIDE DEF f, W, m, n
<1>6. ASSUME NEW k \in 1 .. m, Sure(W, r, k, failed)
      PROVE  Linked(first, W, k)
  <2>1. Ends(m, f, k)
    <3>1. k <= m - n \/ k - (m - n) \in 1 .. n
      BY <1>2
    <3> QED
      BY <1>3, <3>1, Zenon DEF Ends, n
  <2> QED
    BY <1>4, <1>6, <2>1, Zenon DEF KeptOf, m
<1>7. KeptOf(first, W, <<>>, r, failed)
  BY <1>6, Zenon DEF KeptOf, m
<1> QED
  BY <1>1, <1>5, <1>7, Zenon DEF Kept, writtenBlocks

(* A write that is reported as stored, of a version that no run writes     *)
(* under another parent, has stored it, as the first of its block.         *)
LEMMA WriteEndsKept ==
  ASSUME WrittenInv, NEW r \in Runs, r \notin failed', Kept(r),
         NEW i \in DOMAIN futures[r], WriteEnds(r, i)
  PROVE  Kept(r)'
<1> DEFINE f == futures[r]
           g == futures'[r]
           W == writtenBlocks(r)
           m == Len(W)
           n == Len(f)
           v == f[i].version
<1>1. TypeInv
  BY DEF WrittenInv
<1>2. /\ UNCHANGED <<buffer, failed>> /\ r \notin failed
      /\ i \in 1 .. n /\ v \in Versions
      /\ Ended(r, i, "stored")
      /\ Stores(v) \/ (Contended(v) /\ UNCHANGED store)
  BY <1>1, WriteEndsCases
<1>3. m \in Nat /\ n \in Nat /\ m - n >= 0
      /\ m - n + i \in 1 .. m /\ Links(v, W, m - n + i)
  <2>1. Chain(r)
    BY <1>2 DEF WrittenInv, ChainInv
  <2>2. m \in Nat /\ n \in Nat
    BY <1>1, BufferType
  <2> QED
    BY <1>1, <1>2, <2>1, <2>2, WritesChained
<1>4. /\ Len(g) = n
      /\ \A j \in 1 .. n : g[j].state = IF j = i THEN "stored" ELSE f[j].state
  BY <1>2 DEF Ended
<1>5. first \subseteq first'
  BY <1>2 DEF Stores, store
<1>6. KeptOf(first, W, f, r, failed)
  BY DEF Kept
<1>7. W = FullBlocks(buffer'[r].allWrittenTokens)
  BY <1>2, Zenon DEF writtenBlocks
<1>8. ASSUME Sure(W, r, m - n + i, failed)
      PROVE  Linked(first', W, m - n + i)
  <2> DEFINE k == m - n + i
  <2>1. k \in 1 .. Len(W) /\ Links(v, W, k) /\ Sure(W, r, k, failed)
    BY <1>3, <1>8
  <2> HIDE DEF k
  <2>2. \A u \in published : u.block = v.block => u = v
    <3> HIDE DEF v, W
    <3> QED
      BY <1>2, <2>1, OneVersion DEF W
  <2>3. Stores(v)
    <3>1. ~Contended(v)
      <4> HIDE DEF v
      <4> QED
        BY <2>2 DEF Contended, cache
    <3> QED
      BY <1>2, <3>1
  <2>4. v \in first'
    <3> HIDE DEF v
    <3>1. CASE \E u \in first : u.block = v.block
      <4>1. PICK u \in first : u.block = v.block
        BY <3>1
      <4>2. u = v
        BY <1>1, <2>2, <4>1 DEF TypeInv
      <4> QED
        BY <1>5, <4>1, <4>2
    <3>2. CASE ~\E u \in first : u.block = v.block
      BY <2>3, <3>2 DEF Stores
    <3> QED
      BY <3>1, <3>2
  <2>5. Linked(first', W, k)
    <3> HIDE DEF v, W
    <3>1. CASE k = 1
      BY <2>1, <2>4, <3>1, Zenon DEF Links, Linked
    <3>2. CASE k # 1
      <4>1. v.block = W[k] /\ v.parent = W[k - 1]
        BY <2>1, <3>2, Zenon DEF Links, ParentIn
      <4>2. v = [block |-> W[k], parent |-> W[k - 1]]
        BY <1>2, <4>1 DEF Versions
      <4> QED
        BY <2>4, <3>2, <4>2, Zenon DEF Linked
    <3> QED
      BY <3>1, <3>2
  <2> QED
    BY <2>5 DEF k
<1>9. \A k : Linked(first, W, k) => Linked(first', W, k)
  <2> HIDE DEF W
  <2> QED
    BY <1>5, Zenon DEF Linked
<1> HIDE DEF f, g, W, m, n, v
<1>10. ASSUME NEW k \in 1 .. m, Sure(W, r, k, failed), Ends(m, g, k)
       PROVE  Linked(first', W, k)
  <2>1. CASE k = m - n + i
    BY <1>8, <1>10, <2>1
  <2>2. CASE k # m - n + i
    <3>1. Ends(m, f, k)
      <4> DEFINE j == k - (m - n)
      <4>1. k <= m - n \/ (j \in 1 .. n /\ j # i)
        BY <1>2, <1>3, <2>2
      <4>2. k <= m - n \/ g[j].state = "stored"
        BY <1>4, <1>10, Zenon DEF Ends
      <4> HIDE DEF j
      <4>3. k <= m - n \/ f[j].state = "stored"
        BY <1>4, <4>1, <4>2
      <4> QED
        BY <4>3, Zenon DEF Ends, j, n
    <3>2. Linked(first, W, k)
      BY <1>6, <1>10, <3>1, Zenon DEF KeptOf, m
    <3> QED
      BY <1>9, <3>2
  <2> QED
    BY <2>1, <2>2
<1>11. KeptOf(first', W, g, r, failed)
  BY <1>10, Zenon DEF KeptOf, m
<1>12. UNCHANGED failed
  BY <1>2
<1> QED
  BY <1>7, <1>11, <1>12, Zenon DEF Kept, writtenBlocks, g

(* What a lookup found of the first prompt is there with its one parent,   *)
(* and a run finds no block of its own that it has not written.            *)
LEMMA CacheCheckedKept ==
  ASSUME WrittenInv, NEW r \in Runs, r \notin failed, Kept(r), CacheChecked(r)
  PROVE  Kept(r)'
<1> DEFINE L == lookupBlocks(r)
           w == buffer'[r].allWrittenTokens
           W == FullBlocks(w)
           s == conversation[r]
<1>1. TypeInv /\ Account(r) /\ Script(r)
  BY DEF WrittenInv, AccountInv, ScriptInv
<1>2. UNCHANGED <<first, failed, futures>> /\ pc[r] = "checking"
  BY DEF CacheChecked, store
<1>3. futures[r] = <<>>
  BY <1>1, <1>2 DEF Account, AccountOf, InFlush
<1>4. CASE UNCHANGED buffer
  BY <1>2, <1>4, KeptStays
<1>5. ASSUME NEW n \in 1 .. Len(L),
             \A k \in 1 .. n : Linked(published, L, k),
             buffer' = [buffer EXCEPT ![r] = Cached(r, n)]
      PROVE  Kept(r)'
  <2>1. /\ buffer[r].allWrittenTokens = <<>>
        /\ w \in Seq(Tokens) /\ Begins(w, s) /\ s \in Seq(Tokens)
        /\ Len(W) = n /\ n \in Nat /\ \A k \in 1 .. n : W[k] = L[k]
    <3>1. CachedOf(r, n)
      BY <1>1, <1>2, <1>5, CachedWritten
    <3>2. L \in Seq(Blocks) /\ s \in Seq(Tokens)
      BY <1>1, BufferType
    <3>3. n \in Nat
      BY <3>2
    <3> HIDE DEF W, L
    <3> QED
      BY <3>1, <3>2, <3>3 DEF CachedOf, W, L
  <2> HIDE DEF W, L, w, s
  <2>2. ASSUME NEW k \in 1 .. n, Sure(W, r, k, failed)
        PROVE  Linked(first, W, k)
    <3>1. W[k] = L[k] /\ (k # 1 => W[k - 1] = L[k - 1] /\ k - 1 \in 1 .. n)
      BY <2>1
    <3>2. PICK v \in published :
            v.block = W[k] /\ (k # 1 => v.parent = W[k - 1])
      <4>1. Linked(published, L, k)
        BY <1>5
      <4>2. CASE k = 1
        BY <3>1, <4>1, <4>2 DEF Linked
      <4>3. CASE k # 1
        <5> DEFINE v == [block |-> L[k], parent |-> L[k - 1]]
        <5>1. v \in published /\ v.block = L[k] /\ v.parent = L[k - 1]
          BY <4>1, <4>3, Zenon DEF Linked
        <5> HIDE DEF v
        <5> QED
          BY <3>1, <4>3, <5>1
      <4> QED
        BY <4>2, <4>3
    <3>3. CASE OwnToken(W[k], r)
      <4>1. PICK j \in 1 .. BlockSize : v.block[j][1] = r
        BY <3>2, <3>3 DEF OwnToken
      <4>2. buffer[r].allWrittenTokens # <<>>
        BY <4>1 DEF WrittenInv, OwnInv
      <4> QED
        BY <2>1, <4>2
    <3>4. CASE failed = {} /\ k <= Len(Shared)
      <4>1. Started(pc[r], turn[r]) /\ 1 \in 1 .. Len(PromptLengths)
        <5>1. turn[r] # 0 /\ turn[r] \in 1 .. Len(PromptLengths)
          BY <1>1, <1>2, WithinBounds DEF TypeInv
        <5>2. 1 \in 1 .. Len(PromptLengths)
          BY <1>1, <1>2, WithinBounds, FirstPrompt
        <5> QED
          BY <1>2, <5>1, <5>2 DEF Started
      <4>2. k \in 1 .. Len(Shared) /\ Len(Shared) \in Nat
        BY <2>1, <3>4, <4>1, SharedIs
      <4>3. \A j \in 1 .. k : j \in 1 .. Len(FullBlocks(w)) /\ j \in 1 .. Len(Shared)
        BY <2>1, <4>2 DEF W
      <4>4. \A j \in 1 .. k : W[j] = Shared[j]
        <5> DEFINE p == pc[r]
                   t == turn[r]
        <5>1. ScriptOf(p, t, s) /\ Started(p, t)
          BY <1>1, <4>1 DEF Script, s
        <5> HIDE DEF p, t
        <5> QED
          BY <2>1, <4>1, <4>3, <5>1, SharedBlock DEF W
      <4>5. PICK u \in first : u.block = v.block
        BY DEF WrittenInv, FirstInv
      <4>6. u \in published /\ u \in Versions
        BY <1>1, <4>5 DEF TypeInv
      <4>7. PICK q \in Runs : InChainOf(u, buffer[q].allWrittenTokens)
        BY <3>4, <4>6, Zenon DEF WrittenInv, ShareInv, Known
      <4>8. Account(q) /\ Script(q)
        BY <3>4 DEF WrittenInv, AccountInv, ScriptInv
      <4>9. k \in 1 .. k
        BY <2>1
      <4>10. u.block = W[k] /\ u.block = Shared[k]
        BY <3>2, <4>4, <4>5, <4>9
      <4>11. u.parent = IF k = 1 THEN NoParent ELSE Shared[k - 1]
        BY <1>1, <4>2, <4>7, <4>8, <4>10, SharedParent
      <4>12. CASE k = 1
        BY <4>5, <4>10, <4>12, Zenon DEF Linked
      <4>13. CASE k # 1
        <5>1. k - 1 \in 1 .. k
          BY <2>1, <4>13
        <5>2. u.parent = W[k - 1]
          BY <4>4, <4>11, <4>13, <5>1
        <5>3. u = [block |-> W[k], parent |-> W[k - 1]]
          BY <4>6, <4>10, <5>2 DEF Versions
        <5> QED
          BY <4>5, <4>13, <5>3, Zenon DEF Linked
      <4> QED
        BY <4>12, <4>13
    <3> QED
      BY <2>2, <3>3, <3>4, Zenon DEF Sure
  <2>3. KeptOf(first, W, <<>>, r, failed)
    BY <2>1, <2>2, Zenon DEF KeptOf
  <2> QED
    BY <1>2, <1>3, <2>3, Zenon DEF Kept, writtenBlocks, W, w
<1>6. failures \in Nat
  BY <1>1, SizesAssumption DEF TypeInv
<1> QED
  BY <1>1, <1>4, <1>5, CacheCheckedCases

LEMMA KeptKept == WrittenInv /\ KeptInv /\ [Next]_vars => KeptInv'
<1> SUFFICES ASSUME WrittenInv, KeptInv, [Next]_vars
             PROVE  KeptInv'
  OBVIOUS
<1>1. TypeInv /\ TypeInv'
  BY WrittenKept DEF WrittenInv
<1>2. CASE UNCHANGED core
  <2>1. UNCHANGED <<first, buffer, futures, failed>>
    BY <1>2 DEF core
  <2>2. \A s \in Runs : Kept(s) => Kept(s)'
    BY <2>1, KeptStays
  <2> QED
    BY <2>1, <2>2 DEF KeptInv
<1>3. ASSUME NEW r \in Runs,
             runConversation(r) \/ \E i \in DOMAIN futures[r] : WriteEnds(r, i)
      PROVE  KeptInv'
  <2>1. Others(r)
    BY <1>1, <1>3, OthersStay
  <2>2. ASSUME r \notin failed' PROVE Kept(r)'
    <3>1. /\ r \notin failed /\ Account(r) /\ Chain(r) /\ Kept(r)
      BY <2>1, <2>2 DEF WrittenInv, AccountInv, ChainInv, KeptInv, Others
    <3>2. CASE NextTurn(r) \/ RunEnds(r) \/ Validated(r) \/ AddPrompt(r)
      <4>1. UNCHANGED <<first, buffer, futures>>
        BY <3>2 DEF NextTurn, RunEnds, Validated, AddPrompt, store
      <4> QED
        BY <2>1, <3>1, <4>1, KeptStays DEF Others
    <3>3. CASE FlushPrompt(r)
      <4>1. /\ AddAndFlush(r, conversation[r], "flushingPrompt", "agent")
            /\ pc[r] = "adding" /\ UNCHANGED <<first, failed>>
        BY <3>3 DEF FlushPrompt, store
      <4>2. futures[r] = <<>> /\ conversation[r] \in Seq(Tokens)
        BY <1>1, <3>1, <4>1, BufferType DEF Account, AccountOf, InFlush
      <4> QED
        BY <1>1, <3>1, <4>1, <4>2, FlushKept
    <3>4. CASE FlushAgent(r)
      <4> DEFINE tokens == conversation'[r]
      <4>1. UNCHANGED <<first, failed>>
        BY <3>4 DEF FlushAgent, store
      <4>2. /\ AddAndFlush(r, tokens, "flushingAgent", "turn")
            /\ tokens \in Seq(Tokens) /\ futures[r] = <<>>
        BY <1>1, <3>1, <3>4, AgentFlushes
      <4> HIDE DEF tokens
      <4> QED
        BY <1>1, <3>1, <4>1, <4>2, FlushKept
    <3> QED
      BY <1>1, <1>3, <2>2, <3>1, <3>2, <3>3, <3>4, CacheCheckedKept,
         FlushEndsKept, WriteEndsKept DEF runConversation
  <2>3. ASSUME NEW s \in Runs \ failed', s # r PROVE Kept(s)'
    <3>1. buffer'[s] = buffer[s] /\ futures'[s] = futures[s]
      BY <2>1, <2>3 DEF Others
    <3>2. Kept(s)
      BY <2>1, <2>3 DEF KeptInv, Others
    <3> QED
      BY <2>1, <3>1, <3>2, KeptStays DEF Others
  <2> QED
    BY <2>2, <2>3, Zenon DEF KeptInv
<1> QED
  BY <1>2, <1>3, Steps

(* The validations of a run that has only such blocks find all of them.    *)
ValidOf(p, n, x, blocks, r, fs) ==
  (\A k \in 1 .. Len(blocks) : Sure(blocks, r, k, fs)) =>
    x = 0 /\ (p = "validating" => n = Len(blocks))

Valid(r) ==
  ValidOf(pc[r], atLeast[r], missing[r], writtenBlocks(r), r, failed)
ValidInv == \A r \in Runs \ failed : Valid(r)

LEMMA ValidStays ==
  ASSUME TypeInv, [Next]_vars, NEW r \in Runs, Valid(r), failed \subseteq failed',
         missing'[r] = missing[r],
         \/ pc'[r] # "validating"
         \/ /\ pc'[r] = pc[r] /\ atLeast'[r] = atLeast[r]
            /\ buffer'[r] = buffer[r]
  PROVE  Valid(r)'
<1> DEFINE w == buffer[r].allWrittenTokens
           v == buffer'[r].allWrittenTokens
           W == FullBlocks(w)
           V == FullBlocks(v)
           fs == failed
           gs == failed'
           m == Len(W)
<1>1. w \in Seq(Tokens) /\ v \in Seq(Tokens) /\ Begins(w, v)
  BY WrittenStays
<1>2. m \in Nat /\ Len(V) \in Nat /\ m <= Len(V) /\ \A i \in 1 .. m : V[i] = W[i]
  <2> HIDE DEF w, v
  <2>1. W \in Seq(Blocks) /\ V \in Seq(Blocks)
    BY <1>1, FullBlocksIs
  <2>2. Len(W) <= Len(V) /\ \A i \in 1 .. Len(W) : V[i] = W[i]
    BY <1>1, BlocksOfBeginning
  <2> HIDE DEF W, V
  <2> QED
    BY <2>1, <2>2
<1>3. ValidOf(pc[r], atLeast[r], missing[r], W, r, fs)
  BY Zenon DEF Valid, writtenBlocks
<1>4. fs \subseteq gs
  OBVIOUS
<1>5. buffer'[r] = buffer[r] => V = W
  BY Zenon
<1> HIDE DEF W, V, fs, gs, m
<1>6. SUFFICES ASSUME \A k \in 1 .. Len(V) : Sure(V, r, k, gs)
               PROVE  /\ missing'[r] = 0
                      /\ pc'[r] = "validating" => atLeast'[r] = Len(V)
  BY Zenon DEF Valid, ValidOf, writtenBlocks, V, gs
<1>7. ASSUME NEW k \in 1 .. m
      PROVE  Sure(W, r, k, fs)
  <2>1. Sure(V, r, k, gs)
    BY <1>2, <1>6
  <2>2. Sure(W, r, k, gs)
    BY <1>2, <2>1, SameLink DEF m
  <2>3. gs = {} => fs = {}
    BY <1>4
  <2> QED
    BY <2>2, <2>3, Zenon DEF Sure
<1>8. missing[r] = 0 /\ (pc[r] = "validating" => atLeast[r] = m)
  BY <1>3, <1>7, Zenon DEF ValidOf, m
<1> QED
  BY <1>5, <1>8 DEF m

LEMMA NextTurnValid ==
  ASSUME TypeInv, [Next]_vars, NEW r \in Runs, Account(r), Kept(r), Valid(r),
         NextTurn(r)
  PROVE  Valid(r)'
<1> DEFINE W == writtenBlocks(r)
           m == Len(W)
           n == CachedBlocks(first, W)
<1>1. /\ pc[r] = "turn" /\ UNCHANGED <<failed, missing, buffer>>
      /\ \/ pc'[r] # "validating"
         \/ atLeast'[r] = n
  BY DEF NextTurn, TypeInv
<1>2. futures[r] = <<>>
  BY <1>1 DEF Account, AccountOf, InFlush
<1>3. W \in Seq(Blocks) /\ m \in Nat
  BY BufferType
<1>4. CASE pc'[r] # "validating"
  BY <1>1, <1>4, ValidStays
<1>5. CASE atLeast'[r] = n
  <2>1. KeptOf(first, W, <<>>, r, failed)
    BY <1>2 DEF Kept
  <2>2. ValidOf(pc[r], atLeast[r], missing[r], W, r, failed)
    BY DEF Valid
  <2>3. n \in 0 .. m
    BY <1>3, CachedBlocksIs
  <2>4. W = FullBlocks(buffer'[r].allWrittenTokens)
    BY <1>1, Zenon DEF writtenBlocks
  <2> SUFFICES ASSUME \A k \in 1 .. m : Sure(W, r, k, failed)
               PROVE  missing'[r] = 0 /\ atLeast'[r] = m
    <3> HIDE DEF W, n
    <3> QED
      BY <1>1, <2>4, Zenon DEF Valid, ValidOf, writtenBlocks
  <2>5. missing[r] = 0
    BY <2>2, Zenon DEF ValidOf
  <2> HIDE DEF W, m, n
  <2>6. ASSUME NEW k \in 1 .. m
        PROVE  Linked(first, W, k)
    <3>1. Len(<<>>) = 0 /\ k <= m - 0
      BY <1>3
    <3>2. Ends(m, <<>>, k)
      BY <3>1, Zenon DEF Ends
    <3> QED
      BY <2>1, <3>2, Zenon DEF KeptOf, m
  <2>7. n >= m
    <3>1. m \in 0 .. Len(W)
      BY <1>3 DEF m
    <3> QED
      BY <1>3, <2>6, <3>1, AllCached DEF n
  <2> QED
    BY <1>1, <1>3, <1>5, <2>3, <2>5, <2>7
<1> QED
  BY <1>1, <1>4, <1>5

LEMMA ValidatedValid ==
  ASSUME TypeInv, NEW r \in Runs, r \notin failed', Valid(r), Validated(r)
  PROVE  Valid(r)'
<1> DEFINE W == writtenBlocks(r)
           m == Len(W)
           c == CachedBlocks(published, W)
<1>1. /\ pc[r] = "validating" /\ pc'[r] = "prompt" /\ UNCHANGED <<failed, buffer>>
      /\ \E n \in atLeast[r] .. c : missing' = [missing EXCEPT ![r] = m - n]
  BY DEF Validated, Found, TypeInv
<1>2. W \in Seq(Blocks) /\ m \in Nat /\ c \in 0 .. m
  BY BufferType, CachedBlocksIs
<1>3. ValidOf(pc[r], atLeast[r], missing[r], W, r, failed)
  BY DEF Valid
<1>4. W = FullBlocks(buffer'[r].allWrittenTokens)
  BY <1>1, Zenon DEF writtenBlocks
<1> SUFFICES ASSUME \A k \in 1 .. m : Sure(W, r, k, failed)
             PROVE  missing'[r] = 0
  <2> HIDE DEF W, c
  <2> QED
    BY <1>1, <1>4 DEF Valid, ValidOf, writtenBlocks
<1>5. atLeast[r] = m
  BY <1>1, <1>3, Zenon DEF ValidOf
<1>6. PICK n \in m .. c : missing' = [missing EXCEPT ![r] = m - n]
  BY <1>1, <1>5
<1>7. missing'[r] = m - n
  BY <1>6 DEF TypeInv
<1> HIDE DEF W, m, c
<1> QED
  BY <1>2, <1>6, <1>7

LEMMA ValidKept == WrittenInv /\ KeptInv /\ ValidInv /\ [Next]_vars => ValidInv'
<1> SUFFICES ASSUME WrittenInv, KeptInv, ValidInv, [Next]_vars
             PROVE  ValidInv'
  OBVIOUS
<1>1. TypeInv
  BY DEF WrittenInv
<1>2. CASE UNCHANGED core
  <2>1. UNCHANGED <<pc, buffer, atLeast, missing, failed>>
    BY <1>2 DEF core
  <2>2. \A s \in Runs : Valid(s) => Valid(s)'
    BY <1>1, <2>1, ValidStays
  <2> QED
    BY <2>1, <2>2 DEF ValidInv
<1>3. ASSUME NEW r \in Runs,
             runConversation(r) \/ \E i \in DOMAIN futures[r] : WriteEnds(r, i)
      PROVE  ValidInv'
  <2>1. Others(r)
    BY <1>1, <1>3, OthersStay
  <2>2. ASSUME r \notin failed' PROVE Valid(r)'
    <3>1. Account(r) /\ Kept(r) /\ Valid(r)
      BY <2>1, <2>2 DEF WrittenInv, AccountInv, KeptInv, ValidInv, Others
    <3>2. CASE \/ RunEnds(r) \/ AddPrompt(r) \/ CacheChecked(r)
               \/ FlushPrompt(r) \/ FlushAgent(r) \/ FlushEnds(r)
      <4>1. \E p \in Places \ {"validating"} : pc' = [pc EXCEPT ![r] = p]
        <5>1. CASE RunEnds(r) \/ AddPrompt(r) \/ CacheChecked(r)
          BY <5>1 DEF RunEnds, AddPrompt, CacheChecked, Places
        <5>2. CASE FlushPrompt(r) \/ FlushAgent(r)
          <6>1. \E p \in {"flushingPrompt", "agent", "flushingAgent", "turn"} :
                  pc' = [pc EXCEPT ![r] = p]
            BY <5>2, Zenon DEF FlushPrompt, FlushAgent, AddAndFlush
          <6> QED
            BY <6>1 DEF Places
        <5>3. CASE FlushEnds(r)
          BY <1>1, <5>3, FlushEndsCases DEF Places
        <5> QED
          BY <3>2, <5>1, <5>2, <5>3
      <4>2. UNCHANGED missing
        BY <1>1, <3>2, FlushEndsCases DEF RunEnds, AddPrompt, CacheChecked,
           FlushPrompt, FlushAgent
      <4>3. pc'[r] # "validating"
        BY <1>1, <4>1 DEF TypeInv
      <4> QED
        BY <1>1, <2>1, <3>1, <4>2, <4>3, ValidStays DEF Others
    <3>3. CASE \E i \in DOMAIN futures[r] : WriteEnds(r, i)
      <4>1. UNCHANGED <<pc, buffer, atLeast, missing>>
        BY <3>3 DEF WriteEnds
      <4> QED
        BY <1>1, <2>1, <3>1, <4>1, ValidStays DEF Others
    <3> QED
      BY <1>1, <1>3, <2>2, <3>1, <3>2, <3>3, NextTurnValid, ValidatedValid
         DEF runConversation
  <2>3. ASSUME NEW s \in Runs \ failed', s # r PROVE Valid(s)'
    <3>1. /\ pc'[s] = pc[s] /\ atLeast'[s] = atLeast[s]
          /\ buffer'[s] = buffer[s] /\ missing'[s] = missing[s]
      BY <2>1, <2>3 DEF Others
    <3>2. Valid(s)
      BY <2>1, <2>3 DEF ValidInv, Others
    <3> QED
      BY <1>1, <2>1, <3>1, <3>2, ValidStays DEF Others
  <2> QED
    BY <2>2, <2>3, Zenon DEF ValidInv
<1> QED
  BY <1>2, <1>3, Steps

ReadInv == WrittenInv /\ KeptInv /\ ValidInv

LEMMA ReadKept == ReadInv /\ [Next]_vars => ReadInv'
BY WrittenKept, KeptKept, ValidKept DEF ReadInv

LEMMA ReadInit == Init => ReadInv
<1> SUFFICES ASSUME Init
             PROVE  ReadInv
  OBVIOUS
<1>1. WrittenInv
  BY WrittenInit
<1>2. ASSUME NEW r \in Runs
      PROVE  writtenBlocks(r) = <<>> /\ missing[r] = 0 /\ pc[r] = "turn"
  <2>1. buffer[r].allWrittenTokens = <<>> /\ missing[r] = 0 /\ pc[r] = "turn"
    BY <1>2 DEF Init, EmptyBuffer
  <2>2. <<>> \in Seq(Tokens) /\ Len(<<>>) < BlockSize
    BY SizesAssumption
  <2>3. FullBlocks(<<>>) = <<>>
    BY <2>2, NoBlocks
  <2> QED
    BY <2>1, <2>3, Zenon DEF writtenBlocks
<1>3. 1 .. Len(<<>>) = {}
  OBVIOUS
<1>4. KeptInv
  BY <1>2, <1>3, Zenon DEF KeptInv, Kept, KeptOf
<1>5. ValidInv
  <2>1. "turn" # "validating"
    OBVIOUS
  <2> QED
    BY <1>2, <2>1, Zenon DEF ValidInv, Valid, ValidOf
<1> QED
  BY <1>1, <1>4, <1>5 DEF ReadInv

LEMMA ReadInvariant == Spec => []ReadInv
<1>1. Init => ReadInv
  BY ReadInit
<1>2. ReadInv /\ [Next]_vars => ReadInv'
  BY ReadKept
<1> QED
  BY <1>1, <1>2, PTL DEF Spec

(* Whatever the other runs write, drop and evict, and however many they    *)
(* are: unless a request of the run has failed, every block that it counts *)
(* as written and that no run writes under another parent is in the store  *)
(* under its own, once the flush is over; and when all its blocks are such *)
(* ones, its validations miss none of them.                                *)
THEOREM WritesAreRead == Spec => []ReadsItsWrites
<1>1. ReadInv /\ StoreInv => ReadsItsWrites
  <2> SUFFICES ASSUME ReadInv, StoreInv, NEW r \in Runs \ failed
               PROVE  /\ \A i \in DOMAIN writtenBlocks(r) :
                           ~IsFlushing(r) /\ Uncontended(r, i) =>
                             Linked(cache, writtenBlocks(r), i)
                      /\ (\A i \in DOMAIN writtenBlocks(r) : Uncontended(r, i))
                           => missing[r] = 0
    BY Zenon DEF ReadsItsWrites
  <2> DEFINE W == writtenBlocks(r)
             m == Len(W)
  <2>1. /\ TypeInv /\ Account(r) /\ Kept(r) /\ Valid(r)
        /\ r \in Runs /\ r \notin failed
    BY DEF ReadInv, WrittenInv, AccountInv, KeptInv, ValidInv
  <2>2. W \in Seq(Blocks) /\ DOMAIN W = 1 .. m /\ m \in Nat
    BY <2>1, BufferType
  <2>3. \A i : Uncontended(r, i) <=> Sure(W, r, i, failed)
    BY Zenon DEF Uncontended, Sure, OwnToken, Shared
  <2>4. KeptOf(first, W, futures[r], r, failed)
    BY <2>1 DEF Kept
  <2>5. ValidOf(pc[r], atLeast[r], missing[r], W, r, failed)
    BY <2>1 DEF Valid
  <2> HIDE DEF W, m
  <2>6. ASSUME NEW i \in 1 .. m, ~IsFlushing(r), Sure(W, r, i, failed)
        PROVE  Linked(cache, W, i)
    <3>1. futures[r] = <<>>
      BY <2>1, <2>6 DEF Account, AccountOf, InFlush, IsFlushing
    <3>2. Len(<<>>) = 0 /\ i <= m - 0
      BY <2>2
    <3>3. Ends(m, futures[r], i)
      BY <3>1, <3>2, Zenon DEF Ends
    <3>4. Linked(first, W, i)
      BY <2>4, <2>6, <3>3, Zenon DEF KeptOf, m
    <3>5. first \subseteq cache
      BY <2>1 DEF StoreInv, TypeInv, cache
    <3> QED
      BY <3>4, <3>5, Zenon DEF Linked
  <2>7. (\A i \in 1 .. m : Sure(W, r, i, failed)) => missing[r] = 0
    BY <2>5, Zenon DEF ValidOf, m
  <2> QED
    BY <2>2, <2>3, <2>6, <2>7, Zenon DEF W
<1> QED
  BY <1>1, ReadInvariant, StoreInvariant, PTL

(* As long as no request fails, every version in the store of a block of   *)
(* the first prompt has the same parent, whichever runs raced to write it: *)
(* the store holds one version of each of these blocks.                    *)
THEOREM PromptBlocksOnce == Spec => []SharedBlocksOnce
<1>1. ReadInv => SharedBlocksOnce
  <2> SUFFICES ASSUME ReadInv, failed = {}, NEW v \in cache,
                      NEW i \in 1 .. Len(Shared), v.block = Shared[i]
               PROVE  v.parent = IF i = 1 THEN NoParent ELSE Shared[i - 1]
    BY Zenon DEF SharedBlocksOnce, Shared
  <2>1. TypeInv
    BY DEF ReadInv, WrittenInv
  <2>2. PICK r \in Runs : InChainOf(v, buffer[r].allWrittenTokens)
    BY Zenon DEF ReadInv, WrittenInv, ShareInv, Known, cache
  <2>3. Account(r) /\ Script(r)
    BY DEF ReadInv, WrittenInv, AccountInv, ScriptInv
  <2> QED
    BY <2>1, <2>2, <2>3, SharedParent
<1> QED
  BY <1>1, ReadInvariant, PTL

-----------------------------------------------------------------------------
(* The playground's main: its steps and those of its threads are steps of  *)
(* the conversations, so everything proved of these holds here.            *)

PoolInv ==
  /\ main \in {"launching", "waiting", "returned"}
  /\ runId \in 1 .. Iterations + 1
  /\ pool \subseteq 1 .. runId - 1 /\ IsFiniteSet(pool)
  /\ Cardinality(pool) <= Concurrency
  /\ completed \in Nat /\ completed + Cardinality(pool) = runId - 1
  /\ warm \in [Runs -> BOOLEAN]

LEMMA PoolStep == [PoolNext]_allVars => [Next]_vars
<1> SUFFICES ASSUME [PoolNext]_allVars
             PROVE  [Next]_vars
  OBVIOUS
<1>1. CASE Main /\ UNCHANGED vars
  BY <1>1
<1>2. CASE \E r \in Runs : (Thread(r) \/ WriteThread(r))
                             /\ UNCHANGED <<poolVars, warm>>
  BY <1>2 DEF Thread, WriteThread, Next
<1>3. CASE UNCHANGED allVars
  BY <1>3 DEF allVars, playgroundVars
<1> QED
  BY <1>1, <1>2, <1>3 DEF PoolNext

(* The steps of main, of an eviction, and of the threads of a run.         *)
Stays == UNCHANGED <<poolVars, warm>>

LEMMA PoolSteps ==
  ASSUME [PoolNext]_allVars
  PROVE  \/ UNCHANGED core /\ (Main \/ Stays)
         \/ /\ Stays
            /\ \E r \in Runs : \/ Thread(r)
                               \/ \E i \in DOMAIN futures[r] : WriteEnds(r, i)
<1>1. CASE Main /\ UNCHANGED vars
  BY <1>1 DEF vars, store, core
<1>2. ASSUME NEW r \in Runs, Thread(r) \/ WriteThread(r), Stays
      PROVE  \/ UNCHANGED core
             \/ Thread(r) \/ \E i \in DOMAIN futures[r] : WriteEnds(r, i)
  <2>1. \A i \in DOMAIN futures[r] : Evict(r, i) => UNCHANGED core
    BY DEF Evict, core
  <2> QED
    BY <1>2, <2>1 DEF WriteThread
<1>3. CASE UNCHANGED allVars
  BY <1>3 DEF allVars, playgroundVars, vars, store, core, Stays
<1> QED
  BY <1>1, <1>2, <1>3 DEF PoolNext, Stays

LEMMA PoolIsConversations == PoolSpec => Spec
<1>1. PoolInit => Init
  BY DEF PoolInit
<1> QED
  BY <1>1, PoolStep, PTL DEF PoolSpec, Spec

LEMMA PoolStart == PoolInit => PoolInv
<1> SUFFICES ASSUME PoolInit
             PROVE  PoolInv
  OBVIOUS
<1>1. IsFiniteSet({}) /\ Cardinality({}) = 0
  BY FS_EmptySet
<1> QED
  BY <1>1, PoolAssumption DEF PoolInit, PoolInv

LEMMA LaunchPool ==
  ASSUME PoolInv, Launch
  PROVE  PoolInv'
<1>1. /\ runId \in 1 .. Iterations /\ runId \notin pool
      /\ runId' = runId + 1 /\ pool' = pool \cup {runId}
      /\ Cardinality(pool) < Concurrency
  BY PoolAssumption DEF PoolInv, Launch, Fits
<1>2. /\ IsFiniteSet(pool') /\ Cardinality(pool') = Cardinality(pool) + 1
  BY <1>1, FS_AddElement DEF PoolInv
<1>3. Cardinality(pool) \in Nat
  BY FS_CardinalityType DEF PoolInv
<1>4. pool' \subseteq 1 .. runId' - 1
  BY <1>1 DEF PoolInv
<1>5. warm' \in [Runs -> BOOLEAN]
  <2> DEFINE b == completed > 0 /\ failures = 0
  <2>1. warm' = [warm EXCEPT ![runId] = b] /\ b \in BOOLEAN
    BY DEF Launch
  <2> HIDE DEF b
  <2> QED
    BY <2>1 DEF PoolInv
<1>6. completed' + Cardinality(pool') = runId' - 1
  BY <1>1, <1>2, <1>3 DEF PoolInv, Launch
<1>7. runId' \in 1 .. Iterations + 1 /\ Cardinality(pool') <= Concurrency
  BY <1>1, <1>2, <1>3, PoolAssumption
<1> QED
  BY <1>2, <1>4, <1>5, <1>6, <1>7 DEF PoolInv, Launch

LEMMA HarvestPool ==
  ASSUME PoolInv, Harvest
  PROVE  PoolInv'
<1>1. PICK r \in pool : pool' = pool \ {r}
  BY DEF Harvest
<1>2. /\ IsFiniteSet(pool') /\ Cardinality(pool') = Cardinality(pool) - 1
  BY <1>1, FS_RemoveElement DEF PoolInv
<1>3. Cardinality(pool) \in Nat /\ Concurrency \in Nat
  BY FS_CardinalityType, PoolAssumption DEF PoolInv
<1>4. completed' + Cardinality(pool') = runId - 1 /\ completed' \in Nat
      /\ Cardinality(pool') <= Concurrency
  BY <1>2, <1>3 DEF PoolInv, Harvest
<1> QED
  BY <1>1, <1>2, <1>4 DEF PoolInv, Harvest

LEMMA PoolKept == PoolInv /\ [PoolNext]_allVars => PoolInv'
<1> SUFFICES ASSUME PoolInv, [PoolNext]_allVars
             PROVE  PoolInv'
  OBVIOUS
<1>1. CASE LaunchedAll
  BY <1>1 DEF LaunchedAll, PoolInv
<1>2. CASE PassEnds
  BY <1>2 DEF PassEnds, PoolInv
<1>3. CASE UNCHANGED <<poolVars, warm>>
  BY <1>3 DEF poolVars, PoolInv
<1>4. CASE UNCHANGED allVars
  BY <1>3, <1>4 DEF allVars, playgroundVars
<1> QED
  BY <1>1, <1>2, <1>3, <1>4, LaunchPool, HarvestPool DEF PoolNext, Main

(* Type correctness of the playground: no more than Concurrency runs are   *)
(* in the pool, and each that was launched is there or has been harvested. *)
THEOREM PoolTypeCorrect == PoolSpec => []PoolTypeOK
<1>1. PoolInit => PoolInv
  BY PoolStart
<1>2. PoolInv /\ [PoolNext]_allVars => PoolInv'
  BY PoolKept
<1>3. PoolInv /\ TypeOK => PoolTypeOK
  BY DEF PoolInv, PoolTypeOK
<1> QED
  BY <1>1, <1>2, <1>3, PoolIsConversations, ConversationTypeCorrect, PTL
     DEF PoolSpec

-----------------------------------------------------------------------------
(* The inductive invariant of ReusedAcrossRuns.  Once a run was harvested  *)
(* and no request has failed, the blocks of the first prompt are all in    *)
(* the store; the lookup of a run that is launched then finds them, so     *)
(* that the writes of the run are of the blocks behind.                    *)

IdleInv ==
  /\ \A r \in Runs : r >= runId => pc[r] = "turn" /\ turn[r] = 0
  /\ \A r \in Runs : pc[r] = "done" => turn[r] = Len(PromptLengths)
  /\ failures = 0 => failed = {}

AllShared ==
  1 \in 1 .. Len(PromptLengths) =>
    \A k \in 1 .. Len(Shared) : Linked(first, Shared, k)

SettledOf(p, t, b, f, n) ==
  Started(p, t) =>
    IF p = "checking" THEN n >= Len(Shared)
    ELSE Len(FullBlocks(b.allWrittenTokens)) - Len(f) >= Len(Shared)

Settled(r) == SettledOf(pc[r], turn[r], buffer[r], futures[r], atLeast[r])

WarmInv ==
  failures = 0 =>
    /\ completed > 0 \/ (\E r \in Runs : warm[r]) => AllShared
    /\ \A r \in Runs : warm[r] => Settled(r)

(* As long as no request has failed, none of a run has.                    *)
LEMMA NoneFailed ==
  ASSUME TypeInv, failures = 0 => failed = {}, [Next]_vars, failures' = 0
  PROVE  failures = 0 /\ failed = {} /\ failed' = {}
<1>1. failures \in Nat
  BY SizesAssumption DEF TypeInv
<1>2. \/ UNCHANGED <<failures, failed>>
      \/ failures' = failures + 1
  <2>1. CASE UNCHANGED core
    BY <2>1 DEF core
  <2>2. ASSUME NEW r \in Runs,
               runConversation(r) \/ \E i \in DOMAIN futures[r] : WriteEnds(r, i)
        PROVE  UNCHANGED <<failures, failed>> \/ failures' = failures + 1
    BY <2>2 DEF runConversation, NextTurn, RunEnds, Validated, AddPrompt,
       CacheChecked, FlushPrompt, FlushAgent, FlushEnds, WriteEnds
  <2> QED
    BY <2>1, <2>2, Steps
<1> QED
  BY <1>1, <1>2

(* A run that has ended has written the whole of the first prompt.         *)
LEMMA EndedHasShared ==
  ASSUME TypeInv, NEW r \in Runs, Account(r), Chain(r), Script(r), Kept(r),
         failed = {}, pc[r] = "done", turn[r] = Len(PromptLengths)
  PROVE  AllShared
<1> SUFFICES ASSUME 1 \in 1 .. Len(PromptLengths), NEW k \in 1 .. Len(Shared)
             PROVE  Linked(first, Shared, k)
  BY DEF AllShared
<1> DEFINE w == buffer[r].allWrittenTokens
           c == buffer[r].currentBlock
           s == conversation[r]
           W == FullBlocks(w)
           n == PromptLengths[1]
<1>1. /\ w \in Seq(Tokens) /\ s \in Seq(Tokens) /\ c \in Seq(Tokens)
      /\ Begins(w, s) /\ Len(c) < BlockSize
  BY BufferType, WrittenBegins DEF TypeInv
<1>2. /\ Started(pc[r], turn[r]) /\ ScriptOf(pc[r], turn[r], s)
  BY DEF Started, Script
<1>3. n \in Nat /\ n <= Len(s)
  BY <1>2, PromptIs DEF ScriptOf
<1>4. /\ buffer[r].processed = Len(s) /\ futures[r] = <<>>
      /\ w \o c = SubSeq(s, 1, Len(s))
  BY DEF Account, AccountOf, Counted, InFlush
<1>5. Whole(w) /\ KeptOf(first, W, <<>>, r, failed)
  BY <1>4, Zenon DEF Chain, ChainOf, Kept, writtenBlocks
<1>6. Len(s) = Len(w) + Len(c)
  <2> HIDE DEF w, s, c
  <2>1. Len(w \o c) = Len(w) + Len(c) /\ Len(SubSeq(s, 1, Len(s))) = Len(s)
    BY <1>1
  <2> QED
    BY <1>4, <2>1
<1>7. W \in Seq(Blocks) /\ Len(W) \in Nat /\ Len(w) = Len(W) * BlockSize
  BY <1>1, <1>5, FullBlocksIs DEF Whole
<1>8. Len(Shared) = n \div BlockSize /\ Len(Shared) \in Nat
  <2>1. PromptTokens(1) \in Seq(Tokens) /\ Len(PromptTokens(1)) = n
    BY PromptIs
  <2> QED
    BY <2>1, FullBlocksIs, SharedIs DEF Shared
<1> HIDE DEF w, c, s, W, n
<1>9. Len(Shared) <= Len(W)
  <2> DEFINE a == Len(Shared)
             b == Len(W)
             d == n \div BlockSize
  <2>1. d * BlockSize \in 0 .. n /\ a = d /\ d \in Nat
    BY <1>3, <1>8, BlocksOf
  <2>2. n < b * BlockSize + BlockSize
    <3>1. /\ Len(w) \in Nat /\ Len(c) \in Nat /\ BlockSize \in Nat \ {0}
          /\ Len(w) = b * BlockSize
      BY <1>1, <1>7, SizesAssumption
    <3> HIDE DEF b
    <3> QED
      BY <1>1, <1>3, <1>6, <3>1
  <2>3. b \in Nat /\ BlockSize \in Nat \ {0}
    BY <1>7, SizesAssumption
  <2> HIDE DEF a, b, d
  <2>4. ~(b + 1 <= d)
    <3> SUFFICES ASSUME b + 1 <= d
                 PROVE  FALSE
      OBVIOUS
    <3>1. (b + 1) * BlockSize <= d * BlockSize
      BY <2>1, <2>3, LargerProduct
    <3>2. (b + 1) * BlockSize = b * BlockSize + BlockSize
      BY <2>3
    <3>3. b * BlockSize \in Nat
      BY <2>3, Product
    <3> QED
      BY <1>3, <2>1, <2>2, <2>3, <3>1, <3>2, <3>3
  <2> QED
    BY <2>1, <2>3, <2>4 DEF a, b
<1>10. ASSUME NEW j \in 1 .. Len(Shared)
       PROVE  j \in 1 .. Len(W) /\ W[j] = Shared[j]
  <2>1. j \in 1 .. Len(W)
    BY <1>7, <1>8, <1>9
  <2> QED
    BY <1>1, <1>2, <2>1, SharedBlock DEF W
<1>11. Linked(first, W, k)
  <2>1. k \in 1 .. Len(W)
    BY <1>10
  <2>2. Len(<<>>) = 0 /\ k <= Len(W) - 0
    BY <1>7, <2>1
  <2>3. Ends(Len(W), <<>>, k)
    BY <2>2, Zenon DEF Ends
  <2>4. k <= Len(Shared)
    BY <1>8
  <2>5. Sure(W, r, k, failed)
    BY <2>4, Zenon DEF Sure
  <2> QED
    BY <1>5, <2>1, <2>3, <2>5, Zenon DEF KeptOf
<1>12. CASE k = 1
  <2>1. W[1] = Shared[1]
    BY <1>10, <1>12
  <2> QED
    BY <1>11, <1>12, <2>1, Zenon DEF Linked
<1>13. CASE k # 1
  <2>1. k - 1 \in 1 .. Len(Shared)
    BY <1>8, <1>13
  <2>2. W[k] = Shared[k] /\ W[k - 1] = Shared[k - 1]
    BY <1>10, <2>1
  <2> QED
    BY <1>11, <1>13, <2>2, Zenon DEF Linked
<1> QED
  BY <1>12, <1>13

(* What a run has found or written of the first prompt stays as it is.     *)
LEMMA RestSettled ==
  ASSUME TypeInv, NEW r \in Runs, Account(r), Settled(r),
         \/ NextTurn(r) \/ RunEnds(r) \/ Validated(r) \/ FlushEnds(r)
         \/ \E i \in DOMAIN futures[r] : WriteEnds(r, i)
  PROVE  Settled(r)'
<1>1. /\ pc \in [Runs -> Places] /\ turn \in [Runs -> 0 .. Len(PromptLengths)]
      /\ buffer \in [Runs -> Buffers] /\ futures \in [Runs -> Seq(Futures)]
      /\ writtenBlocks(r) \in Seq(Blocks) /\ Len(writtenBlocks(r)) \in Nat
      /\ Len(futures[r]) \in Nat
      /\ pc[r] \notin {"turn", "done"} => turn[r] # 0
  BY SMTT(20), BufferType DEF TypeInv
<1>2. TypeInv'
  BY NextTurnType, RunEndsType, ValidatedType, FlushEndsType, WriteEndsType
<1> DEFINE b == buffer[r].allWrittenTokens
           m == Len(FullBlocks(b))
<1>3. m \in Nat
  BY <1>1 DEF writtenBlocks
<1>4. /\ buffer'[r].allWrittenTokens = b
      /\ pc[r] # "checking" /\ pc'[r] # "checking"
      /\ Started(pc'[r], turn'[r]) => Started(pc[r], turn[r])
      /\ Len(futures'[r]) = Len(futures[r]) \/ futures'[r] = <<>>
  <2>1. CASE NextTurn(r)
    <3>1. /\ turn'[r] = turn[r] + 1 /\ turn[r] \in Nat /\ pc[r] = "turn"
          /\ pc'[r] \in {"prompt", "validating"}
      BY <1>1, <2>1 DEF NextTurn
    <3>2. Started(pc'[r], turn'[r]) => Started(pc[r], turn[r])
      BY <3>1 DEF Started
    <3> QED
      BY <2>1, <3>1, <3>2 DEF NextTurn
  <2>2. CASE RunEnds(r)
    BY <1>1, <2>2 DEF RunEnds, Started
  <2>3. CASE Validated(r)
    BY <1>1, <2>3 DEF Validated, Started
  <2>4. CASE FlushEnds(r)
    <3>1. /\ pc[r] \in InFlush /\ futures'[r] = <<>> /\ turn'[r] = turn[r]
          /\ pc'[r] \in {"agent", "turn"}
      BY <1>1, <2>4, FlushEndsCases DEF WritesEnded, IsFlushing, InFlush
    <3>2. buffer'[r].allWrittenTokens = b
      <4>1. \/ buffer' = [buffer EXCEPT ![r].completedBlocks = <<>>]
            \/ UNCHANGED buffer
        BY <2>4, FlushEndsCases
      <4>2. buffer[r] \in Buffers
        BY <1>1
      <4> QED
        BY <1>1, <4>1, <4>2 DEF Buffers
    <3>3. Started(pc[r], turn[r])
      BY <1>1, <3>1 DEF Started, InFlush
    <3> QED
      BY <3>1, <3>2, <3>3 DEF InFlush
  <2>5. CASE \E i \in DOMAIN futures[r] : WriteEnds(r, i)
    <3>1. PICK i \in DOMAIN futures[r] : WriteEnds(r, i)
      BY <2>5
    <3>2. UNCHANGED <<pc, turn, buffer>> /\ Len(futures'[r]) = Len(futures[r])
      BY <3>1, WriteEndsCases DEF Ended
    <3>3. futures[r] # <<>>
      BY <3>1, BufferType
    <3>4. pc[r] # "checking"
      BY <3>3 DEF Account, AccountOf, InFlush
    <3> QED
      BY <3>2, <3>4
  <2> QED
    BY <2>1, <2>2, <2>3, <2>4, <2>5
<1>5. Started(pc'[r], turn'[r]) => m - Len(futures'[r]) >= Len(Shared)
  <2> SUFFICES ASSUME Started(pc'[r], turn'[r])
               PROVE  m - Len(futures'[r]) >= Len(Shared)
    OBVIOUS
  <2>1. Started(pc[r], turn[r]) /\ 1 \in 1 .. Len(PromptLengths)
    BY <1>1, <1>4, FirstPrompt, SizesAssumption DEF Started
  <2>2. m - Len(futures[r]) >= Len(Shared) /\ Len(Shared) \in Nat
    BY <1>4, <2>1, SharedIs DEF Settled, SettledOf
  <2>3. Len(<<>>) = 0
    OBVIOUS
  <2> HIDE DEF m
  <2> QED
    BY <1>1, <1>3, <1>4, <2>2, <2>3
<1> QED
  BY <1>4, <1>5, Zenon DEF Settled, SettledOf

LEMMA SharedFound ==
  ASSUME AllShared, 1 \in 1 .. Len(PromptLengths)
  PROVE  CachedBlocks(first, Shared) >= Len(Shared)
<1>1. Shared \in Seq(Blocks) /\ Len(Shared) \in Nat
  BY SharedIs
<1>2. \A k \in 1 .. Len(Shared) : Linked(first, Shared, k)
  BY DEF AllShared
<1>3. Len(Shared) \in 0 .. Len(Shared)
  BY <1>1
<1> QED
  BY <1>1, <1>2, <1>3, AllCached

LEMMA AddPromptSettled ==
  ASSUME TypeInv, NEW r \in Runs, Account(r), Script(r), Settled(r),
         AllShared, AddPrompt(r)
  PROVE  Settled(r)'
<1> DEFINE w == buffer[r].allWrittenTokens
           W == FullBlocks(w)
           t == turn[r]
           s == conversation[r]
<1>1. /\ pc[r] = "prompt" /\ UNCHANGED <<turn, buffer, futures>>
      /\ futures[r] = <<>>
      /\ t \in 1 .. Len(PromptLengths) /\ 1 \in 1 .. Len(PromptLengths)
      /\ w \in Seq(Tokens) /\ s \in Seq(Tokens) /\ Begins(w, s)
      /\ W \in Seq(Blocks) /\ Len(W) \in Nat
      /\ Shared \in Seq(Blocks) /\ Len(Shared) \in Nat
  <2>1. pc[r] = "prompt" /\ UNCHANGED <<turn, buffer, futures>>
    BY DEF AddPrompt
  <2>2. futures[r] = <<>>
    BY <2>1 DEF Account, AccountOf, InFlush
  <2>3. t \in 1 .. Len(PromptLengths) /\ 1 \in 1 .. Len(PromptLengths)
    BY <2>1, WithinBounds, FirstPrompt
  <2>4. w \in Seq(Tokens) /\ s \in Seq(Tokens) /\ Begins(w, s)
        /\ W \in Seq(Blocks) /\ Len(W) \in Nat
    BY BufferType, WrittenBegins, FullBlocksIs
  <2> QED
    BY <2>1, <2>2, <2>3, <2>4, SharedIs
<1>2. Len(W) - Len(futures'[r]) = Len(W)
  <2> HIDE DEF W
  <2>1. Len(W) - Len(<<>>) = Len(W)
    BY <1>1
  <2> QED
    BY <1>1, <2>1
<1>3. atLeast'[r] \in Nat
  BY AddPromptType DEF TypeInv
<1>4. \/ pc' = [pc EXCEPT ![r] = "checking"] /\ w = <<>>
      \/ pc' = [pc EXCEPT ![r] = "adding"]
  BY DEF AddPrompt
<1>5. \/ pc'[r] = "checking" /\ w = <<>>
      \/ pc'[r] = "adding"
  BY <1>4 DEF TypeInv
<1>6. ASSUME w = <<>> PROVE Len(W) = 0
  <2>1. Len(w) < BlockSize
    BY <1>6, SizesAssumption
  <2>2. W = <<>>
    BY <1>1, <2>1, NoBlocks
  <2> QED
    BY <2>2
<1>7. CASE Started(pc[r], t)
  <2>1. Len(W) >= Len(Shared)
    <3>1. Len(W) - Len(futures[r]) >= Len(Shared)
      BY <1>1, <1>7, Zenon DEF Settled, SettledOf
    <3> QED
      BY <1>1, <1>2, <3>1
  <2>2. pc'[r] = "checking" => atLeast'[r] >= Len(Shared)
    BY <1>1, <1>3, <1>5, <1>6, <2>1
  <2> HIDE DEF w
  <2>3. Len(FullBlocks(buffer'[r].allWrittenTokens)) - Len(futures'[r])
          >= Len(Shared)
    BY <1>1, <1>2, <2>1 DEF w
  <2> QED
    BY <2>2, <2>3, Zenon DEF Settled, SettledOf
<1>8. CASE ~Started(pc[r], t)
  <2>1. t = 1 /\ s = <<>>
    BY <1>1, <1>8 DEF Started, Script, ScriptOf
  <2>2. conversation'[r] = PromptTokens(1)
    <3>1. conversation' = [conversation EXCEPT ![r] = @ \o PromptTokens(turn[r])]
      BY DEF AddPrompt
    <3>2. conversation'[r] = s \o PromptTokens(t)
      BY <3>1 DEF TypeInv
    <3>3. PromptTokens(1) \in Seq(Tokens)
      BY <1>1, PromptIs
    <3>4. <<>> \o PromptTokens(1) = PromptTokens(1)
      BY <3>3, ConcatEmptySeq
    <3> QED
      BY <2>1, <3>2, <3>4, Zenon
  <2>3. CASE pc'[r] = "checking"
    <3>1. pc' # [pc EXCEPT ![r] = "adding"]
      BY <2>3 DEF TypeInv
    <3>2. atLeast' = [atLeast EXCEPT ![r] =
                        CachedBlocks(first, FullBlocks(conversation'[r]))]
      BY <3>1, Zenon DEF AddPrompt
    <3>3. atLeast'[r] = CachedBlocks(first, Shared)
      BY <2>2, <3>2, Zenon DEF Shared, TypeInv
    <3>4. atLeast'[r] >= Len(Shared)
      BY <1>1, <3>3, SharedFound
    <3> QED
      BY <2>3, <3>4, Zenon DEF Settled, SettledOf
  <2>4. CASE pc'[r] = "adding"
    <3>1. w = <<>>
      BY <1>1, <2>1 DEF Begins
    <3>2. pc' # [pc EXCEPT ![r] = "checking"]
      BY <2>4 DEF TypeInv
    <3>3. ~(Len(conversation'[r]) >= BlockSize)
      BY <3>1, <3>2, Zenon DEF AddPrompt
    <3>4. Len(PromptTokens(1)) < BlockSize /\ PromptTokens(1) \in Seq(Tokens)
      BY <1>1, <2>2, <3>3, PromptIs, SizesAssumption
    <3>5. Shared = <<>>
      BY <3>4, NoBlocks DEF Shared
    <3>6. Len(W) >= Len(Shared)
      BY <1>1, <3>5
    <3> HIDE DEF w
    <3>7. Len(FullBlocks(buffer'[r].allWrittenTokens)) - Len(futures'[r])
            >= Len(Shared)
      BY <1>1, <1>2, <3>6 DEF w
    <3> QED
      BY <2>4, <3>7, Zenon DEF Settled, SettledOf
  <2> QED
    BY <1>5, <2>3, <2>4
<1> QED
  BY <1>7, <1>8

LEMMA CacheCheckedSettled ==
  ASSUME TypeInv, NEW r \in Runs, Account(r), Settled(r), failures' = failures,
         CacheChecked(r)
  PROVE  Settled(r)'
<1>1. /\ pc[r] = "checking" /\ pc'[r] = "adding"
      /\ UNCHANGED <<turn, futures>>
  BY DEF CacheChecked, TypeInv
<1>2. /\ futures[r] = <<>> /\ buffer[r].allWrittenTokens = <<>>
      /\ writtenBlocks(r) \in Seq(Blocks)
  BY <1>1, BufferType DEF Account, AccountOf, InFlush
<1>3. /\ turn[r] \in 1 .. Len(PromptLengths) /\ 1 \in 1 .. Len(PromptLengths)
      /\ Len(Shared) \in Nat
  BY <1>1, WithinBounds, FirstPrompt, SharedIs
<1>4. Started(pc[r], turn[r])
  BY <1>1, <1>3 DEF Started
<1>5. atLeast[r] >= Len(Shared) /\ atLeast[r] \in Nat
  BY <1>1, <1>4, BufferType DEF Settled, SettledOf
<1> DEFINE v == buffer'[r].allWrittenTokens
           V == FullBlocks(v)
<1>6. Len(V) \in Nat /\ Len(V) >= Len(Shared)
  <2>1. CASE UNCHANGED buffer /\ atLeast[r] = 0
    <3>1. V = writtenBlocks(r)
      BY <2>1, Zenon DEF writtenBlocks
    <3>2. Len(V) \in Nat
      BY <1>2, <3>1
    <3> HIDE DEF V
    <3> QED
      BY <1>3, <1>5, <2>1, <3>2
  <2>2. CASE \E n \in 1 .. Len(lookupBlocks(r)) :
               n >= atLeast[r] /\ buffer' = [buffer EXCEPT ![r] = Cached(r, n)]
    <3>1. PICK n \in 1 .. Len(lookupBlocks(r)) :
            n >= atLeast[r] /\ buffer' = [buffer EXCEPT ![r] = Cached(r, n)]
      BY <2>2
    <3> DEFINE u == SubSeq(conversation[r], 1, n * BlockSize)
    <3>2. /\ u \in Seq(Tokens) /\ Len(u) = n * BlockSize
          /\ Cached(r, n).allWrittenTokens = <<>> \o u
      BY <1>2, CachedIs
    <3>3. buffer'[r] = Cached(r, n)
      BY <3>1 DEF TypeInv
    <3> HIDE DEF u
    <3>4. <<>> \o u = u
      BY <3>2, ConcatEmptySeq
    <3>5. v = u
      BY <3>2, <3>3, <3>4, Zenon
    <3>6. n \in Nat
      BY BufferType
    <3>7. (n * BlockSize) \div BlockSize = n
      BY <3>6, BlocksOfMultiple
    <3>8. Len(FullBlocks(u)) = n
      BY <3>2, <3>7, FullBlocksIs
    <3>9. Len(V) = n
      BY <3>5, <3>8, Zenon
    <3> HIDE DEF V
    <3> QED
      BY <1>3, <1>5, <3>1, <3>6, <3>9
  <2>3. failures \in Nat
    BY SizesAssumption DEF TypeInv
  <2> HIDE DEF V
  <2>4. failures' # failures + 1
    BY <2>3
  <2> QED
    BY <2>1, <2>2, <2>4, CacheCheckedCases
<1>7. Len(V) - Len(futures'[r]) >= Len(Shared)
  <2>1. futures'[r] = <<>> /\ Len(<<>>) = 0
    BY <1>1, <1>2
  <2> HIDE DEF V
  <2> QED
    BY <1>3, <1>6, <2>1
<1> QED
  BY <1>1, <1>7, Zenon DEF Settled, SettledOf

LEMMA FlushSettled ==
  ASSUME TypeInv, NEW r \in Runs, Chain(r), Settled(r),
         Started(pc[r], turn[r]), pc[r] # "checking", futures[r] = <<>>,
         NEW tokens \in Seq(Tokens), NEW p, NEW q,
         p # "checking", q # "checking", AddAndFlush(r, tokens, p, q)
  PROVE  Settled(r)'
<1> DEFINE w == buffer[r].allWrittenTokens
           W == FullBlocks(w)
           V == FullBlocks(buffer'[r].allWrittenTokens)
<1>1. Whole(w) /\ W \in Seq(Blocks)
  <2>1. w \in Seq(Tokens)
    BY BufferType
  <2>2. W \in Seq(Blocks)
    BY <2>1, FullBlocksIs
  <2> QED
    BY <2>2, Zenon DEF Chain, ChainOf
<1>2. Len(W) - Len(<<>>) >= Len(Shared)
  BY Zenon DEF Settled, SettledOf
<1>3. Len(V) - Len(futures'[r]) = Len(W)
  BY <1>1, FlushAppends
<1>4. Len(W) - Len(<<>>) = Len(W)
  <2> HIDE DEF W
  <2> QED
    BY <1>1
<1>5. pc'[r] # "checking"
  <2>1. pc' = [pc EXCEPT ![r] = p] \/ pc' = [pc EXCEPT ![r] = q]
    BY FlushCases
  <2> QED
    BY <2>1 DEF TypeInv
<1>6. Len(V) - Len(futures'[r]) >= Len(Shared)
  BY <1>2, <1>3, <1>4, Zenon
<1> QED
  BY <1>5, <1>6, Zenon DEF Settled, SettledOf

LEMMA RunSettled ==
  ASSUME TypeInv, NEW r \in Runs, Account(r), Chain(r), Script(r), Settled(r),
         AllShared, failures' = failures,
         runConversation(r) \/ \E i \in DOMAIN futures[r] : WriteEnds(r, i)
  PROVE  Settled(r)'
<1>1. CASE FlushPrompt(r)
  <2>1. /\ AddAndFlush(r, conversation[r], "flushingPrompt", "agent")
        /\ pc[r] = "adding" /\ conversation[r] \in Seq(Tokens)
    BY <1>1, BufferType DEF FlushPrompt
  <2>2. futures[r] = <<>> /\ Started(pc[r], turn[r])
    BY <2>1 DEF Account, AccountOf, InFlush, TypeInv, Started
  <2> DEFINE p == "flushingPrompt"
             q == "agent"
  <2>3. p # "checking" /\ q # "checking"
        /\ AddAndFlush(r, conversation[r], p, q)
    BY <2>1
  <2> HIDE DEF p, q
  <2> QED
    BY <2>1, <2>2, <2>3, FlushSettled
<1>2. CASE FlushAgent(r)
  <2>1. /\ AddAndFlush(r, conversation'[r], "flushingAgent", "turn")
        /\ pc[r] = "agent"
    BY <1>2 DEF FlushAgent
  <2>2. conversation'[r] \in Seq(Tokens)
    BY <1>2, FlushAgentType DEF TypeInv
  <2>3. futures[r] = <<>> /\ Started(pc[r], turn[r])
    BY <2>1 DEF Account, AccountOf, InFlush, TypeInv, Started
  <2> DEFINE p == "flushingAgent"
             q == "turn"
  <2>4. p # "checking" /\ q # "checking"
        /\ AddAndFlush(r, conversation'[r], p, q)
    BY <2>1
  <2> HIDE DEF p, q
  <2> QED
    BY <2>1, <2>2, <2>3, <2>4, FlushSettled
<1> QED
  BY <1>1, <1>2, RestSettled, AddPromptSettled, CacheCheckedSettled
     DEF runConversation

LEMMA DoneEnds ==
  ASSUME TypeInv, NEW r \in Runs, runConversation(r), pc'[r] = "done"
  PROVE  turn'[r] = Len(PromptLengths)
<1>1. CASE NextTurn(r) \/ Validated(r) \/ AddPrompt(r) \/ CacheChecked(r)
  <2>1. \E p \in {"prompt", "validating", "checking", "adding"} :
          pc' = [pc EXCEPT ![r] = p]
    BY <1>1 DEF NextTurn, Validated, AddPrompt, CacheChecked
  <2> QED
    BY <2>1 DEF TypeInv
<1>2. CASE FlushPrompt(r) \/ FlushAgent(r)
  <2>1. \E p \in {"flushingPrompt", "agent", "flushingAgent", "turn"} :
          pc' = [pc EXCEPT ![r] = p]
    BY <1>2, Zenon DEF FlushPrompt, FlushAgent, AddAndFlush
  <2> QED
    BY <2>1 DEF TypeInv
<1>3. CASE FlushEnds(r)
  <2>1. \E p \in {"agent", "turn"} : pc' = [pc EXCEPT ![r] = p]
    BY <1>3, FlushEndsCases
  <2> QED
    BY <2>1 DEF TypeInv
<1>4. CASE RunEnds(r)
  BY <1>4 DEF RunEnds
<1> QED
  BY <1>1, <1>2, <1>3, <1>4 DEF runConversation

LEMMA IdleKept ==
  TypeInv /\ PoolInv /\ IdleInv /\ [PoolNext]_allVars => IdleInv'
<1> SUFFICES ASSUME TypeInv, PoolInv, IdleInv, [PoolNext]_allVars
             PROVE  IdleInv'
  OBVIOUS
<1>1. failures' = 0 => failed' = {}
  BY PoolStep, NoneFailed DEF IdleInv
<1>2. \A s \in Runs : s \in Nat
  BY PoolAssumption
<1>3. CASE UNCHANGED core /\ (Main \/ Stays)
  <2>1. UNCHANGED <<pc, turn>>
    BY <1>3 DEF core
  <2>2. runId' \in {runId, runId + 1} /\ runId \in Nat
    BY <1>3, PoolAssumption DEF Main, Launch, LaunchedAll, Harvest,
       PassEnds, poolVars, Stays, PoolInv
  <2>3. \A s \in Runs : s >= runId' => s >= runId
    BY <1>2, <2>2
  <2> QED
    BY <1>1, <2>1, <2>3 DEF IdleInv
<1>4. ASSUME NEW r \in Runs, Stays,
             Thread(r) \/ \E i \in DOMAIN futures[r] : WriteEnds(r, i)
      PROVE  IdleInv'
  <2>1. Others(r) /\ UNCHANGED runId
    BY <1>4, OthersStay DEF Thread, poolVars, Stays
  <2>2. \A s \in Runs \ {r} : pc'[s] = pc[s] /\ turn'[s] = turn[s]
    BY <2>1 DEF Others
  <2>3. CASE Thread(r)
    <3>1. r \in pool /\ runConversation(r)
      BY <2>3 DEF Thread
    <3>2. ~(r >= runId)
      BY <1>2, <3>1, PoolAssumption DEF PoolInv
    <3>3. pc'[r] = "done" => turn'[r] = Len(PromptLengths)
      BY <3>1, DoneEnds
    <3>4. \A s \in Runs : s >= runId' => pc'[s] = "turn" /\ turn'[s] = 0
      BY <2>1, <2>2, <3>2 DEF IdleInv
    <3>5. \A s \in Runs : pc'[s] = "done" => turn'[s] = Len(PromptLengths)
      BY <2>2, <3>3 DEF IdleInv
    <3> QED
      BY <1>1, <3>4, <3>5 DEF IdleInv
  <2>4. CASE \E i \in DOMAIN futures[r] : WriteEnds(r, i)
    <3>1. UNCHANGED <<pc, turn>>
      BY <2>4 DEF WriteEnds
    <3> QED
      BY <1>1, <2>1, <3>1 DEF IdleInv
  <2> QED
    BY <1>4, <2>3, <2>4
<1> QED
  BY <1>3, <1>4, PoolSteps

LEMMA SharedStays ==
  ASSUME AllShared, first \subseteq first'
  PROVE  AllShared'
<1>1. \A k : Linked(first, Shared, k) => Linked(first', Shared, k)
  BY Zenon DEF Linked
<1>2. Shared' = Shared
  BY Zenon DEF Shared, FullBlocks, PromptTokens
<1>3. \A k : Linked(first, Shared, k)' <=> Linked(first', Shared, k)
  BY <1>2, Zenon DEF Linked
<1> QED
  BY <1>1, <1>2, <1>3, Zenon DEF AllShared

LEMMA WarmKept ==
  ASSUME ReadInv, PoolInv, IdleInv, WarmInv, [PoolNext]_allVars
  PROVE  WarmInv'
<1> SUFFICES ASSUME failures' = 0
             PROVE  /\ completed' > 0 \/ (\E r \in Runs : warm'[r]) => AllShared'
                    /\ \A r \in Runs : warm'[r] => Settled(r)'
  BY DEF WarmInv
<1>1. TypeInv
  BY DEF ReadInv, WrittenInv
<1>2. failures = 0 /\ failed = {}
  BY <1>1, PoolStep, NoneFailed DEF IdleInv
<1>3. \A r \in Runs : Account(r) /\ Chain(r) /\ Script(r) /\ Kept(r)
  BY <1>2 DEF ReadInv, WrittenInv, AccountInv, ChainInv, ScriptInv, KeptInv
<1>4. /\ completed > 0 \/ (\E r \in Runs : warm[r]) => AllShared
      /\ \A r \in Runs : warm[r] => Settled(r)
  BY <1>2 DEF WarmInv
<1>5. ASSUME UNCHANGED core
      PROVE  (AllShared => AllShared') /\ \A r \in Runs : Settled(r) => Settled(r)'
  <2>1. UNCHANGED <<first, pc, turn, buffer, futures, atLeast>>
    BY <1>5 DEF core
  <2>2. AllShared => AllShared'
    BY <2>1, SharedStays
  <2>3. \A r \in Runs : Settled(r) => Settled(r)'
    BY <2>1, Zenon DEF Settled, SettledOf
  <2> QED
    BY <2>2, <2>3
<1>6. CASE UNCHANGED core /\ UNCHANGED <<completed, warm>>
  BY <1>4, <1>5, <1>6
<1>7. CASE UNCHANGED core /\ Launch
  <2>1. /\ UNCHANGED completed /\ runId \in Nat
        /\ warm' = [warm EXCEPT ![runId] = completed > 0 /\ failures = 0]
        /\ warm \in [Runs -> BOOLEAN]
    BY <1>7, PoolAssumption DEF Launch, PoolInv
  <2>2. \A r \in Runs : r # runId => warm'[r] = warm[r]
    BY <2>1
  <2>3. runId \in Runs => (warm'[runId] => completed > 0)
    BY <2>1
  <2>4. completed' > 0 \/ (\E r \in Runs : warm'[r]) => AllShared
    BY <1>4, <2>1, <2>2, <2>3
  <2>5. ASSUME NEW r \in Runs, warm'[r]
        PROVE  Settled(r)
    <3>1. CASE r = runId
      <4>1. turn[r] = 0
        BY <2>1, <3>1, PoolAssumption DEF IdleInv
      <4> QED
        BY <4>1 DEF Settled, SettledOf, Started
    <3>2. CASE r # runId
      BY <1>4, <2>2, <2>5, <3>2
    <3> QED
      BY <3>1, <3>2
  <2> QED
    BY <1>5, <1>7, <2>4, <2>5
<1>8. CASE UNCHANGED core /\ Harvest
  <2>1. UNCHANGED warm
    BY <1>8 DEF Harvest
  <2>2. PICK r \in pool : pc[r] = "done"
    BY <1>8 DEF Harvest
  <2>3. r \in Runs
    BY PoolAssumption DEF PoolInv
  <2>4. AllShared
    BY <1>1, <1>2, <1>3, <2>2, <2>3, EndedHasShared DEF IdleInv
  <2> QED
    BY <1>4, <1>5, <1>8, <2>1, <2>4
<1>9. ASSUME NEW r \in Runs, Stays,
             Thread(r) \/ \E i \in DOMAIN futures[r] : WriteEnds(r, i)
      PROVE  /\ completed' > 0 \/ (\E s \in Runs : warm'[s]) => AllShared'
             /\ \A s \in Runs : warm'[s] => Settled(s)'
  <2>1. runConversation(r) \/ \E i \in DOMAIN futures[r] : WriteEnds(r, i)
    BY <1>9 DEF Thread
  <2>2. Others(r) /\ UNCHANGED <<completed, warm>>
    BY <1>1, <1>9, <2>1, OthersStay DEF poolVars, Stays
  <2>3. first \subseteq first'
    BY <2>2 DEF Others
  <2>4. ASSUME NEW s \in Runs, warm[s]
        PROVE  Settled(s)'
    <3>1. Settled(s) /\ AllShared
      BY <1>4, <2>4
    <3>2. CASE s = r
      BY <1>1, <1>2, <1>3, <2>1, <3>1, <3>2, RunSettled
    <3>3. CASE s # r
      <4>1. /\ pc'[s] = pc[s] /\ turn'[s] = turn[s] /\ buffer'[s] = buffer[s]
            /\ futures'[s] = futures[s] /\ atLeast'[s] = atLeast[s]
        BY <2>2, <3>3 DEF Others
      <4> QED
        BY <3>1, <4>1, Zenon DEF Settled, SettledOf
    <3> QED
      BY <3>2, <3>3
  <2> QED
    BY <1>4, <2>2, <2>3, <2>4, SharedStays
<1>10. CASE UNCHANGED core /\ (Main \/ Stays)
  <2>1. \/ UNCHANGED <<completed, warm>>
        \/ Launch
        \/ Harvest
    BY <1>10 DEF Main, LaunchedAll, PassEnds, Stays, poolVars
  <2> QED
    BY <1>6, <1>7, <1>8, <1>10, <2>1
<1> QED
  BY <1>9, <1>10, PoolSteps

PlaygroundInv == ReadInv /\ PoolInv /\ IdleInv /\ WarmInv

LEMMA PlaygroundInit == PoolInit => PlaygroundInv
<1> SUFFICES ASSUME PoolInit
             PROVE  PlaygroundInv
  OBVIOUS
<1>1. Init /\ PoolInv
  BY PoolStart DEF PoolInit
<1>2. IdleInv
  BY DEF PoolInit, Init, IdleInv
<1>3. WarmInv
  BY DEF PoolInit, WarmInv
<1> QED
  BY <1>1, <1>2, <1>3, ReadInit DEF PlaygroundInv

LEMMA PlaygroundInvariant == PoolSpec => []PlaygroundInv
<1>1. PoolInit => PlaygroundInv
  BY PlaygroundInit
<1>2. PlaygroundInv /\ [PoolNext]_allVars => PlaygroundInv'
  BY PoolStep, ReadKept, PoolKept, IdleKept, WarmKept
     DEF PlaygroundInv, ReadInv, WrittenInv
<1> QED
  BY <1>1, <1>2, PTL DEF PoolSpec

(* "allowing all concurrent runs to share the same prompt cache blocks": a *)
(* run that is launched after another was harvested never writes a block   *)
(* of the first prompt, however many runs and threads there are, unless a  *)
(* request fails.                                                          *)
THEOREM PromptReused == PoolSpec => []ReusedAcrossRuns
<1>1. PlaygroundInv => ReusedAcrossRuns
  <2> SUFFICES ASSUME PlaygroundInv, NEW r \in Runs, warm[r], failures = 0,
                      NEW i \in DOMAIN futures[r], NEW k \in DOMAIN Shared,
                      futures[r][i].version.block = Shared[k]
               PROVE  FALSE
    BY Zenon DEF ReusedAcrossRuns, Shared
  <2>1. TypeInv /\ Account(r) /\ Chain(r) /\ Script(r) /\ Settled(r)
    BY DEF PlaygroundInv, ReadInv, WrittenInv, AccountInv, ChainInv,
       ScriptInv, IdleInv, WarmInv
  <2> DEFINE w == buffer[r].allWrittenTokens
             s == conversation[r]
             W == FullBlocks(w)
             rest == Len(W) - Len(futures[r])
             v == futures[r][i].version
  <2>2. /\ w \in Seq(Tokens) /\ s \in Seq(Tokens) /\ Begins(w, s)
        /\ W = writtenBlocks(r) /\ W \in Seq(Blocks) /\ Len(W) \in Nat
        /\ futures[r] \in Seq(Futures)
    BY <2>1, BufferType, WrittenBegins DEF writtenBlocks
  <2>3. i \in 1 .. Len(futures[r]) /\ futures[r] # <<>>
    BY <2>2
  <2>4. rest >= 0 /\ rest + i \in 1 .. Len(W) /\ Links(v, W, rest + i)
    BY <2>1, <2>2, <2>3, WritesChained
  <2>5. Len(W) # 0
    <3> HIDE DEF W, rest
    <3> QED
      BY <2>2, <2>4
  <2>6. Started(pc[r], turn[r]) /\ 1 \in 1 .. Len(PromptLengths)
    BY <2>1, <2>2, <2>5, HasStarted
  <2>7. pc[r] # "checking"
    BY <2>1, <2>3 DEF Account, AccountOf, InFlush
  <2>8. rest >= Len(Shared)
    BY <2>1, <2>6, <2>7, Zenon DEF Settled, SettledOf
  <2>9. k \in 1 .. Len(Shared) /\ Len(Shared) \in Nat
    BY <2>6, SharedIs
  <2>10. W[rest + i] = Shared[k]
    BY <2>4, Zenon DEF Links
  <2>11. ScriptOf(pc[r], turn[r], s)
    BY <2>1 DEF Script
  <2> DEFINE j == rest + i
  <2>12. j \in 1 .. Len(FullBlocks(w)) /\ FullBlocks(w)[j] = Shared[k]
    BY <2>4, <2>10
  <2>13. rest \in Int
    <3> HIDE DEF W
    <3> QED
      BY <2>2
  <2> HIDE DEF w, s, rest, j
  <2>14. j = k
    BY <2>2, <2>6, <2>9, <2>11, <2>12, SharedPlace
  <2>15. j = rest + i /\ i >= 1 /\ i \in Nat
    BY <2>2, <2>3 DEF j
  <2> QED
    BY <2>8, <2>9, <2>13, <2>14, <2>15
<1> QED
  BY <1>1, PlaygroundInvariant, PTL

=============================================================================
