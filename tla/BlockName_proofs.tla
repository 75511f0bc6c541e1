--------------------------- MODULE BlockName_proofs ---------------------------
(* What the name of a block says about the block.                          *)
EXTENDS BlockName, TLAPS

(* Division of a natural number by a positive one.                         *)
LEMMA Division ==
  ASSUME NEW a \in Nat, NEW b \in Nat \ {0}
  PROVE  /\ a \div b \in Nat /\ a % b \in 0 .. b - 1
         /\ a = b * (a \div b) + (a % b)
OBVIOUS

LEMMA DivisionOfInt ==
  ASSUME NEW a \in Int, NEW b \in Nat \ {0}
  PROVE  a % b \in 0 .. b - 1
OBVIOUS

LEMMA Quotient ==
  ASSUME NEW a \in Nat, NEW b \in Nat \ {0}, NEW q \in Nat, NEW r \in 0 .. b - 1,
         a = b * q + r
  PROVE  a \div b = q
OBVIOUS

(* A division in two steps.                                                *)
LEMMA DivDiv ==
  ASSUME NEW a \in Nat, NEW b \in Nat \ {0}, NEW c \in Nat \ {0}
  PROVE  a \div (b * c) = (a \div b) \div c
<1> DEFINE q == a \div b
           r == a % b
           p == q \div c
           s == q % c
<1>1. q \in Nat /\ r \in 0 .. b - 1 /\ a = b * q + r
  BY Division
<1>2. p \in Nat /\ s \in 0 .. c - 1 /\ q = c * p + s
  BY <1>1, Division
<1> HIDE DEF q, r, p, s
<1>3. a = (b * c) * p + (b * s + r)
  <2>1. b * (c * p + s) = (b * c) * p + b * s
    BY <1>2
  <2> QED
    BY <1>1, <1>2, <2>1
<1>4. b * s + r \in 0 .. (b * c) - 1
  <2>1. b * s <= b * (c - 1)
    BY <1>2
  <2>2. b * (c - 1) = b * c - b
    OBVIOUS
  <2>3. b * s >= 0
    BY <1>2
  <2> QED
    BY <1>1, <1>2, <2>1, <2>2, <2>3
<1>5. b * c \in Nat \ {0}
  OBVIOUS
<1>6. a \div (b * c) = p
  BY <1>2, <1>3, <1>4, <1>5, Quotient
<1> QED
  BY <1>6 DEF p, q

(* The low 32 bits of a token, and its bytes.                              *)
LEMMA LowType ==
  ASSUME NEW t \in Token
  PROVE  Low(t) \in Nat /\ Low(t) < Word
<1>1. Word \in Nat \ {0}
  <2>1. Byte * Byte \in Nat \ {0}
    BY ByteAssumption
  <2>2. Byte * Byte * Byte \in Nat \ {0}
    BY <2>1, ByteAssumption
  <2> QED
    BY <2>2, ByteAssumption DEF Word
<1>2. Low(t) \in 0 .. Word - 1
  BY <1>1, DivisionOfInt DEF Low, Token
<1> QED
  BY <1>1, <1>2

LEMMA ByteType ==
  ASSUME NEW t \in Token, NEW k \in 1 .. 4
  PROVE  ByteOf(t, k) \in 0 .. Byte - 1
<1>1. Low(t) \in Nat
  BY LowType
<1>2. Byte \in Nat \ {0} /\ Byte * Byte \in Nat \ {0}
      /\ Byte * Byte * Byte \in Nat \ {0}
  <2>1. Byte \in Nat \ {0} /\ Byte * Byte \in Nat \ {0}
    BY ByteAssumption
  <2> QED
    BY <2>1
<1>3. /\ Low(t) \div Byte \in Nat
      /\ Low(t) \div (Byte * Byte) \in Nat
      /\ Low(t) \div (Byte * Byte * Byte) \in Nat
  BY <1>1, <1>2, Division
<1>4. \A a \in Nat : a % Byte \in 0 .. Byte - 1
  BY <1>2, Division
<1> QED
  BY <1>1, <1>3, <1>4 DEF ByteOf

(* Four bytes make the word again.                                         *)
LEMMA FourBytes ==
  ASSUME NEW t \in Token
  PROVE  ((ByteOf(t, 1) * Byte + ByteOf(t, 2)) * Byte + ByteOf(t, 3)) * Byte
           + ByteOf(t, 4) = Low(t)
<1> DEFINE u == Low(t)
           q1 == u \div Byte
           q2 == q1 \div Byte
           q3 == q2 \div Byte
<1>0. u \in Nat /\ u < Word /\ Byte \in Nat \ {0} /\ Byte * Byte \in Nat \ {0}
  BY LowType, ByteAssumption
<1>1. q1 \in Nat /\ u % Byte \in 0 .. Byte - 1 /\ u = Byte * q1 + (u % Byte)
  BY <1>0, Division
<1>2. q2 \in Nat /\ q1 % Byte \in 0 .. Byte - 1 /\ q1 = Byte * q2 + (q1 % Byte)
  BY <1>0, <1>1, Division
<1>3. q3 \in Nat /\ q2 % Byte \in 0 .. Byte - 1 /\ q2 = Byte * q3 + (q2 % Byte)
  BY <1>0, <1>2, Division
<1>4. u \div (Byte * Byte) = q2
  BY <1>0, DivDiv
<1>5. u \div (Byte * Byte * Byte) = q3
  BY <1>0, <1>4, DivDiv
<1> HIDE DEF u, q1, q2, q3
<1>6. q3 < Byte
  <2> SUFFICES ASSUME q3 >= Byte PROVE FALSE
    BY <1>0, <1>3
  <2>1. q2 >= Byte * q3 /\ q1 >= Byte * q2 /\ u >= Byte * q1
    BY <1>0, <1>1, <1>2, <1>3
  <2>2. q2 >= Byte * Byte
    BY <1>0, <1>3, <2>1
  <2>3. q1 >= Byte * (Byte * Byte)
    BY <1>0, <1>2, <2>1, <2>2
  <2>4. u >= Byte * (Byte * (Byte * Byte))
    BY <1>0, <1>1, <2>1, <2>3
  <2>5. Byte * (Byte * (Byte * Byte)) = Word
    BY <1>0 DEF Word
  <2> QED
    BY <1>0, <2>4, <2>5
<1>7. q3 % Byte = q3
  BY <1>0, <1>3, <1>6
<1>8. /\ ByteOf(t, 1) = q3 /\ ByteOf(t, 2) = q2 % Byte
      /\ ByteOf(t, 3) = q1 % Byte /\ ByteOf(t, 4) = u % Byte
  BY <1>4, <1>5, <1>7 DEF ByteOf, u, q1
<1>9. q3 * Byte + (q2 % Byte) = q2
  BY <1>0, <1>3
<1>10. q2 * Byte + (q1 % Byte) = q1
  BY <1>0, <1>2
<1>11. q1 * Byte + (u % Byte) = u
  BY <1>0, <1>1
<1> QED
  BY <1>8, <1>9, <1>10, <1>11 DEF u

-----------------------------------------------------------------------------
(* Decoding a name gives the low 32 bits of each token: for tokens of more *)
(* than that, the only form in which the name has them.                    *)
THEOREM DecodeEncode ==
  ASSUME NEW tokens \in Seq(Token)
  PROVE  DecodeBlobNameToTokens(EncodeTokensToBlobName(tokens))
           = [i \in 1 .. Len(tokens) |-> Low(tokens[i])]
<1> DEFINE name == EncodeTokensToBlobName(tokens)
<1>1. Len(tokens) \in Nat /\ \A i \in 1 .. Len(tokens) : tokens[i] \in Token
  OBVIOUS
<1>2. name = [i \in 1 .. 4 * Len(tokens) |->
                ByteOf(tokens[((i - 1) \div 4) + 1], ((i - 1) % 4) + 1)]
  BY DEF EncodeTokensToBlobName
<1>3. Len(name) = 4 * Len(tokens)
  BY <1>1, <1>2
<1>4. Len(name) \div 4 = Len(tokens)
  BY <1>1, <1>3
<1>5. ASSUME NEW i \in 1 .. Len(tokens)
      PROVE  /\ name[4 * i - 3] = ByteOf(tokens[i], 1)
             /\ name[4 * i - 2] = ByteOf(tokens[i], 2)
             /\ name[4 * i - 1] = ByteOf(tokens[i], 3)
             /\ name[4 * i] = ByteOf(tokens[i], 4)
  <2>1. \A j \in 1 .. 4 * Len(tokens) :
          name[j] = ByteOf(tokens[((j - 1) \div 4) + 1], ((j - 1) % 4) + 1)
    BY <1>2
  <2> HIDE DEF name
  <2>2. ASSUME NEW k \in 1 .. 4
        PROVE  name[4 * i - 4 + k] = ByteOf(tokens[i], k)
    <3>1. 4 * i - 4 + k \in 1 .. 4 * Len(tokens)
      BY <1>1
    <3>2. ((4 * i - 4 + k) - 1) \div 4 = i - 1 /\ ((4 * i - 4 + k) - 1) % 4 = k - 1
      OBVIOUS
    <3>3. (i - 1) + 1 = i /\ (k - 1) + 1 = k
      OBVIOUS
    <3> QED
      BY <2>1, <3>1, <3>2, <3>3
  <2>3. /\ 4 * i - 4 + 1 = 4 * i - 3 /\ 4 * i - 4 + 2 = 4 * i - 2
        /\ 4 * i - 4 + 3 = 4 * i - 1 /\ 4 * i - 4 + 4 = 4 * i
    OBVIOUS
  <2>4. 1 \in 1 .. 4 /\ 2 \in 1 .. 4 /\ 3 \in 1 .. 4 /\ 4 \in 1 .. 4
    OBVIOUS
  <2> QED
    BY <2>2, <2>3, <2>4
<1>6. ASSUME NEW i \in 1 .. Len(tokens)
      PROVE  ((name[4 * i - 3] * Byte + name[4 * i - 2]) * Byte
                + name[4 * i - 1]) * Byte + name[4 * i] = Low(tokens[i])
  <2>1. tokens[i] \in Token
    BY <1>1
  <2> QED
    BY <1>5, <2>1, FourBytes
<1> HIDE DEF name
<1> QED
  BY <1>4, <1>6, Zenon DEF DecodeBlobNameToTokens, name

(* Two blocks have one name exactly when they have as many tokens and      *)
(* these agree in the low 32 bits.                                         *)
THEOREM SameName ==
  ASSUME NEW s \in Seq(Token), NEW t \in Seq(Token)
  PROVE  EncodeTokensToBlobName(s) = EncodeTokensToBlobName(t)
           <=> /\ Len(s) = Len(t)
               /\ \A i \in 1 .. Len(s) : Low(s[i]) = Low(t[i])
<1>1. ASSUME EncodeTokensToBlobName(s) = EncodeTokensToBlobName(t)
      PROVE  Len(s) = Len(t) /\ \A i \in 1 .. Len(s) : Low(s[i]) = Low(t[i])
  <2> DEFINE ls == [i \in 1 .. Len(s) |-> Low(s[i])]
             lt == [i \in 1 .. Len(t) |-> Low(t[i])]
  <2>1. ls = lt
    BY <1>1, DecodeEncode, Zenon
  <2>2. 1 .. Len(s) = 1 .. Len(t)
    <3>1. DOMAIN ls = 1 .. Len(s) /\ DOMAIN lt = 1 .. Len(t)
      OBVIOUS
    <3> QED
      BY <2>1, <3>1, Zenon
  <2>3. Len(s) = Len(t)
    BY <2>2
  <2>4. ASSUME NEW i \in 1 .. Len(s) PROVE Low(s[i]) = Low(t[i])
    <3>1. ls[i] = Low(s[i]) /\ lt[i] = Low(t[i])
      BY <2>2, Zenon
    <3> QED
      BY <2>1, <3>1, Zenon
  <2> QED
    BY <2>3, <2>4
<1>2. ASSUME Len(s) = Len(t), \A i \in 1 .. Len(s) : Low(s[i]) = Low(t[i])
      PROVE  EncodeTokensToBlobName(s) = EncodeTokensToBlobName(t)
  <2>1. ASSUME NEW i \in 1 .. 4 * Len(s), NEW k
        PROVE  ByteOf(s[((i - 1) \div 4) + 1], k) = ByteOf(t[((i - 1) \div 4) + 1], k)
    <3>1. ((i - 1) \div 4) + 1 \in 1 .. Len(s)
      OBVIOUS
    <3>2. Low(s[((i - 1) \div 4) + 1]) = Low(t[((i - 1) \div 4) + 1])
      BY <1>2, <3>1, Zenon
    <3> QED
      BY <3>2, Zenon DEF ByteOf
  <2> QED
    BY <1>2, <2>1, Zenon DEF EncodeTokensToBlobName
<1> QED
  BY <1>1, <1>2

(* As long as every token fits into 32 bits, the name stands for the block. *)
THEOREM NameIsBlock ==
  ASSUME NEW s \in Seq(0 .. Word - 1), NEW t \in Seq(0 .. Word - 1),
         EncodeTokensToBlobName(s) = EncodeTokensToBlobName(t)
  PROVE  s = t
<1>1. \A u \in 0 .. Word - 1 : u \in Token /\ Low(u) = u
  <2>1. Word \in Nat \ {0}
    <3>1. Byte * Byte \in Nat \ {0}
      BY ByteAssumption
    <3>2. Byte * Byte * Byte \in Nat \ {0}
      BY <3>1, ByteAssumption
    <3> QED
      BY <3>2, ByteAssumption DEF Word
  <2> QED
    BY <2>1 DEF Low, Token
<1> DEFINE Words == 0 .. Word - 1
<1>2. s \in Seq(Token) /\ t \in Seq(Token)
  <2>1. Words \subseteq Token
    BY <1>1
  <2> HIDE DEF Words
  <2>2. \A q \in Seq(Words) : q \in Seq(Token)
    BY <2>1
  <2> QED
    BY <2>2 DEF Words
<1>3. Len(s) = Len(t) /\ \A i \in 1 .. Len(s) : Low(s[i]) = Low(t[i])
  BY <1>2, SameName
<1>4. \A i \in 1 .. Len(s) : s[i] \in 0 .. Word - 1 /\ t[i] \in 0 .. Word - 1
  <2> HIDE DEF Words
  <2>1. \A q \in Seq(Words) : \A i \in 1 .. Len(q) : q[i] \in Words
    OBVIOUS
  <2> QED
    BY <1>3, <2>1 DEF Words
<1>5. \A i \in 1 .. Len(s) : s[i] = t[i]
  BY <1>1, <1>3, <1>4, Zenon
<1> QED
  BY <1>3, <1>5

=============================================================================
