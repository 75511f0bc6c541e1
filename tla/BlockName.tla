------------------------------- MODULE BlockName -------------------------------
(***************************************************************************)
(* The name of a block's default blob: EncodeTokensToBlobName takes the    *)
(* low 32 bits of every token, four bytes with the highest first, and      *)
(* writes the bytes in Base64Url, which loses nothing and is left out: a   *)
(* name is the sequence of its bytes.  A Token is an int64_t.              *)
(***************************************************************************)
EXTENDS Integers, Sequences

CONSTANT Byte  \* the values of a byte: 256

ASSUME ByteAssumption == Byte \in Nat \ {0, 1}

Token == Int

(* Bytes 1 to 4 of static_cast<uint32_t>(token).                           *)
Word == Byte * Byte * Byte * Byte
Low(token) == token % Word

ByteOf(token, k) ==
  CASE k = 1 -> (Low(token) \div (Byte * Byte * Byte)) % Byte
    [] k = 2 -> (Low(token) \div (Byte * Byte)) % Byte
    [] k = 3 -> (Low(token) \div Byte) % Byte
    [] OTHER -> Low(token) % Byte

EncodeTokensToBlobName(tokens) ==
  [i \in 1 .. 4 * Len(tokens) |->
     ByteOf(tokens[((i - 1) \div 4) + 1], ((i - 1) % 4) + 1)]

DecodeBlobNameToTokens(name) ==
  [i \in 1 .. Len(name) \div 4 |->
     ((name[4 * i - 3] * Byte + name[4 * i - 2]) * Byte + name[4 * i - 1]) * Byte
       + name[4 * i]]

=============================================================================
