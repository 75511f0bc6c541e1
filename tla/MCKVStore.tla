------------------------------ MODULE MCKVStore ------------------------------
(* KVStore on small instances for TLC.                                     *)
EXTENDS KVStore, TLC

CONSTANTS c1, c2, c3, c4, g1, g2, g3, b1, b2, h1, k1, h2, x, z, s1, l1

OneServer == [c \in Calls |-> s1]

Chunk(name, hash, parent, buffer) ==
  [name |-> name, hash |-> hash, parent |-> parent, buffer |-> buffer]

(* Two clients that write the blocks b1, b2 of one prompt, with different  *)
(* hashes for b1, and others that write b2 after a block with hash x.      *)
TwoHashes == {Chunk(b1, h1, z, <<b1>>), Chunk(b1, k1, z, <<b1>>),
              Chunk(b2, h2, h1, <<b1, b2>>), Chunk(b2, h2, k1, <<b1, b2>>),
              Chunk(b2, h2, x, <<x, b2>>)}

(* The chunks of the prompt b1, b2.                                        *)
OnePrompt == {Chunk(b1, h1, z, <<b1>>), Chunk(b2, h2, h1, <<b1, b2>>)}

Payloads == {<<b1>>, <<b2>>, <<b1, b2>>, <<x, b2>>}

LookupBoth == {<<b1, b2>>}
LookupSecond == {<<b2>>}

Symmetry == Permutations(Calls) \cup Permutations(Guids)
=============================================================================
