--------------------------- MODULE MCKVStoreWrite ---------------------------
(* KVStoreWrite on small instances for TLC.                                *)
EXTENDS KVStoreWrite, BlockName, TLC

CONSTANTS c1, c2, c3, c4, g1, g2, g3, g4, p1, p2, p3, p4, h1, s1, s2

(* The name of a block of two tokens.                                     *)
n1 == EncodeTokensToBlobName(<<1, 2>>)
Names == {n1}

(* Chunks of one block of tokens that differ in their parent.              *)
ThreeParents == [name : {n1}, hash : {h1}, parent : {p1, p2, p3}, buffer : {h1}]
FourParents == [name : {n1}, hash : {h1}, parent : {p1, p2, p3, p4}, buffer : {h1}]

(* All calls in one process, or one of them in a process of its own. *)
OneServer == [c \in Calls |-> s1]
TwoServers == [c \in Calls |-> IF c = c1 THEN s1 ELSE s2]

Symmetry == Permutations(Calls) \cup Permutations(Guids)
=============================================================================
