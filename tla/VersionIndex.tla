---------------------------- MODULE VersionIndex ----------------------------
(***************************************************************************)
(* What the multi-version blobs promise, with no storage protocol in       *)
(* sight: under each block name, one first version that is never replaced, *)
(* and a list of additional versions that only ever changes by one version *)
(* being published at its end, the oldest leaving when the list is full.   *)
(* No published version is lost any other way: in particular two           *)
(* publications at the same time never overwrite each other.               *)
(***************************************************************************)
EXTENDS Naturals, Sequences

CONSTANTS Names,        \* block names
          Firsts,       \* what a first version is
          Additional,   \* what an additional version is
          MaxVersions,  \* capacity of the list
          NoEntry       \* a name nothing was written under

VARIABLE index

Entries == [first : Firsts, additional : Seq(Additional)]

Published(s, v) ==
  IF Len(s) < MaxVersions THEN Append(s, v) ELSE Append(Tail(s), v)

Init == index = [n \in Names |-> NoEntry]

Create(n) ==
  /\ index[n] = NoEntry
  /\ \E f \in Firsts :
       index' = [index EXCEPT ![n] = [first |-> f, additional |-> <<>>]]

Publish(n) ==
  /\ index[n] # NoEntry
  /\ \E v \in Additional :
       index' = [index EXCEPT ![n] =
                   [first      |-> index[n].first,
                    additional |-> Published(index[n].additional, v)]]

Next == \E n \in Names : Create(n) \/ Publish(n)

Spec == Init /\ [][Next]_index

=============================================================================
