--------------------------- MODULE MCServerProcess ---------------------------
(* ServerProcess on small instances for TLC.                               *)
EXTENDS ServerProcess, TLC

CONSTANTS c1, c2, c3, k1, k2, a1, a2, lo

(* Two calls for one store and one for another, whose Initialize may come  *)
(* while the others open their connections; or one store for all.          *)
TwoStores == (c1 :> k1) @@ (c2 :> k1) @@ (c3 :> k2)
OneStore == [c \in Conns |-> k1]

If4(address) == [family |-> "AF_INET", address |-> address]
If6 == [family |-> "AF_INET6", address |-> lo]

(* A machine with two interfaces, and the same after one went down.        *)
TwoMachines == {<<If4(lo), If4(a1), If6, If4(a2)>>, <<If4(lo), If4(a2)>>}
OneMachine == {<<If4(lo), If4(a1), If6, If4(a2)>>}

Entry(key, value) == [key |-> key, value |-> value]

Complete == <<Entry("currentLocation", "east"), Entry("configurationStore", "s"),
              Entry("configurationContainer", "c")>>

(* Files: none, a complete one, one that lacks a field, one with an empty  *)
(* suffix, and one with a number for the store.                            *)
FiveFiles ==
  {<<>>, Complete, <<Complete[1], Complete[3]>>,
   Append(Complete, Entry("domainSuffix", "")),
   <<Complete[1], Entry("configurationStore", NotString), Complete[3]>>}

(* Environments with none, some or all of the required fields.             *)
ThreeEnvs ==
  {[f \in Fields |-> IF f \in set THEN "env" ELSE ""] :
     set \in {{}, {"configurationStore", "configurationContainer"}, Required}}
=============================================================================
