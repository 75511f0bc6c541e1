----------------------------- MODULE MCPlayground -----------------------------
(* Playground on small instances for TLC.                                  *)
EXTENDS Playground

(* A first prompt of two blocks and a token, then one that fills another   *)
(* block, which every run writes under a parent of its own.                *)
TwoPrompts == <<5, 2>>
=============================================================================
