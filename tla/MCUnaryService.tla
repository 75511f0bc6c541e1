---------------------------- MODULE MCUnaryService ----------------------------
(* UnaryService on small instances for TLC.                                *)
EXTENDS UnaryService

CONSTANTS c1, c2, c3, r1, k1, k2

Ask(kind, container, valid) ==
  [kind |-> kind, resource |-> r1, container |-> container, valid |-> valid]

Three(x, y, z) == [c \in Calls |-> IF c = c1 THEN x ELSE IF c = c2 THEN y ELSE z]

(* One resource: three calls for one container, three for two containers,  *)
(* and one of the three without a required field.                          *)
OneResource ==
  {Three(Ask("Write", k1, TRUE), Ask("Lookup", k1, TRUE), Ask("Read", k1, TRUE)),
   Three(Ask("Read", k1, TRUE), Ask("Write", k1, TRUE), Ask("Write", k2, TRUE)),
   Three(Ask("Lookup", k1, TRUE), Ask("Read", k2, TRUE), Ask("Write", k2, FALSE))}

=============================================================================
