------------------------------ MODULE BulkRead ------------------------------
(***************************************************************************)
(* What reading several locations over one stream promises: every location *)
(* is answered at most once, in whatever order, and the call returns when, *)
(* and only when, all are answered or the connection is lost.              *)
(***************************************************************************)
EXTENDS Naturals, Sequences

CONSTANT Items  \* the locations to read

VARIABLES got,      \* the items answered so far, in order of arrival
          lost,     \* the connection is lost
          returned  \* the call has returned

Answered == {got[i] : i \in 1 .. Len(got)}

Init == got = <<>> /\ lost = FALSE /\ returned = FALSE

Answer ==
  /\ ~returned
  /\ \E x \in Items \ Answered : got' = Append(got, x)
  /\ UNCHANGED <<lost, returned>>

Lose ==
  /\ lost' = TRUE
  /\ UNCHANGED <<got, returned>>

Return ==
  /\ ~returned
  /\ Answered = Items \/ lost
  /\ returned' = TRUE
  /\ UNCHANGED <<got, lost>>

Spec == Init /\ [][Answer \/ Lose \/ Return]_<<got, lost, returned>>

=============================================================================
