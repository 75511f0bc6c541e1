--------------------------- MODULE MCStreamingRead ---------------------------
(* StreamingRead on small instances for TLC.                               *)
EXTENDS StreamingRead
=============================================================================
