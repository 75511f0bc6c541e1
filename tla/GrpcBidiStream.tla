--------------------------- MODULE GrpcBidiStream ---------------------------
(***************************************************************************)
(* One bidirectional gRPC stream, as both ends of StreamingRead use it: a  *)
(* FIFO of messages each way with a bounded window of messages under way,  *)
(* the client's half-close, and the status the server ends the stream      *)
(* with.  Requests are numbered in the order of the client's locations; a  *)
(* response is the number of the request it answers and its "found" field. *)
(***************************************************************************)
EXTENDS Naturals, Sequences

CONSTANTS N,        \* number of locations the client reads
          Window,   \* messages under way in one direction (flow control)
          CanBreak  \* TRUE: the connection may be lost

ASSUME StreamAssumptions ==
  N \in Nat /\ Window \in Nat \ {0} /\ CanBreak \in BOOLEAN

Requests == 1 .. N
Responses == [request : Requests, found : BOOLEAN]
Statuses == {"OK", "INTERNAL"}

VARIABLES toServer,    \* requests under way
          halfClosed,  \* the client called WritesDone
          toClient,    \* responses under way
          status,      \* of the first Finish, or "none"
          broken       \* the connection is lost

streamVars == <<toServer, halfClosed, toClient, status, broken>>

StreamTypeOK ==
  /\ toServer \in Seq(Requests) /\ Len(toServer) <= Window
  /\ halfClosed \in BOOLEAN
  /\ toClient \in Seq(Responses) /\ Len(toClient) <= Window
  /\ status \in Statuses \cup {"none"}
  /\ broken \in BOOLEAN

StreamInit ==
  /\ toServer = <<>> /\ toClient = <<>>
  /\ halfClosed = FALSE /\ status = "none" /\ broken = FALSE

(* The connection is lost with everything in it, except perhaps responses  *)
(* that the client's side already has.                                     *)
Break ==
  /\ CanBreak /\ ~broken
  /\ broken' = TRUE
  /\ toServer' = <<>>
  /\ toClient' \in {toClient, <<>>}
  /\ UNCHANGED <<halfClosed, status>>

=============================================================================
