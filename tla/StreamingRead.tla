---------------------------- MODULE StreamingRead ----------------------------
(***************************************************************************)
(* KVStoreGrpcClient's StreamingReadAsync, a single thread with blocking   *)
(* calls, together with the server's StreamingReadReactor.                 *)
(***************************************************************************)
EXTENDS StreamingReadReactor, FiniteSets

VARIABLES client,  \* "writing", "reading" or "returned"
          sent,    \* requests written so far
          results  \* the responses read, in the order they were read;
                   \* NoResponse fills the slots that got none

clientVars == <<client, sent, results>>
vars == <<streamVars, reactorVars, clientVars>>

(* The type invariant.                                                     *)
TypeOK ==
  /\ StreamTypeOK
  /\ ReactorTypeOK
  /\ client \in {"writing", "reading", "returned"}
  /\ sent \in 0 .. N
  /\ results \in Seq(Responses \cup {NoResponse})

ClientInit == client = "writing" /\ sent = 0 /\ results = <<>>

(* A blocking Write of the next request: it fails when the stream is over, *)
(* and the client stops sending.                                           *)
ClientWrite ==
  /\ client = "writing" /\ sent < N
  /\ \/ /\ ~broken /\ status = "none" /\ Len(toServer) < Window
        /\ toServer' = Append(toServer, sent + 1)
        /\ sent' = sent + 1
        /\ UNCHANGED <<client, halfClosed>>
     \/ /\ broken \/ status # "none"
        /\ halfClosed' = TRUE
        /\ client' = "reading"
        /\ UNCHANGED <<toServer, sent>>
  /\ UNCHANGED <<toClient, status, broken, reactorVars, results>>

ClientWritesDone ==
  /\ client = "writing" /\ sent = N
  /\ halfClosed' = TRUE
  /\ client' = "reading"
  /\ UNCHANGED <<toServer, toClient, status, broken, reactorVars, sent,
                 results>>

ClientRead ==
  /\ client = "reading" /\ toClient # <<>>
  /\ toClient' = Tail(toClient)
  /\ results' = Append(results, Head(toClient))
  /\ UNCHANGED <<toServer, halfClosed, status, broken, reactorVars, client,
                 sent>>

StreamOver ==
  /\ client = "reading" /\ toClient = <<>>
  /\ broken \/ status # "none"
  /\ client' = "returned"
  /\ UNCHANGED <<streamVars, reactorVars, sent>>

(* Mutant: slots without a response are not filled.                        *)
ClientReturnsShort == StreamOver /\ UNCHANGED results

(* Read returns false; slots without a response are filled at the end.     *)
ClientReturns ==
  /\ StreamOver
  /\ results' = results \o [i \in 1 .. (N - Len(results)) |-> NoResponse]

ClientNext == ClientWrite \/ ClientWritesDone \/ ClientRead \/ ClientReturns

Init == StreamInit /\ ReactorInit /\ ClientInit

Next ==
  \/ ClientNext
  \/ ReactorNext /\ UNCHANGED clientVars
  \/ Break /\ UNCHANGED <<reactorVars, clientVars>>

Spec == Init /\ [][Next]_vars

(* gRPC completes every operation, storage answers every read, and the     *)
(* client's thread runs; a connection need not break.                      *)
Fairness ==
  /\ WF_vars(ClientNext)
  /\ WF_vars((OnReadDone \/ StartNextRead \/ OnReadsEnd)
              /\ UNCHANGED clientVars)
  /\ \A r \in Requests : WF_vars(ThreadDone(r) /\ UNCHANGED clientVars)
  /\ WF_vars((OnWriteDone \/ OnWriteFailed) /\ UNCHANGED clientVars)
  /\ \A s \in Statuses : WF_vars(Finish(s) /\ UNCHANGED clientVars)
  /\ WF_vars((CallOnDone \/ OnDone \/ DeleteThis) /\ UNCHANGED clientVars)

FairSpec == Spec /\ Fairness

-----------------------------------------------------------------------------
(* Properties.                                                             *)

(* Client and server together implement a bulk read: unless the connection *)
(* is lost, no answer is lost, duplicated or left in the queue when the    *)
(* stream is finished.                                                     *)
Answers ==
  SubSeq(results, 1, Cardinality({i \in 1 .. Len(results) :
                                    results[i] # NoResponse}))

Bulk == INSTANCE BulkRead WITH
  Items    <- Requests,
  got      <- [i \in 1 .. Len(Answers) |-> Answers[i].request],
  lost     <- broken,
  returned <- client = "returned"

ImplementsBulkRead == Bulk!Spec

(* While the connection holds, whoever sees last that there is nothing     *)
(* left to do finishes the stream, and nobody else does.                   *)
FinishesOnce ==
  ~broken => Len(finishes) + finishing["OK"] + finishing["INTERNAL"] <= 1

(* While the connection holds, there is no StartWrite once somebody has    *)
(* decided to Finish.                                                      *)
NoWriteAfterFinish ==
  [][~broken /\ current' # current =>
       finishes = <<>> /\ finishing = [s \in Statuses |-> 0]]_vars

(* While the connection holds, responses never wait with no write under    *)
(* way: one put in the queue is sent by the OnWriteDone still to come.     *)
QueueDrains == ~broken /\ queue # <<>> => write_in_progress

(* The reactor is not deleted while a thread that will lock its mutex_ is  *)
(* running or a read into its current_request_ is outstanding, also when   *)
(* the connection broke with threads at work.  (Of a write nothing can be  *)
(* said: a thread that gets mutex_ between the call of OnDone and its lock *)
(* starts one, and what gRPC makes of it is not in this code.)             *)
ThreadsEndBeforeDelete ==
  destroyed => /\ \A r \in Requests : thread[r] # "running"
               /\ readOp = "none"

(* The caller gets one result per location, also over a lost connection.   *)
OneResultPerLocation == client = "returned" => Len(results) = N

(* The client's call returns and the server's reactor goes away, whatever  *)
(* the size of the flow-control window (the client sends everything before *)
(* it reads anything) and also when the connection is lost.                *)
StreamEnds == <>(client = "returned" /\ destroyed)

(* "Returns: vector of tuple<found, chunk, server_metrics> in same order   *)
(* as locations".                                                          *)
InOrderOfLocations ==
  \A i \in 1 .. Len(results) : results[i].request \in {i, 0}

=============================================================================
