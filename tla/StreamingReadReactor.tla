------------------------ MODULE StreamingReadReactor ------------------------
(***************************************************************************)
(* The server's reactor for one StreamingRead call: the callbacks that     *)
(* gRPC runs on its own threads, and one detached thread per request.      *)
(* What a callback or thread does under mutex_ is one step; a Finish that  *)
(* the code calls after unlocking is another.                              *)
(***************************************************************************)
EXTENDS GrpcBidiStream

VARIABLES readOp,            \* "armed": StartRead is outstanding;
                             \* "processing": OnReadDone(true) before its
                             \* StartRead; "none": no further read
          queue,             \* response_queue_
          current,           \* current_response_, or none
          write_in_progress, \* also: StartWrite is outstanding
          pending_writes,
          active_threads,
          client_done,
          onDoneCalled,      \* OnDone is called, and waits for mutex_
          shutdown,
          thread,            \* [Requests -> state of the request's thread]
          finishing,         \* [Statuses -> callers about to call Finish]
          finishes,          \* statuses of the calls of Finish so far
          destroyed          \* "delete this" was reached

responseVars == <<queue, current, write_in_progress, pending_writes>>
threadVars == <<active_threads, thread>>
endVars == <<finishes, onDoneCalled, shutdown, destroyed>>
reactorVars == <<readOp, client_done, finishing, responseVars, threadVars,
                 endVars>>

NoResponse == [request |-> 0, found |-> FALSE]

ReactorTypeOK ==
  /\ readOp \in {"armed", "processing", "none"}
  /\ queue \in Seq(Responses)
  /\ current \in Responses \cup {NoResponse}
  /\ write_in_progress \in BOOLEAN
  /\ pending_writes \in Nat
  /\ active_threads \in Nat
  /\ client_done \in BOOLEAN
  /\ onDoneCalled \in BOOLEAN
  /\ shutdown \in BOOLEAN
  /\ thread \in [Requests -> {"none", "running", "ended"}]
  /\ finishing \in [Statuses -> Nat]
  /\ finishes \in Seq(Statuses)
  /\ destroyed \in BOOLEAN

ReactorInit ==
  /\ readOp = "armed"
  /\ queue = <<>> /\ current = NoResponse
  /\ write_in_progress = FALSE /\ pending_writes = 0
  /\ active_threads = 0
  /\ client_done = FALSE /\ onDoneCalled = FALSE /\ shutdown = FALSE
  /\ thread = [r \in Requests |-> "none"]
  /\ finishing = [s \in Statuses |-> 0]
  /\ finishes = <<>>
  /\ destroyed = FALSE

-----------------------------------------------------------------------------
(* TrySendNextResponse, with the queue holding q and, before it, the write *)
(* flag and counter having the given values.                               *)
SendsNext(q, pending) ==
  /\ queue' = Tail(q)
  /\ current' = Head(q)
  /\ write_in_progress' = TRUE
  /\ pending_writes' = pending

SendsNothing(q, inProgress, pending) ==
  /\ queue' = q
  /\ write_in_progress' = inProgress
  /\ pending_writes' = pending
  /\ UNCHANGED current

(* Mutant: the write is not counted.                                       *)
TrySendUncounted(q, inProgress, pending) ==
  IF inProgress \/ q = <<>> THEN SendsNothing(q, inProgress, pending)
                            ELSE SendsNext(q, pending)

TrySendNextResponse(q, inProgress, pending) ==
  IF inProgress \/ q = <<>> THEN SendsNothing(q, inProgress, pending)
                            ELSE SendsNext(q, pending + 1)

CallsFinish(s) == finishing' = [finishing EXCEPT ![s] = @ + 1]

(* Mutants: a write, or a thread, that is still to come is forgotten.      *)
NoThreadPending == client_done /\ active_threads' = 0 /\ queue' = <<>>
NoWritePending == client_done /\ pending_writes' = 0 /\ queue' = <<>>

(* "client is done and no more pending work", in the state being reached.  *)
NothingPending ==
  /\ client_done /\ pending_writes' = 0 /\ active_threads' = 0
  /\ queue' = <<>>

FinishWhenNothingPending ==
  IF NothingPending THEN CallsFinish("OK") ELSE UNCHANGED finishing

(* OnReadDone(true) with ProcessRequest: the request is rejected at once   *)
(* (a missing field, or no store for its account) or gets a thread.        *)
OnReadDone ==
  /\ readOp = "armed" /\ ~broken /\ toServer # <<>>
  /\ readOp' = "processing"
  /\ toServer' = Tail(toServer)
  /\ LET r == Head(toServer)
     IN \/ /\ TrySendNextResponse(
                Append(queue, [request |-> r, found |-> FALSE]),
                write_in_progress, pending_writes)
           /\ UNCHANGED threadVars
        \/ /\ active_threads' = active_threads + 1
           /\ thread' = [thread EXCEPT ![r] = "running"]
           /\ UNCHANGED responseVars
  /\ UNCHANGED <<halfClosed, toClient, status, broken, client_done, finishing,
                 endVars>>

StartNextRead ==
  /\ readOp = "processing"
  /\ readOp' = "armed"
  /\ UNCHANGED <<streamVars, client_done, finishing, responseVars, threadVars,
                 endVars>>

(* OnReadDone(false): no request is left, or the stream is over.           *)
OnReadsEnd ==
  /\ readOp = "armed"
  /\ (halfClosed /\ toServer = <<>>) \/ broken \/ finishes # <<>>
  /\ readOp' = "none"
  /\ client_done' = TRUE
  /\ IF pending_writes = 0 /\ active_threads = 0
     THEN CallsFinish("OK") ELSE UNCHANGED finishing
  /\ UNCHANGED <<streamVars, responseVars, threadVars, endVars>>

(* The thread of request r has its answer from ReadAsync.                  *)
ThreadDone(r) ==
  /\ thread[r] = "running"
  /\ thread' = [thread EXCEPT ![r] = "ended"]
  /\ active_threads' = active_threads - 1
  /\ \/ shutdown /\ UNCHANGED <<responseVars, finishing>>
     \/ /\ ~shutdown
        /\ \E found \in BOOLEAN :
             TrySendNextResponse(
               Append(queue, [request |-> r, found |-> found]),
               write_in_progress, pending_writes)
        /\ FinishWhenNothingPending
  /\ UNCHANGED <<streamVars, readOp, client_done, endVars>>

Sent ==
  /\ write_in_progress /\ ~broken /\ finishes = <<>>
  /\ Len(toClient) < Window
  /\ toClient' = Append(toClient, current)
  /\ UNCHANGED <<toServer, halfClosed, status, broken, readOp, client_done,
                 threadVars, endVars>>

(* Mutants: the next response is not sent; the stream is not finished.     *)
OnWriteDoneSendsNoMore ==
  /\ Sent
  /\ SendsNothing(queue, FALSE, pending_writes - 1)
  /\ FinishWhenNothingPending
OnWriteDoneNeverFinishes ==
  /\ Sent
  /\ TrySendNextResponse(queue, FALSE, pending_writes - 1)
  /\ UNCHANGED finishing

(* OnWriteDone(true): the response has gone into the stream.               *)
OnWriteDone ==
  /\ Sent
  /\ TrySendNextResponse(queue, FALSE, pending_writes - 1)
  /\ FinishWhenNothingPending

(* OnWriteDone(false).                                                     *)
OnWriteFailed ==
  /\ write_in_progress /\ ~destroyed
  /\ broken \/ finishes # <<>>
  /\ write_in_progress' = FALSE
  /\ pending_writes' = pending_writes - 1
  /\ CallsFinish("INTERNAL")
  /\ UNCHANGED <<streamVars, readOp, client_done, queue, current, threadVars,
                 endVars>>

Finish(s) ==
  /\ finishing[s] > 0 /\ ~destroyed
  /\ finishing' = [finishing EXCEPT ![s] = @ - 1]
  /\ finishes' = Append(finishes, s)
  /\ status' = IF status = "none" THEN s ELSE status
  /\ UNCHANGED <<toServer, halfClosed, toClient, broken, readOp, client_done,
                 responseVars, threadVars, onDoneCalled, shutdown, destroyed>>

(* gRPC calls OnDone once the stream is finished, no operation is          *)
(* outstanding and no other callback is running.  A thread may still get   *)
(* mutex_ first.                                                           *)
CallOnDone ==
  /\ finishes # <<>> /\ finishing = [s \in Statuses |-> 0]
  /\ readOp = "none" /\ ~write_in_progress /\ ~onDoneCalled
  /\ onDoneCalled' = TRUE
  /\ UNCHANGED <<streamVars, readOp, client_done, finishing, responseVars,
                 threadVars, finishes, shutdown, destroyed>>

OnDone ==
  /\ onDoneCalled /\ ~shutdown
  /\ shutdown' = TRUE
  /\ UNCHANGED <<streamVars, readOp, client_done, finishing, responseVars,
                 threadVars, finishes, onDoneCalled, destroyed>>

Deleted ==
  /\ shutdown /\ ~destroyed
  /\ destroyed' = TRUE
  /\ UNCHANGED <<streamVars, readOp, client_done, finishing, responseVars,
                 threadVars, finishes, onDoneCalled, shutdown>>

(* Mutant: OnDone does not wait for the threads.                           *)
DeleteAtOnce == Deleted

DeleteThis == active_threads = 0 /\ Deleted

ReactorNext ==
  \/ OnReadDone \/ StartNextRead \/ OnReadsEnd
  \/ \E r \in Requests : ThreadDone(r)
  \/ OnWriteDone \/ OnWriteFailed
  \/ \E s \in Statuses : Finish(s)
  \/ CallOnDone \/ OnDone \/ DeleteThis

=============================================================================
