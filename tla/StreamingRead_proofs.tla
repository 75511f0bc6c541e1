------------------------ MODULE StreamingRead_proofs ------------------------
(***************************************************************************)
(* Theorems about StreamingRead, for any number of locations, any window   *)
(* of flow control, and with or without a connection that is lost: what    *)
(* the reactor's counters count and the order of its end, and then that no *)
(* answer is lost, duplicated or forgotten as long as the connection holds,*)
(* so that StreamingRead implements BulkRead.                              *)
(***************************************************************************)
EXTENDS StreamingRead, FiniteSetTheorems, SequenceTheorems, TLAPS

Running == {r \in Requests : thread[r] = "running"}

(* The counters count what they are named for.                             *)
CountersInv ==
  /\ pending_writes = IF write_in_progress THEN 1 ELSE 0
  /\ write_in_progress => current \in Responses
  /\ active_threads = Cardinality(Running)

(* Requests reach the reactor once and in order.                           *)
RequestsInv ==
  /\ Len(toServer) <= sent
  /\ \A i \in 1 .. Len(toServer) : toServer[i] = sent - Len(toServer) + i
  /\ \A r \in Requests : r > sent - Len(toServer) => thread[r] = "none"

(* The reactor goes through the stages of its end in order, and takes no   *)
(* request after the first.                                                *)
EndInv ==
  /\ client_done <=> readOp = "none"
  /\ onDoneCalled => readOp = "none" /\ finishes # <<>>
  /\ shutdown => onDoneCalled
  /\ destroyed => shutdown /\ active_threads = 0

Finishers == Len(finishes) + finishing["OK"] + finishing["INTERNAL"]

(* While the connection holds, who finishes has nothing left to do, and    *)
(* nobody queues a response without seeing to it that it is sent.          *)
FinishInv ==
  ~broken =>
    /\ Finishers <= 1
    /\ Finishers = 1 => /\ client_done
                        /\ pending_writes = 0 /\ active_threads = 0
                        /\ queue = <<>>
    /\ queue # <<>> => write_in_progress

(* The client half-closes when it has sent everything, as long as the      *)
(* connection holds, and the reactor sees the end after that.              *)
ClientInv ==
  /\ client = "writing" => ~halfClosed
  /\ halfClosed /\ ~broken => sent = N
  /\ client_done /\ ~broken => halfClosed /\ toServer = <<>>
  /\ status # "none" => finishes # <<>>
  /\ client # "returned" => results \in Seq(Responses)

SafetyInv ==
  /\ TypeOK
  /\ CountersInv /\ RequestsInv /\ EndInv /\ FinishInv /\ ClientInv

-----------------------------------------------------------------------------
(* Lemmas.                                                                 *)

(* The slots that got no response, as ClientReturns appends them.          *)
LEMMA FillType ==
  ASSUME NEW k \in Int
  PROVE  LET fill == [i \in 1 .. k |-> NoResponse]
         IN  /\ fill \in Seq({NoResponse})
             /\ Len(fill) = IF k > 0 THEN k ELSE 0
  <1> DEFINE fill == [i \in 1 .. k |-> NoResponse]
  <1>1. CASE k > 0
    <2>1. k \in Nat /\ fill \in [1 .. k -> {NoResponse}]
      BY <1>1
    <2>2. fill \in Seq({NoResponse})
      BY <2>1, SeqDef
    <2>3. Len(fill) = k
      BY <2>1, <2>2, LenProperties
    <2> QED
      BY <1>1, <2>2, <2>3
  <1>2. CASE ~(k > 0)
    <2>1. 1 .. k = {}
      BY <1>2
    <2>2. fill = <<>>
      BY <2>1
    <2> QED
      BY <1>2, <2>2, EmptySeq
  <1> QED
    BY <1>1, <1>2

LEMMA RunningIsFinite == IsFiniteSet(Running) /\ Running \subseteq Requests
  <1>1. IsFiniteSet(Requests)
    BY StreamAssumptions, FS_Interval DEF Requests
  <1>2. Running \in SUBSET Requests
    BY DEF Running
  <1> QED
    BY <1>1, <1>2, FS_Subset

(* What TrySendNextResponse does to the queue, the flag and the counter.   *)
LEMMA TrySendEffect ==
  ASSUME NEW q \in Seq(Responses), NEW inProgress \in BOOLEAN, NEW pending,
         pending = IF inProgress THEN 1 ELSE 0,
         current \in Responses \cup {NoResponse},
         inProgress => current \in Responses,
         TrySendNextResponse(q, inProgress, pending)
  PROVE  /\ queue' \in Seq(Responses)
         /\ current' \in Responses \cup {NoResponse}
         /\ write_in_progress' \in BOOLEAN
         /\ pending_writes' = IF write_in_progress' THEN 1 ELSE 0
         /\ pending_writes' \in Nat
         /\ write_in_progress' => current' \in Responses
         /\ queue' # <<>> => write_in_progress'
         /\ \/ /\ inProgress \/ q = <<>>
               /\ queue' = q /\ write_in_progress' = inProgress
               /\ current' = current
            \/ /\ ~inProgress /\ q # <<>>
               /\ queue' = Tail(q) /\ write_in_progress' = TRUE
               /\ current' = Head(q)
  <1>1. CASE inProgress \/ q = <<>>
    BY <1>1 DEF TrySendNextResponse, SendsNothing
  <1>2. CASE ~inProgress /\ q # <<>>
    <2>1. Head(q) \in Responses /\ Tail(q) \in Seq(Responses)
      BY <1>2, HeadTailProperties
    <2>2. SendsNext(q, 1)
      BY <1>2 DEF TrySendNextResponse
    <2>3. /\ queue' = Tail(q) /\ current' = Head(q)
          /\ write_in_progress' = TRUE /\ pending_writes' = 1
      BY <2>2 DEF SendsNext
    <2> QED
      BY <1>2, <2>1, <2>3
  <1> QED
    BY <1>1, <1>2

LEMMA FinishersType ==
  ASSUME TypeOK
  PROVE  /\ Finishers \in Nat
         /\ finishing["OK"] \in Nat /\ finishing["INTERNAL"] \in Nat
         /\ Len(finishes) \in Nat
         /\ finishes # <<>> => Finishers >= 1
         /\ Finishers = 0 => finishes = <<>> /\ finishing = [s \in Statuses |-> 0]
  <1>1. /\ finishing \in [{"OK", "INTERNAL"} -> Nat]
        /\ finishes \in Seq(Statuses)
    BY DEF TypeOK, ReactorTypeOK, Statuses
  <1>2. Len(finishes) \in Nat /\ (finishes # <<>> => Len(finishes) # 0)
    BY <1>1, EmptySeq, LenProperties
  <1> QED
    BY <1>1, <1>2 DEF Finishers, Statuses

LEMMA CallsFinishEffect ==
  ASSUME TypeOK, NEW s \in Statuses, CallsFinish(s), finishes' = finishes
  PROVE  finishing' \in [Statuses -> Nat] /\ Finishers' = Finishers + 1
  <1>1. /\ finishing \in [{"OK", "INTERNAL"} -> Nat]
        /\ finishing' = [finishing EXCEPT ![s] = finishing[s] + 1]
    BY DEF TypeOK, ReactorTypeOK, Statuses, CallsFinish
  <1>2. finishing' \in [{"OK", "INTERNAL"} -> Nat]
    BY <1>1 DEF Statuses
  <1>3. CASE s = "OK"
    BY SMTT(20), <1>1, <1>2, <1>3, FinishersType DEF Finishers, Statuses
  <1>4. CASE s = "INTERNAL"
    BY <1>1, <1>2, <1>4, FinishersType DEF Finishers, Statuses
  <1> QED
    BY <1>3, <1>4 DEF Statuses

(* After the test that nothing is pending, with or without the Finish.     *)
LEMMA FinishWhenNothingPendingEffect ==
  ASSUME TypeOK, FinishWhenNothingPending, UNCHANGED <<finishes, client_done>>
  PROVE  /\ finishing' \in [Statuses -> Nat]
         /\ \/ Finishers' = Finishers /\ finishing' = finishing
            \/ /\ Finishers' = Finishers + 1
               /\ client_done' /\ pending_writes' = 0 /\ active_threads' = 0
               /\ queue' = <<>>
  BY CallsFinishEffect
  DEF FinishWhenNothingPending, NothingPending, TypeOK, ReactorTypeOK,
      Finishers, Statuses

-----------------------------------------------------------------------------
(* The steps that reach the reactor from the stream.                       *)

(* As long as the connection holds and somebody may still read, write or   *)
(* answer, nobody has finished.                                            *)
LEMMA NotFinished ==
  ASSUME SafetyInv, ~broken,
         ~client_done \/ write_in_progress \/ active_threads # 0
  PROVE  Finishers = 0 /\ finishes = <<>> /\ finishing = [s \in Statuses |-> 0]
  BY FinishersType DEF SafetyInv, FinishInv, CountersInv

LEMMA FirstRequest ==
  ASSUME SafetyInv, toServer # <<>>
  PROVE  /\ Head(toServer) \in Requests
         /\ Head(toServer) = sent - Len(toServer) + 1
         /\ thread[Head(toServer)] = "none"
         /\ Tail(toServer) \in Seq(Requests)
         /\ Len(Tail(toServer)) = Len(toServer) - 1
         /\ Len(toServer) \in Nat \ {0}
         /\ \A i \in 1 .. Len(Tail(toServer)) : Tail(toServer)[i] = toServer[i + 1]
  <1>1. toServer \in Seq(Requests)
    BY DEF SafetyInv, TypeOK, StreamTypeOK
  <1>2. Len(toServer) \in Nat \ {0} /\ Head(toServer) = toServer[1]
    BY <1>1, EmptySeq
  <1>3. /\ Head(toServer) \in Requests /\ Tail(toServer) \in Seq(Requests)
        /\ Len(Tail(toServer)) = Len(toServer) - 1
        /\ \A i \in 1 .. Len(Tail(toServer)) : Tail(toServer)[i] = toServer[i + 1]
    BY <1>1, HeadTailProperties
  <1>4. Head(toServer) = sent - Len(toServer) + 1
    BY <1>2 DEF SafetyInv, RequestsInv
  <1>5. sent \in Nat
    BY StreamAssumptions DEF SafetyInv, TypeOK
  <1>6. thread[Head(toServer)] = "none"
    BY <1>2, <1>3, <1>4, <1>5 DEF SafetyInv, RequestsInv, Requests
  <1> QED
    BY <1>2, <1>3, <1>4, <1>6

LEMMA OnReadDoneOK ==
  ASSUME SafetyInv, OnReadDone, UNCHANGED clientVars
  PROVE  SafetyInv'
  <1> DEFINE r == Head(toServer)
  <1>1. /\ readOp = "armed" /\ ~broken /\ toServer # <<>>
        /\ readOp' = "processing" /\ toServer' = Tail(toServer)
        /\ UNCHANGED <<halfClosed, toClient, status, broken, client_done,
                       finishing, finishes, onDoneCalled, shutdown, destroyed,
                       client, sent, results>>
    BY DEF OnReadDone, endVars, clientVars
  <1>2. ~client_done /\ Finishers = 0 /\ Finishers' = 0
    BY <1>1, NotFinished DEF SafetyInv, EndInv, Finishers
  <1>3. /\ r \in Requests /\ r = sent - Len(toServer) + 1 /\ thread[r] = "none"
        /\ toServer' \in Seq(Requests) /\ Len(toServer') = Len(toServer) - 1
        /\ \A i \in 1 .. Len(toServer') : toServer'[i] = toServer[i + 1]
        /\ Len(toServer) \in Nat \ {0} /\ sent \in Nat
    BY <1>1, FirstRequest, StreamAssumptions DEF SafetyInv, TypeOK
  <1>4. \/ /\ UNCHANGED <<active_threads, thread>>
           /\ TrySendNextResponse(Append(queue, [request |-> r, found |-> FALSE]),
                                  write_in_progress, pending_writes)
        \/ /\ active_threads' = active_threads + 1
           /\ thread' = [thread EXCEPT ![r] = "running"]
           /\ UNCHANGED <<queue, current, write_in_progress, pending_writes>>
    BY DEF OnReadDone, threadVars, responseVars
  <1>5. /\ queue' \in Seq(Responses)
        /\ current' \in Responses \cup {NoResponse}
        /\ write_in_progress' \in BOOLEAN
        /\ pending_writes' = (IF write_in_progress' THEN 1 ELSE 0)
        /\ pending_writes' \in Nat
        /\ write_in_progress' => current' \in Responses
        /\ queue' # <<>> => write_in_progress'
    <2>1. CASE TrySendNextResponse(Append(queue, [request |-> r, found |-> FALSE]),
                                   write_in_progress, pending_writes)
      <3>1. Append(queue, [request |-> r, found |-> FALSE]) \in Seq(Responses)
        BY <1>3 DEF SafetyInv, TypeOK, ReactorTypeOK, Responses
      <3> QED
        BY <2>1, <3>1, TrySendEffect
        DEF SafetyInv, TypeOK, ReactorTypeOK, CountersInv
    <2>2. CASE UNCHANGED <<queue, current, write_in_progress, pending_writes>>
      BY <1>1, <2>2 DEF SafetyInv, TypeOK, ReactorTypeOK, CountersInv, FinishInv
    <2> QED
      BY <1>4, <2>1, <2>2
  <1>6. /\ thread' \in [Requests -> {"none", "running", "ended"}]
        /\ active_threads' \in Nat
        /\ active_threads' = Cardinality(Running')
        /\ \A q \in Requests \ {r} : thread'[q] = thread[q]
    <2>1. CASE UNCHANGED <<active_threads, thread>>
      BY <2>1 DEF SafetyInv, TypeOK, ReactorTypeOK, CountersInv, Running
    <2>2. CASE /\ active_threads' = active_threads + 1
               /\ thread' = [thread EXCEPT ![r] = "running"]
      <3>1. Running' = Running \cup {r} /\ r \notin Running
        BY <1>3, <2>2 DEF Running, SafetyInv, TypeOK, ReactorTypeOK
      <3>2. Cardinality(Running') = Cardinality(Running) + 1
        BY <3>1, RunningIsFinite, FS_AddElement
      <3> QED
        BY <1>3, <2>2, <3>2 DEF SafetyInv, TypeOK, ReactorTypeOK, CountersInv
    <2> QED
      BY <1>4, <2>1, <2>2
  <1>7. TypeOK'
    <2>1. StreamTypeOK'
      BY <1>1, <1>3, StreamAssumptions DEF SafetyInv, TypeOK, StreamTypeOK
    <2>2. ReactorTypeOK'
      BY <1>1, <1>5, <1>6 DEF SafetyInv, TypeOK, ReactorTypeOK
    <2> QED
      BY <1>1, <2>1, <2>2 DEF SafetyInv, TypeOK
  <1>8. RequestsInv'
    <2> DEFINE n == Len(toServer)
    <2>1. /\ sent' = sent /\ Len(toServer') = n - 1 /\ n \in Nat \ {0}
          /\ n <= sent /\ sent \in Nat
      BY <1>1, <1>3 DEF SafetyInv, RequestsInv
    <2>2. \A i \in 1 .. n - 1 : toServer'[i] = toServer[i + 1]
      BY <1>3
    <2>3. \A i \in 1 .. n : toServer[i] = sent - n + i
      BY DEF SafetyInv, RequestsInv
    <2>4. \A q \in Requests : q > sent - n => thread[q] = "none"
      BY DEF SafetyInv, RequestsInv
    <2>5. r = sent - n + 1
      BY <1>3
    <2> HIDE DEF n, r
    <2>6. \A i \in 1 .. n - 1 : toServer'[i] = sent - (n - 1) + i
      BY <2>1, <2>2, <2>3
    <2>7. \A q \in Requests : q > sent - (n - 1) => q # r /\ thread[q] = "none"
      BY <2>1, <2>4, <2>5 DEF Requests
    <2>8. \A q \in Requests : q > sent - (n - 1) => thread'[q] = "none"
      BY <2>7, <1>6
    <2> QED
      BY <2>1, <2>6, <2>8 DEF RequestsInv
  <1>9. CountersInv' /\ FinishInv'
    BY <1>2, <1>5, <1>6 DEF CountersInv, FinishInv
  <1>10. EndInv'
    BY <1>1, <1>2 DEF SafetyInv, EndInv
  <1>11. ClientInv'
    BY <1>1, <1>2 DEF SafetyInv, ClientInv
  <1> QED
    BY <1>7, <1>8, <1>9, <1>10, <1>11 DEF SafetyInv

LEMMA StartNextReadOK ==
  ASSUME SafetyInv, StartNextRead, UNCHANGED clientVars
  PROVE  SafetyInv'
  <1>1. /\ readOp = "processing" /\ readOp' = "armed"
        /\ UNCHANGED <<streamVars, client_done, finishing, responseVars,
                       threadVars, endVars, clientVars>>
    BY DEF StartNextRead
  <1> USE DEF streamVars, responseVars, threadVars, endVars, clientVars
  <1>2. TypeOK'
    BY <1>1 DEF SafetyInv, TypeOK, StreamTypeOK, ReactorTypeOK
  <1>3. CountersInv' /\ RequestsInv' /\ EndInv'
    BY <1>1 DEF SafetyInv, CountersInv, Running, RequestsInv, EndInv
  <1>4. FinishInv' /\ ClientInv'
    BY <1>1 DEF SafetyInv, FinishInv, Finishers, ClientInv
  <1> QED
    BY <1>2, <1>3, <1>4 DEF SafetyInv

LEMMA OnReadsEndOK ==
  ASSUME SafetyInv, OnReadsEnd, UNCHANGED clientVars
  PROVE  SafetyInv'
  <1>1. /\ readOp = "armed" /\ readOp' = "none" /\ client_done' = TRUE
        /\ (halfClosed /\ toServer = <<>>) \/ broken \/ finishes # <<>>
        /\ UNCHANGED <<streamVars, responseVars, threadVars, endVars, clientVars>>
    BY DEF OnReadsEnd
  <1> USE DEF streamVars, responseVars, threadVars, endVars, clientVars
  <1>2. ~client_done
    BY <1>1 DEF SafetyInv, EndInv
  <1>3. /\ finishing' \in [Statuses -> Nat]
        /\ \/ finishing' = finishing /\ Finishers' = Finishers
           \/ /\ pending_writes = 0 /\ active_threads = 0
              /\ Finishers' = Finishers + 1
    BY <1>1, CallsFinishEffect
    DEF OnReadsEnd, SafetyInv, TypeOK, ReactorTypeOK, Statuses, Finishers
  <1>4. TypeOK'
    BY <1>1, <1>3 DEF SafetyInv, TypeOK, StreamTypeOK, ReactorTypeOK
  <1>5. CountersInv' /\ RequestsInv' /\ EndInv'
    BY <1>1, <1>2 DEF SafetyInv, CountersInv, Running, RequestsInv, EndInv
  <1>6. FinishInv'
    BY <1>1, <1>2, <1>3, NotFinished DEF SafetyInv, FinishInv, CountersInv
  <1>7. ~broken => finishes = <<>>
    BY <1>2, NotFinished
  <1>8. ClientInv'
    BY <1>1, <1>7 DEF SafetyInv, ClientInv
  <1> QED
    BY <1>4, <1>5, <1>6, <1>8 DEF SafetyInv

-----------------------------------------------------------------------------
(* The steps of the threads and of the writes.                             *)

LEMMA ThreadDoneOK ==
  ASSUME SafetyInv, NEW r \in Requests, ThreadDone(r), UNCHANGED clientVars
  PROVE  SafetyInv'
  <1>1. /\ thread[r] = "running" /\ thread' = [thread EXCEPT ![r] = "ended"]
        /\ active_threads' = active_threads - 1
        /\ UNCHANGED <<streamVars, readOp, client_done, endVars, clientVars>>
    BY DEF ThreadDone
  <1> USE DEF streamVars, endVars, clientVars
  <1>2. /\ thread' \in [Requests -> {"none", "running", "ended"}]
        /\ active_threads # 0 /\ active_threads' \in Nat
        /\ active_threads' = Cardinality(Running')
    <2>1. Running' = Running \ {r} /\ r \in Running
      BY <1>1 DEF Running, SafetyInv, TypeOK, ReactorTypeOK
    <2>2. /\ Cardinality(Running') = Cardinality(Running) - 1
          /\ Cardinality(Running') \in Nat /\ Cardinality(Running) \in Nat
      BY <2>1, RunningIsFinite, FS_RemoveElement, FS_CardinalityType
    <2> QED
      BY <1>1, <2>2 DEF SafetyInv, TypeOK, ReactorTypeOK, CountersInv
  <1>3. /\ queue' \in Seq(Responses)
        /\ current' \in Responses \cup {NoResponse}
        /\ write_in_progress' \in BOOLEAN
        /\ pending_writes' = (IF write_in_progress' THEN 1 ELSE 0)
        /\ pending_writes' \in Nat
        /\ write_in_progress' => current' \in Responses
        /\ ~broken /\ queue' # <<>> => write_in_progress'
    <2>1. CASE UNCHANGED responseVars
      BY <1>1, <2>1
      DEF SafetyInv, TypeOK, ReactorTypeOK, CountersInv, FinishInv, responseVars
    <2>2. CASE ~UNCHANGED responseVars
      <3>1. PICK found \in BOOLEAN :
              TrySendNextResponse(
                Append(queue, [request |-> r, found |-> found]),
                write_in_progress, pending_writes)
        BY <2>2 DEF ThreadDone
      <3>2. Append(queue, [request |-> r, found |-> found]) \in Seq(Responses)
        BY DEF SafetyInv, TypeOK, ReactorTypeOK, Responses
      <3> QED
        BY <3>1, <3>2, TrySendEffect
        DEF SafetyInv, TypeOK, ReactorTypeOK, CountersInv
    <2> QED
      BY <2>1, <2>2
  <1>4. /\ finishing' \in [Statuses -> Nat]
        /\ \/ Finishers' = Finishers /\ finishing' = finishing
           \/ /\ Finishers' = Finishers + 1
              /\ client_done' /\ pending_writes' = 0 /\ active_threads' = 0
              /\ queue' = <<>>
    <2>1. CASE finishing' = finishing
      BY <1>1, <2>1 DEF SafetyInv, TypeOK, ReactorTypeOK, Finishers
    <2>2. CASE finishing' # finishing
      <3>1. FinishWhenNothingPending
        BY <2>2 DEF ThreadDone
      <3> QED
        BY <1>1, <3>1, FinishWhenNothingPendingEffect DEF SafetyInv
    <2> QED
      BY <2>1, <2>2
  <1>5. TypeOK'
    <2>1. StreamTypeOK' /\ ReactorTypeOK'
      BY <1>1, <1>2, <1>3, <1>4
      DEF SafetyInv, TypeOK, StreamTypeOK, ReactorTypeOK
    <2> QED
      BY <1>1, <2>1 DEF SafetyInv, TypeOK
  <1>6. CountersInv'
    BY <1>2, <1>3 DEF CountersInv
  <1>7. RequestsInv'
    BY <1>1 DEF SafetyInv, RequestsInv, TypeOK, ReactorTypeOK
  <1>8. EndInv' /\ ClientInv'
    BY <1>1, <1>2 DEF SafetyInv, EndInv, ClientInv
  <1>9. FinishInv'
    BY <1>1, <1>2, <1>3, <1>4, NotFinished DEF FinishInv
  <1> QED
    BY <1>5, <1>6, <1>7, <1>8, <1>9 DEF SafetyInv

LEMMA OnWriteDoneOK ==
  ASSUME SafetyInv, OnWriteDone, UNCHANGED clientVars
  PROVE  SafetyInv'
  <1>1. /\ write_in_progress /\ ~broken /\ finishes = <<>>
        /\ Len(toClient) < Window /\ toClient' = Append(toClient, current)
        /\ UNCHANGED <<toServer, halfClosed, status, broken, readOp, client_done,
                       threadVars, endVars, clientVars>>
    BY DEF OnWriteDone, Sent
  <1> USE DEF threadVars, endVars, clientVars
  <1>2. /\ queue' \in Seq(Responses)
        /\ current' \in Responses \cup {NoResponse}
        /\ write_in_progress' \in BOOLEAN
        /\ pending_writes' = (IF write_in_progress' THEN 1 ELSE 0)
        /\ pending_writes' \in Nat
        /\ write_in_progress' => current' \in Responses
        /\ queue' # <<>> => write_in_progress'
    <2>1. pending_writes - 1 = 0
      BY <1>1 DEF SafetyInv, CountersInv
    <2>2. TrySendNextResponse(queue, FALSE, 0)
      BY <2>1, Zenon DEF OnWriteDone
    <2>3. queue \in Seq(Responses) /\ current \in Responses \cup {NoResponse}
      BY DEF SafetyInv, TypeOK, ReactorTypeOK
    <2>4. FALSE \in BOOLEAN /\ 0 = IF FALSE THEN 1 ELSE 0
      OBVIOUS
    <2> QED
      BY <2>2, <2>3, <2>4, TrySendEffect
  <1>3. /\ finishing' \in [Statuses -> Nat]
        /\ \/ Finishers' = Finishers /\ finishing' = finishing
           \/ /\ Finishers' = Finishers + 1
              /\ client_done' /\ pending_writes' = 0 /\ active_threads' = 0
              /\ queue' = <<>>
    BY <1>1, FinishWhenNothingPendingEffect DEF SafetyInv, OnWriteDone
  <1>4. toClient' \in Seq(Responses) /\ Len(toClient') <= Window
    <2>1. current \in Responses /\ toClient \in Seq(Responses)
      BY <1>1 DEF SafetyInv, CountersInv, TypeOK, StreamTypeOK
    <2>2. toClient' \in Seq(Responses) /\ Len(toClient') = Len(toClient) + 1
      BY <1>1, <2>1, AppendProperties
    <2> QED
      BY <1>1, <2>1, <2>2, StreamAssumptions
  <1>5. TypeOK'
    BY <1>1, <1>2, <1>3, <1>4
    DEF SafetyInv, TypeOK, StreamTypeOK, ReactorTypeOK
  <1>6. CountersInv' /\ RequestsInv' /\ EndInv' /\ ClientInv'
    BY <1>1, <1>2
    DEF SafetyInv, CountersInv, Running, RequestsInv, EndInv, ClientInv
  <1>7. Finishers = 0
    BY <1>1, NotFinished
  <1>8. FinishInv'
    BY <1>1, <1>2, <1>3, <1>7 DEF FinishInv
  <1> QED
    BY <1>5, <1>6, <1>8 DEF SafetyInv

LEMMA OnWriteFailedOK ==
  ASSUME SafetyInv, OnWriteFailed, UNCHANGED clientVars
  PROVE  SafetyInv'
  <1>1. /\ write_in_progress /\ write_in_progress' = FALSE
        /\ broken \/ finishes # <<>>
        /\ pending_writes' = pending_writes - 1
        /\ UNCHANGED <<streamVars, readOp, client_done, queue, current,
                       threadVars, endVars, clientVars>>
        /\ CallsFinish("INTERNAL")
    BY DEF OnWriteFailed
  <1> USE DEF streamVars, threadVars, endVars, clientVars
  <1>2. broken
    BY <1>1, NotFinished
  <1>3. pending_writes = 1 /\ pending_writes' = 0
    BY <1>1 DEF SafetyInv, CountersInv
  <1>4. finishing' \in [Statuses -> Nat]
    BY <1>1, CallsFinishEffect DEF SafetyInv, Statuses
  <1>5. TypeOK'
    <2>1. write_in_progress' \in BOOLEAN
      BY <1>1
    <2>2. ReactorTypeOK'
      BY <1>1, <1>3, <1>4, <2>1 DEF SafetyInv, TypeOK, ReactorTypeOK
    <2> QED
      BY <1>1, <2>2 DEF SafetyInv, TypeOK, StreamTypeOK
  <1>6. CountersInv' /\ RequestsInv' /\ EndInv' /\ FinishInv' /\ ClientInv'
    BY <1>1, <1>2, <1>3
    DEF SafetyInv, CountersInv, Running, RequestsInv, EndInv, FinishInv, ClientInv
  <1> QED
    BY <1>5, <1>6 DEF SafetyInv

-----------------------------------------------------------------------------
(* The end of the stream, and of the reactor.                              *)

LEMMA FinishOK ==
  ASSUME SafetyInv, NEW s \in Statuses, Finish(s), UNCHANGED clientVars
  PROVE  SafetyInv'
  <1>1. /\ finishing[s] > 0
        /\ finishing' = [finishing EXCEPT ![s] = finishing[s] - 1]
        /\ finishes' = Append(finishes, s)
        /\ status' = IF status = "none" THEN s ELSE status
        /\ UNCHANGED <<toServer, halfClosed, toClient, broken, readOp,
                       client_done, responseVars, threadVars, onDoneCalled,
                       shutdown, destroyed, clientVars>>
    BY DEF Finish
  <1> USE DEF responseVars, threadVars, clientVars
  <1>2. finishing \in [Statuses -> Nat] /\ finishes \in Seq(Statuses)
    BY DEF SafetyInv, TypeOK, ReactorTypeOK
  <1>3. /\ finishing' \in [Statuses -> Nat] /\ finishes' \in Seq(Statuses)
        /\ Len(finishes') = Len(finishes) + 1 /\ finishes' # <<>>
    BY <1>1, <1>2, AppendProperties
  <1>4. Finishers' = Finishers
    <2>1. Len(finishes) \in Nat
      BY <1>2, LenProperties
    <2>2. CASE s = "OK"
      BY <1>1, <1>2, <1>3, <2>1, <2>2 DEF Finishers, Statuses
    <2>3. CASE s = "INTERNAL"
      BY <1>1, <1>2, <1>3, <2>1, <2>3 DEF Finishers, Statuses
    <2> QED
      BY <2>2, <2>3 DEF Statuses
  <1>5. TypeOK'
    BY <1>1, <1>3 DEF SafetyInv, TypeOK, StreamTypeOK, ReactorTypeOK
  <1>6. CountersInv' /\ RequestsInv' /\ EndInv' /\ FinishInv' /\ ClientInv'
    BY <1>1, <1>3, <1>4
    DEF SafetyInv, CountersInv, Running, RequestsInv, EndInv, FinishInv, ClientInv
  <1> QED
    BY <1>5, <1>6 DEF SafetyInv

LEMMA ReactorEndsOK ==
  ASSUME SafetyInv, CallOnDone \/ OnDone \/ DeleteThis, UNCHANGED clientVars
  PROVE  SafetyInv'
  <1>1. UNCHANGED <<streamVars, readOp, client_done, finishing, responseVars,
                    threadVars, finishes, clientVars>>
    BY DEF CallOnDone, OnDone, DeleteThis, Deleted
  <1> USE DEF streamVars, responseVars, threadVars, clientVars
  <1>2. /\ onDoneCalled' \in BOOLEAN /\ shutdown' \in BOOLEAN
        /\ destroyed' \in BOOLEAN /\ EndInv'
    <2>1. CASE CallOnDone
      BY <1>1, <2>1
      DEF CallOnDone, SafetyInv, TypeOK, ReactorTypeOK, EndInv
    <2>2. CASE OnDone
      BY <1>1, <2>2 DEF OnDone, SafetyInv, TypeOK, ReactorTypeOK, EndInv
    <2>3. CASE DeleteThis
      BY <1>1, <2>3
      DEF DeleteThis, Deleted, SafetyInv, TypeOK, ReactorTypeOK, EndInv
    <2> QED
      BY <2>1, <2>2, <2>3
  <1>3. TypeOK'
    BY <1>1, <1>2 DEF SafetyInv, TypeOK, StreamTypeOK, ReactorTypeOK
  <1>4. CountersInv' /\ RequestsInv' /\ FinishInv' /\ ClientInv'
    BY <1>1
    DEF SafetyInv, CountersInv, Running, RequestsInv, FinishInv, Finishers,
        ClientInv
  <1> QED
    BY <1>2, <1>3, <1>4 DEF SafetyInv

-----------------------------------------------------------------------------
(* The steps of the client and of the network.                             *)

(* While the client writes, the server has not ended the stream.           *)
LEMMA StatusMeansFinished ==
  ASSUME SafetyInv, ~broken, status # "none"
  PROVE  halfClosed
  BY FinishersType DEF SafetyInv, FinishInv, ClientInv

LEMMA ClientWriteOK ==
  ASSUME SafetyInv, ClientWrite
  PROVE  SafetyInv'
  <1>1. /\ client = "writing" /\ sent < N
        /\ UNCHANGED <<toClient, status, broken, reactorVars, results>>
    BY DEF ClientWrite
  <1> USE DEF reactorVars, responseVars, threadVars, endVars
  <1>2. sent \in Nat /\ N \in Nat /\ toServer \in Seq(Requests)
    BY StreamAssumptions DEF SafetyInv, TypeOK, StreamTypeOK
  <1>3. CountersInv' /\ EndInv' /\ FinishInv'
    BY <1>1
    DEF SafetyInv, CountersInv, Running, EndInv, FinishInv, Finishers
  <1>4. CASE /\ ~broken /\ Len(toServer) < Window
             /\ toServer' = Append(toServer, sent + 1) /\ sent' = sent + 1
             /\ UNCHANGED <<client, halfClosed>>
    <2> DEFINE n == Len(toServer)
    <2>1. sent + 1 \in Requests
      BY <1>1, <1>2 DEF Requests
    <2>2. /\ toServer' \in Seq(Requests) /\ Len(toServer') = n + 1 /\ n \in Nat
          /\ \A i \in 1 .. n : toServer'[i] = toServer[i]
          /\ toServer'[n + 1] = sent + 1
      BY <1>2, <1>4, <2>1, AppendProperties, LenProperties
    <2>3. n <= sent /\ \A i \in 1 .. n : toServer[i] = sent - n + i
      BY DEF SafetyInv, RequestsInv
    <2>4. \A q \in Requests : q > sent - n => thread'[q] = "none"
      BY <1>1 DEF SafetyInv, RequestsInv
    <2> HIDE DEF n
    <2>5. \A i \in 1 .. n + 1 : toServer'[i] = (sent + 1) - (n + 1) + i
      BY <1>2, <2>2, <2>3
    <2>6. RequestsInv'
      BY <1>2, <1>4, <2>2, <2>3, <2>4, <2>5 DEF RequestsInv, n
    <2>7. StreamTypeOK'
      BY <1>1, <1>2, <1>4, <2>2, StreamAssumptions
      DEF SafetyInv, TypeOK, StreamTypeOK, n
    <2>8. ReactorTypeOK' /\ client' = client /\ results' = results /\ sent' \in 0 .. N
      BY <1>1, <1>2, <1>4 DEF SafetyInv, TypeOK, ReactorTypeOK
    <2>9. TypeOK'
      BY <2>7, <2>8 DEF SafetyInv, TypeOK
    <2>10. ClientInv'
      BY <1>1, <1>4 DEF SafetyInv, ClientInv
    <2> QED
      BY <1>3, <2>6, <2>9, <2>10 DEF SafetyInv
  <1>5. CASE /\ broken \/ status # "none"
             /\ halfClosed' = TRUE /\ client' = "reading"
             /\ UNCHANGED <<toServer, sent>>
    <2>1. broken
      BY <1>1, <1>5, StatusMeansFinished DEF SafetyInv, ClientInv
    <2>2. TypeOK'
      BY <1>1, <1>5 DEF SafetyInv, TypeOK, StreamTypeOK, ReactorTypeOK
    <2>3. RequestsInv' /\ ClientInv'
      BY <1>1, <1>5, <2>1 DEF SafetyInv, RequestsInv, ClientInv
    <2> QED
      BY <1>3, <2>2, <2>3 DEF SafetyInv
  <1> QED
    BY <1>4, <1>5 DEF ClientWrite

LEMMA ClientWritesDoneOK ==
  ASSUME SafetyInv, ClientWritesDone
  PROVE  SafetyInv'
  <1>1. /\ client = "writing" /\ sent = N
        /\ halfClosed' = TRUE /\ client' = "reading"
        /\ UNCHANGED <<toServer, toClient, status, broken, reactorVars, sent,
                       results>>
    BY DEF ClientWritesDone
  <1> USE DEF reactorVars, responseVars, threadVars, endVars
  <1>2. TypeOK'
    BY <1>1 DEF SafetyInv, TypeOK, StreamTypeOK, ReactorTypeOK
  <1>3. CountersInv' /\ RequestsInv' /\ EndInv' /\ FinishInv' /\ ClientInv'
    BY <1>1
    DEF SafetyInv, CountersInv, Running, RequestsInv, EndInv, FinishInv,
        Finishers, ClientInv
  <1> QED
    BY <1>2, <1>3 DEF SafetyInv

LEMMA ClientReadOK ==
  ASSUME SafetyInv, ClientRead
  PROVE  SafetyInv'
  <1>1. /\ client = "reading" /\ toClient # <<>>
        /\ toClient' = Tail(toClient)
        /\ results' = Append(results, Head(toClient))
        /\ UNCHANGED <<toServer, halfClosed, status, broken, reactorVars, client,
                       sent>>
    BY DEF ClientRead
  <1> USE DEF reactorVars, responseVars, threadVars, endVars
  <1>2. /\ toClient' \in Seq(Responses) /\ Head(toClient) \in Responses
        /\ Len(toClient') = Len(toClient) - 1 /\ Len(toClient) \in Nat
        /\ Len(toClient') \in Nat /\ Len(toClient) <= Window
    BY <1>1, HeadTailProperties, LenProperties, EmptySeq
    DEF SafetyInv, TypeOK, StreamTypeOK
  <1>3. results' \in Seq(Responses) /\ results' \in Seq(Responses \cup {NoResponse})
    BY <1>1, <1>2 DEF SafetyInv, TypeOK, ClientInv
  <1>4. TypeOK'
    <2>1. StreamTypeOK'
      BY <1>1, <1>2, StreamAssumptions DEF SafetyInv, TypeOK, StreamTypeOK
    <2>2. ReactorTypeOK' 
      BY <1>1 DEF SafetyInv, TypeOK, ReactorTypeOK
    <2> QED
      BY <1>1, <1>3, <2>1, <2>2 DEF SafetyInv, TypeOK
  <1>5. CountersInv' /\ RequestsInv' /\ EndInv' /\ FinishInv' /\ ClientInv'
    BY <1>1, <1>3
    DEF SafetyInv, CountersInv, Running, RequestsInv, EndInv, FinishInv,
        Finishers, ClientInv
  <1> QED
    BY <1>4, <1>5 DEF SafetyInv

LEMMA ClientReturnsOK ==
  ASSUME SafetyInv, ClientReturns
  PROVE  SafetyInv'
  <1>1. /\ client = "reading" /\ client' = "returned"
        /\ UNCHANGED <<streamVars, reactorVars, sent>>
        /\ results' = results \o [i \in 1 .. (N - Len(results)) |-> NoResponse]
    BY DEF ClientReturns, StreamOver
  <1> USE DEF streamVars, reactorVars, responseVars, threadVars, endVars
  <1>2. results' \in Seq(Responses \cup {NoResponse})
    <2> DEFINE R == Responses \cup {NoResponse}
               fill == [i \in 1 .. (N - Len(results)) |-> NoResponse]
    <2>1. results \in Seq(R) /\ N - Len(results) \in Int
      BY LenProperties, StreamAssumptions DEF SafetyInv, TypeOK
    <2>2. fill \in Seq({NoResponse})
      BY <2>1, FillType
    <2>3. fill \in Seq(R)
      BY <2>2, SeqMonotonic
    <2> HIDE DEF R
    <2>4. results \o fill \in Seq(R)
      BY <2>1, <2>3, ConcatProperties
    <2> QED
      BY <1>1, <2>4 DEF R
  <1>3. TypeOK'
    BY <1>1, <1>2 DEF SafetyInv, TypeOK, StreamTypeOK, ReactorTypeOK
  <1>4. CountersInv' /\ RequestsInv' /\ EndInv' /\ FinishInv' /\ ClientInv'
    BY <1>1
    DEF SafetyInv, CountersInv, Running, RequestsInv, EndInv, FinishInv,
        Finishers, ClientInv
  <1> QED
    BY <1>3, <1>4 DEF SafetyInv

LEMMA BreakOK ==
  ASSUME SafetyInv, Break, UNCHANGED <<reactorVars, clientVars>>
  PROVE  SafetyInv'
  <1>1. /\ broken' = TRUE /\ toServer' = <<>>
        /\ toClient' \in {toClient, <<>>}
        /\ UNCHANGED <<halfClosed, status, reactorVars, clientVars>>
    BY DEF Break
  <1> USE DEF reactorVars, responseVars, threadVars, endVars, clientVars
  <1>2. /\ toServer' \in Seq(Requests) /\ Len(toServer') = 0
        /\ toClient' \in Seq(Responses) /\ Len(toClient') <= Window
    <2>1. Window \in Nat /\ Len(<<>>) = 0
      BY StreamAssumptions
    <2>2. toClient \in Seq(Responses) /\ Len(toClient) <= Window
      BY DEF SafetyInv, TypeOK, StreamTypeOK
    <2>3. <<>> \in Seq(Requests) /\ <<>> \in Seq(Responses)
      BY EmptySeq
    <2>4. toServer' \in Seq(Requests) /\ Len(toServer') = 0
      BY <1>1, <2>1, <2>3
    <2>5. CASE toClient' = toClient
      BY <2>2, <2>4, <2>5
    <2>6. CASE toClient' = <<>>
      BY <2>1, <2>3, <2>4, <2>6
    <2> QED
      BY <1>1, <2>5, <2>6
  <1>3. TypeOK'
    <2>1. StreamTypeOK'
      <3>1. broken' \in BOOLEAN
        BY <1>1
      <3>2. Len(toServer') <= Window
        BY <1>2, StreamAssumptions
      <3> QED
        BY <1>1, <1>2, <3>1, <3>2 DEF SafetyInv, TypeOK, StreamTypeOK
    <2>2. ReactorTypeOK'
      BY <1>1 DEF SafetyInv, TypeOK, ReactorTypeOK
    <2> QED
      BY <1>1, <2>1, <2>2 DEF SafetyInv, TypeOK
  <1>4. CountersInv' /\ EndInv' /\ FinishInv' /\ ClientInv'
    BY <1>1
    DEF SafetyInv, CountersInv, Running, EndInv, FinishInv, ClientInv
  <1>5. RequestsInv'
    <2>1. sent \in 0 .. N /\ N \in Nat /\ sent' = sent /\ thread' = thread
      BY <1>1, StreamAssumptions DEF SafetyInv, TypeOK
    <2>2. Len(toServer) \in Nat
      BY LenProperties DEF SafetyInv, TypeOK, StreamTypeOK
    <2>3. \A q \in Requests : q > sent => thread[q] = "none"
      BY <2>1, <2>2 DEF SafetyInv, RequestsInv, Requests
    <2> QED
      BY <1>2, <2>1, <2>3 DEF RequestsInv
  <1> QED
    BY <1>3, <1>4, <1>5 DEF SafetyInv

-----------------------------------------------------------------------------
(* The theorems.                                                           *)

LEMMA SafetyInit == Init => SafetyInv
  <1> SUFFICES ASSUME Init
               PROVE  SafetyInv
    OBVIOUS
  <1> USE DEF Init, StreamInit, ReactorInit, ClientInit
  <1>1. Running = {} /\ Cardinality(Running) = 0
    BY FS_EmptySet DEF Running
  <1>2. StreamTypeOK
    <2>1. /\ toServer = <<>> /\ toClient = <<>> /\ status = "none"
          /\ Len(<<>>) <= Window
      BY StreamAssumptions
    <2>2. halfClosed \in BOOLEAN /\ broken \in BOOLEAN
      BY Zenon
    <2>3. <<>> \in Seq(Requests) /\ <<>> \in Seq(Responses)
      BY EmptySeq
    <2> QED
      BY <2>1, <2>2, <2>3 DEF StreamTypeOK
  <1>3. TypeOK
    <2>1. /\ write_in_progress \in BOOLEAN /\ client_done \in BOOLEAN
          /\ onDoneCalled \in BOOLEAN /\ shutdown \in BOOLEAN
          /\ destroyed \in BOOLEAN
      BY Zenon
    <2>2. ReactorTypeOK
      BY <2>1, EmptySeq DEF ReactorTypeOK, Statuses
    <2> QED
      BY <1>2, <2>2, StreamAssumptions, EmptySeq DEF TypeOK
  <1>4. RequestsInv
    BY StreamAssumptions DEF RequestsInv, Requests
  <1>5. CountersInv /\ EndInv
    BY <1>1 DEF CountersInv, EndInv
  <1>6. FinishInv
    BY DEF FinishInv, Finishers, Statuses
  <1>7. ClientInv
    BY EmptySeq DEF ClientInv
  <1> QED
    BY <1>3, <1>4, <1>5, <1>6, <1>7 DEF SafetyInv

LEMMA SafetyNext == SafetyInv /\ [Next]_vars => SafetyInv'
  <1> SUFFICES ASSUME SafetyInv, [Next]_vars
               PROVE  SafetyInv'
    OBVIOUS
  <1>1. CASE ClientNext
    BY <1>1, ClientWriteOK, ClientWritesDoneOK, ClientReadOK, ClientReturnsOK
    DEF ClientNext
  <1>2. CASE ReactorNext /\ UNCHANGED clientVars
    <2>1. CASE OnReadDone \/ StartNextRead \/ OnReadsEnd
      BY <1>2, <2>1, OnReadDoneOK, StartNextReadOK, OnReadsEndOK
    <2>2. CASE \E r \in Requests : ThreadDone(r)
      BY <1>2, <2>2, ThreadDoneOK
    <2>3. CASE OnWriteDone \/ OnWriteFailed
      BY <1>2, <2>3, OnWriteDoneOK, OnWriteFailedOK
    <2>4. CASE \E s \in Statuses : Finish(s)
      BY <1>2, <2>4, FinishOK
    <2>5. CASE CallOnDone \/ OnDone \/ DeleteThis
      BY <1>2, <2>5, ReactorEndsOK
    <2> QED
      BY <1>2, <2>1, <2>2, <2>3, <2>4, <2>5 DEF ReactorNext
  <1>3. CASE Break /\ UNCHANGED <<reactorVars, clientVars>>
    BY <1>3, BreakOK
  <1>4. CASE UNCHANGED vars
    <2> USE <1>4
        DEF vars, streamVars, reactorVars, clientVars, responseVars, threadVars,
            endVars
    <2>1. TypeOK'
      BY DEF SafetyInv, TypeOK, StreamTypeOK, ReactorTypeOK
    <2>2. CountersInv' /\ RequestsInv' /\ EndInv'
      BY DEF SafetyInv, CountersInv, Running, RequestsInv, EndInv
    <2>3. FinishInv' /\ ClientInv'
      BY DEF SafetyInv, FinishInv, Finishers, ClientInv
    <2> QED
      BY <2>1, <2>2, <2>3 DEF SafetyInv
  <1> QED
    BY <1>1, <1>2, <1>3, <1>4 DEF Next

(* The inductive invariant holds: the counters count, requests arrive once *)
(* and in order, the reactor ends in stages, and who finishes the stream   *)
(* has nothing left to do.                                                 *)
THEOREM SafetyInvariant == Spec => []SafetyInv
  BY SafetyInit, SafetyNext, PTL DEF Spec

(* Every variable keeps its type.                                          *)
THEOREM TypeCorrect == Spec => []TypeOK
  <1>1. SafetyInv => TypeOK
    BY DEF SafetyInv
  <1> QED
    BY <1>1, SafetyInvariant, PTL

(* At most one callback or thread finishes the stream of a connection that *)
(* holds.                                                                  *)
THEOREM FinishesAtMostOnce == Spec => []FinishesOnce
  <1>1. SafetyInv => FinishesOnce
    BY DEF SafetyInv, FinishInv, Finishers, FinishesOnce
  <1> QED
    BY <1>1, SafetyInvariant, PTL

(* A queued response always has a write before it whose completion will    *)
(* send it.                                                                *)
THEOREM QueueAlwaysDrains == Spec => []QueueDrains
  <1>1. SafetyInv => QueueDrains
    BY DEF SafetyInv, FinishInv, QueueDrains
  <1> QED
    BY <1>1, SafetyInvariant, PTL

(* The reactor outlives the threads that use it, and its reads.            *)
THEOREM ReactorOutlivesThreads == Spec => []ThreadsEndBeforeDelete
  <1>1. SafetyInv => ThreadsEndBeforeDelete
    <2> SUFFICES ASSUME SafetyInv, destroyed
                 PROVE  Running = {} /\ readOp = "none"
      BY DEF ThreadsEndBeforeDelete, Running
    <2>1. Cardinality(Running) = 0 /\ readOp = "none"
      BY DEF SafetyInv, EndInv, CountersInv
    <2> QED
      BY <2>1, RunningIsFinite, FS_EmptySet
  <1> QED
    BY <1>1, SafetyInvariant, PTL

(* No write is started on a connection that holds once somebody has        *)
(* decided to finish.                                                      *)
THEOREM NoWriteOnceFinishing == Spec => NoWriteAfterFinish
  <1>1. SafetyInv /\ [Next]_vars =>
          [~broken /\ current' # current =>
             finishes = <<>> /\ finishing = [s \in Statuses |-> 0]]_vars
    <2> SUFFICES ASSUME SafetyInv, Next, ~broken, current' # current
                 PROVE  finishes = <<>> /\ finishing = [s \in Statuses |-> 0]
      OBVIOUS
    <2>1. OnReadDone \/ (\E r \in Requests : ThreadDone(r)) \/ OnWriteDone
      BY DEF Next, ClientNext, ClientWrite, ClientWritesDone, ClientRead,
             ClientReturns, StreamOver, ReactorNext, StartNextRead, OnReadsEnd,
             OnWriteFailed, Finish, CallOnDone, OnDone, DeleteThis, Deleted,
             Break, reactorVars, responseVars
    <2>2. CASE OnReadDone
      BY <2>2, NotFinished DEF OnReadDone, SafetyInv, EndInv
    <2>3. CASE \E r \in Requests : ThreadDone(r)
      <3>1. Running # {}
        BY <2>3 DEF ThreadDone, Running
      <3>2. active_threads # 0
        BY <3>1, RunningIsFinite, FS_EmptySet DEF SafetyInv, CountersInv
      <3> QED
        BY <3>2, NotFinished
    <2>4. CASE OnWriteDone
      BY <2>4, NotFinished DEF OnWriteDone, Sent
    <2> QED
      BY <2>1, <2>2, <2>3, <2>4
  <1> QED
    BY <1>1, SafetyInvariant, PTL DEF Spec, NoWriteAfterFinish


-----------------------------------------------------------------------------
(* Where the answers are.                                                  *)

Carried(s) == {s[i].request : i \in 1 .. Len(s)}
Distinct(s) ==
  \A i, j \in 1 .. Len(s) : s[i].request = s[j].request => i = j

BeingWritten == IF write_in_progress THEN {current.request} ELSE {}

(* The requests that the reactor has taken from the stream.                *)
Taken == 1 .. (sent - Len(toServer))

Apart(R, Q, W, C, A) ==
  /\ R \cap Q = {}
  /\ (R \cup Q) \cap W = {}
  /\ (R \cup Q \cup W) \cap C = {}
  /\ (R \cup Q \cup W \cup C) \cap A = {}

OnTheWay ==
  Running \cup Carried(queue) \cup BeingWritten \cup Carried(toClient)
    \cup Carried(Answers)

(* Every request that the reactor has taken is in one place on its way     *)
(* back to the client, unless the connection is lost.                      *)
DeliveryInv ==
  /\ Distinct(queue) /\ Distinct(toClient) /\ Distinct(Answers)
  /\ Apart(Running, Carried(queue), BeingWritten, Carried(toClient),
           Carried(Answers))
  /\ OnTheWay \subseteq Taken
  /\ ~broken => Taken \subseteq OnTheWay
  /\ client = "returned" => Len(results) = N

-----------------------------------------------------------------------------
(* Lemmas on sequences of responses.                                       *)

LEMMA CarriedAppend ==
  ASSUME NEW s \in Seq(Responses), NEW x \in Responses
  PROVE  /\ Carried(Append(s, x)) = Carried(s) \cup {x.request}
         /\ Distinct(s) /\ x.request \notin Carried(s) => Distinct(Append(s, x))
  <1> DEFINE t == Append(s, x)
             n == Len(s)
  <1>1. /\ n \in Nat /\ Len(t) = n + 1 /\ t[n + 1] = x
        /\ \A i \in 1 .. n : t[i] = s[i]
    BY AppendProperties, LenProperties
  <1> HIDE DEF t
  <1>2. Carried(t) = Carried(s) \cup {x.request}
    <2>1. 1 .. n + 1 = (1 .. n) \cup {n + 1}
      BY <1>1
    <2> HIDE DEF n
    <2>2. Carried(t) = {t[i].request : i \in (1 .. n) \cup {n + 1}}
      BY <1>1, <2>1 DEF Carried
    <2>3. Carried(s) = {s[i].request : i \in 1 .. n}
      BY DEF Carried, n
    <2> QED
      BY <1>1, <2>2, <2>3
  <1>3. Distinct(s) /\ x.request \notin Carried(s) => Distinct(t)
    <2> SUFFICES ASSUME Distinct(s), x.request \notin Carried(s),
                        NEW i \in 1 .. n + 1, NEW j \in 1 .. n + 1,
                        t[i].request = t[j].request
                 PROVE  i = j
      BY <1>1 DEF Distinct
    <2>1. \A k \in 1 .. n : t[k].request # x.request
      BY <1>1 DEF Carried
    <2>2. CASE i \in 1 .. n /\ j \in 1 .. n
      BY <1>1, <2>2 DEF Distinct
    <2>3. CASE i = n + 1 \/ j = n + 1
      BY <1>1, <2>1, <2>3
    <2> QED
      BY <1>1, <2>2, <2>3
  <1> QED
    BY <1>2, <1>3 DEF t

LEMMA CarriedTail ==
  ASSUME NEW s \in Seq(Responses), s # <<>>, Distinct(s)
  PROVE  /\ Carried(s) = Carried(Tail(s)) \cup {Head(s).request}
         /\ Head(s).request \notin Carried(Tail(s))
         /\ Distinct(Tail(s))
  <1> DEFINE t == Tail(s)
             n == Len(s)
  <1>1. /\ n \in Nat \ {0} /\ Len(t) = n - 1 /\ Head(s) = s[1]
        /\ \A i \in 1 .. n - 1 : t[i] = s[i + 1]
    BY HeadTailProperties, EmptySeq
  <1> HIDE DEF t
  <1>2. \A i \in 1 .. n : i = 1 \/ (i - 1 \in 1 .. n - 1 /\ s[i] = t[i - 1])
    BY <1>1
  <1>3. Carried(s) = Carried(t) \cup {s[1].request}
    BY <1>1, <1>2 DEF Carried
  <1>4. s[1].request \notin Carried(t)
    <2> SUFFICES ASSUME NEW i \in 1 .. n - 1, t[i].request = s[1].request
                 PROVE  FALSE
      BY <1>1 DEF Carried
    <2> QED
      BY <1>1 DEF Distinct
  <1>5. Distinct(t)
    <2> SUFFICES ASSUME NEW i \in 1 .. n - 1, NEW j \in 1 .. n - 1,
                        t[i].request = t[j].request
                 PROVE  i = j
      BY <1>1 DEF Distinct
    <2>1. i + 1 \in 1 .. n /\ j + 1 \in 1 .. n
      BY <1>1
    <2>2. i + 1 = j + 1
      BY <1>1, <2>1 DEF Distinct
    <2> QED
      BY <2>2
  <1> QED
    BY <1>1, <1>3, <1>4, <1>5 DEF t

(* TrySendNextResponse moves what it is given, and drops nothing.          *)
LEMMA TrySendCarries ==
  ASSUME NEW q \in Seq(Responses), Distinct(q),
         NEW inProgress \in BOOLEAN, NEW pending, NEW W,
         W = IF inProgress THEN {current.request} ELSE {},
         Carried(q) \cap W = {},
         TrySendNextResponse(q, inProgress, pending)
  PROVE  /\ Distinct(queue')
         /\ Carried(queue') \cup BeingWritten' = Carried(q) \cup W
         /\ Carried(queue') \cap BeingWritten' = {}
  <1>1. CASE inProgress \/ q = <<>>
    <2>1. /\ queue' = q /\ write_in_progress' = inProgress
          /\ current' = current
      BY <1>1 DEF TrySendNextResponse, SendsNothing
    <2>2. BeingWritten' = W
      BY <2>1 DEF BeingWritten
    <2> QED
      BY <2>1, <2>2
  <1>2. CASE ~inProgress /\ q # <<>>
    <2>1. /\ queue' = Tail(q) /\ current' = Head(q)
          /\ write_in_progress' = TRUE
      BY <1>2 DEF TrySendNextResponse, SendsNext
    <2>2. BeingWritten' = {Head(q).request} /\ W = {}
      BY <1>2, <2>1 DEF BeingWritten
    <2> QED
      BY <1>2, <2>1, <2>2, CarriedTail
  <1> QED
    BY <1>1, <1>2

AnswersIn(s) ==
  SubSeq(s, 1, Cardinality({i \in 1 .. Len(s) : s[i] # NoResponse}))

LEMMA CardinalityUpTo ==
  ASSUME NEW n \in Nat
  PROVE  Cardinality(1 .. n) = n
  <1>1. 1 \in Int /\ n \in Int
    OBVIOUS
  <1>2. Cardinality(1 .. n) = IF 1 > n THEN 0 ELSE n - 1 + 1
    BY <1>1, FS_Interval, Zenon
  <1> QED
    BY <1>2

(* The responses among the results, before and after the other slots are   *)
(* filled.                                                                 *)
LEMMA AllAnswers ==
  ASSUME NEW s \in Seq(Responses)
  PROVE  AnswersIn(s) = s
  <1>1. \A i \in 1 .. Len(s) : s[i] # NoResponse
    <2>1. NoResponse \notin Responses
      BY StreamAssumptions DEF Responses, Requests, NoResponse
    <2> QED
      BY <2>1, ElementOfSeq
  <1>2. Len(s) \in Nat
    BY LenProperties
  <1>3. {i \in 1 .. Len(s) : s[i] # NoResponse} = 1 .. Len(s)
    BY <1>1
  <1>4. Cardinality(1 .. Len(s)) = Len(s)
    BY <1>2, CardinalityUpTo
  <1> QED
    BY <1>3, <1>4, SubSeqFull DEF AnswersIn

LEMMA FilledAnswers ==
  ASSUME NEW s \in Seq(Responses), NEW k \in Int
  PROVE  LET t == s \o [i \in 1 .. k |-> NoResponse]
         IN  /\ AnswersIn(t) = s
             /\ Len(t) = Len(s) + (IF k > 0 THEN k ELSE 0)
  <1> DEFINE fill == [i \in 1 .. k |-> NoResponse]
             t == s \o fill
             n == Len(s)
             m == IF k > 0 THEN k ELSE 0
             R == Responses \cup {NoResponse}
  <1>1. fill \in Seq({NoResponse}) /\ Len(fill) = m
    BY FillType
  <1>2. s \in Seq(R) /\ fill \in Seq(R) /\ n \in Nat
    BY <1>1, SeqMonotonic, LenProperties
  <1>3. /\ t \in Seq(R) /\ Len(t) = n + m
        /\ \A i \in 1 .. n + m : t[i] = IF i <= n THEN s[i] ELSE fill[i - n]
    <2> HIDE DEF R, fill
    <2> QED
      BY ZenonT(30), <1>1, <1>2, ConcatProperties
  <1>4. \A i \in 1 .. n : t[i] # NoResponse /\ t[i] = s[i]
    <2>1. NoResponse \notin Responses
      BY StreamAssumptions DEF Responses, Requests, NoResponse
    <2>2. \A i \in 1 .. n : t[i] = s[i]
      BY <1>2, <1>3
    <2> QED
      BY <2>1, <2>2, ElementOfSeq
  <1>5. \A i \in n + 1 .. n + m : t[i] = NoResponse
    <2> SUFFICES ASSUME NEW i \in n + 1 .. n + m
                 PROVE  t[i] = NoResponse
      OBVIOUS
    <2>1. i - n \in 1 .. Len(fill) /\ t[i] = fill[i - n]
      BY <1>1, <1>2, <1>3
    <2> HIDE DEF fill, t
    <2> QED
      BY <1>1, <2>1, ElementOfSeq
  <1> HIDE DEF t
  <1>6. {i \in 1 .. Len(t) : t[i] # NoResponse} = 1 .. n
    BY <1>2, <1>3, <1>4, <1>5
  <1>7. Cardinality(1 .. n) = n
    BY <1>2, CardinalityUpTo
  <1>8. SubSeq(t, 1, n) = s
    <2>1. /\ SubSeq(t, 1, n) \in Seq(R) /\ Len(SubSeq(t, 1, n)) = n
          /\ \A i \in 1 .. n : SubSeq(t, 1, n)[i] = t[i]
      BY <1>2, <1>4, SubSeqProperties, ElementOfSeq
    <2> QED
      BY <1>2, <1>4, <2>1, SeqEqual
  <1>9. AnswersIn(t) = s
    BY <1>6, <1>7, <1>8 DEF AnswersIn
  <1> QED
    BY <1>3, <1>9 DEF t

(* A client that still reads has answers only.                             *)
LEMMA AnswersAreResults ==
  ASSUME SafetyInv, client # "returned"
  PROVE  Answers = results /\ results \in Seq(Responses)
  BY AllAnswers DEF SafetyInv, ClientInv, Answers, AnswersIn

-----------------------------------------------------------------------------
(* The steps that move an answer.                                          *)

LEMMA DeliveryTypes ==
  ASSUME SafetyInv
  PROVE  /\ queue \in Seq(Responses) /\ toClient \in Seq(Responses)
         /\ write_in_progress \in BOOLEAN
         /\ thread \in [Requests -> {"none", "running", "ended"}]
         /\ sent \in Nat /\ sent <= N /\ N \in Nat
         /\ Len(toServer) \in Nat /\ Len(toServer) <= sent
         /\ write_in_progress => current \in Responses
  BY StreamAssumptions, LenProperties
  DEF SafetyInv, TypeOK, StreamTypeOK, ReactorTypeOK, CountersInv, RequestsInv

LEMMA OnReadDoneDelivers ==
  ASSUME SafetyInv, DeliveryInv, OnReadDone, UNCHANGED clientVars
  PROVE  DeliveryInv'
  <1> DEFINE x == Head(toServer)
  <1>1. /\ toServer # <<>> /\ toServer' = Tail(toServer)
        /\ UNCHANGED <<toClient, broken, client, sent, results>>
    BY DEF OnReadDone, clientVars
  <1>2. /\ x \in Requests /\ x = sent - Len(toServer) + 1
        /\ Len(toServer') = Len(toServer) - 1
        /\ sent \in Nat /\ Len(toServer) \in Nat /\ Len(toServer) <= sent
    BY <1>1, FirstRequest, DeliveryTypes
  <1>3. Taken' = Taken \cup {x} /\ x \notin Taken
    BY <1>1, <1>2 DEF Taken
  <1> HIDE DEF x
  <1>4. x \notin OnTheWay
    BY <1>3 DEF DeliveryInv
  <1>5. Answers' = Answers /\ Carried(Answers)' = Carried(Answers)
    BY <1>1 DEF Answers
  <1>6. CASE /\ UNCHANGED threadVars
             /\ TrySendNextResponse(
                  Append(queue, [request |-> x, found |-> FALSE]),
                  write_in_progress, pending_writes)
    <2> DEFINE q == Append(queue, [request |-> x, found |-> FALSE])
    <2>1. [request |-> x, found |-> FALSE] \in Responses
      BY <1>2 DEF Responses
    <2>2. q \in Seq(Responses)
      BY <2>1, DeliveryTypes, AppendProperties
    <2>3. Carried(q) = Carried(queue) \cup {x} /\ Distinct(q)
      BY <1>4, <2>1, DeliveryTypes, CarriedAppend DEF DeliveryInv, OnTheWay
    <2>4. Carried(q) \cap BeingWritten = {}
      BY <1>4, <2>3 DEF DeliveryInv, OnTheWay, Apart
    <2> HIDE DEF q
    <2>5. /\ Distinct(queue')
          /\ Carried(queue') \cup BeingWritten' = Carried(q) \cup BeingWritten
          /\ Carried(queue') \cap BeingWritten' = {}
      BY ZenonT(30), <1>6, <2>2, <2>3, <2>4, DeliveryTypes, TrySendCarries
         DEF BeingWritten, q
    <2>6. Running' = Running
      BY <1>6 DEF threadVars, Running
    <2>7. /\ Apart(Running, Carried(queue'), BeingWritten', Carried(toClient),
                   Carried(Answers))
          /\ Running \cup Carried(queue') \cup BeingWritten' \cup Carried(toClient)
               \cup Carried(Answers) = OnTheWay \cup {x}
      <3>1. /\ {x} \cap (Running \cup Carried(queue) \cup BeingWritten
                            \cup Carried(toClient) \cup Carried(Answers)) = {}
            /\ Carried(queue') \cup BeingWritten'
                 = (Carried(queue) \cup {x}) \cup BeingWritten
        BY <1>4, <2>3, <2>5 DEF OnTheWay
      <3>2. Apart(Running, Carried(queue), BeingWritten, Carried(toClient),
                  Carried(Answers))
        BY DEF DeliveryInv
      <3> QED
        BY <2>5, <3>1, <3>2 DEF OnTheWay, Apart
    <2> QED
      BY <1>1, <1>3, <1>5, <2>5, <2>6, <2>7 DEF DeliveryInv, OnTheWay
  <1>7. CASE /\ thread' = [thread EXCEPT ![x] = "running"]
             /\ UNCHANGED responseVars
    <2>1. Running' = Running \cup {x}
      BY <1>2, <1>7, DeliveryTypes DEF Running
    <2>2. UNCHANGED <<queue, BeingWritten>>
      BY <1>7 DEF responseVars, BeingWritten
    <2>3. Apart(Running \cup {x}, Carried(queue), BeingWritten, Carried(toClient),
                Carried(Answers))
      BY <1>4 DEF DeliveryInv, OnTheWay, Apart
    <2> QED
      BY <1>1, <1>3, <1>5, <2>1, <2>2, <2>3 DEF DeliveryInv, OnTheWay
  <1> QED
    BY <1>6, <1>7 DEF OnReadDone, x

(* Once OnDone has run, the connection holds only if no thread is left.    *)
LEMMA NoThreadAfterOnDone ==
  ASSUME SafetyInv, shutdown, active_threads # 0
  PROVE  broken
  BY NotFinished DEF SafetyInv, EndInv

LEMMA ThreadDoneDelivers ==
  ASSUME SafetyInv, DeliveryInv, NEW r \in Requests, ThreadDone(r),
         UNCHANGED clientVars
  PROVE  DeliveryInv'
  <1>1. /\ thread[r] = "running" /\ thread' = [thread EXCEPT ![r] = "ended"]
        /\ UNCHANGED <<toServer, toClient, broken, client, sent, results>>
    BY DEF ThreadDone, streamVars, clientVars
  <1>2. r \in Running /\ Running' = Running \ {r}
    BY <1>1, DeliveryTypes DEF Running
  <1>3. Taken' = Taken /\ Answers' = Answers
    BY <1>1 DEF Taken, Answers
  <1>4. /\ Apart(Running \ {r}, Carried(queue), BeingWritten, Carried(toClient),
                 Carried(Answers))
        /\ {r} \cap ((Running \ {r}) \cup Carried(queue) \cup BeingWritten
                       \cup Carried(toClient) \cup Carried(Answers)) = {}
    BY <1>2 DEF DeliveryInv, Apart
  <1>5. CASE shutdown /\ UNCHANGED responseVars
    <2>1. broken
      <3>1. active_threads # 0
        BY <1>2, RunningIsFinite, FS_EmptySet DEF SafetyInv, CountersInv
      <3> QED
        BY <1>5, <3>1, NoThreadAfterOnDone
    <2>2. UNCHANGED <<queue, BeingWritten>>
      BY <1>5 DEF responseVars, BeingWritten
    <2> QED
      BY <1>1, <1>2, <1>3, <1>4, <2>1, <2>2 DEF DeliveryInv, OnTheWay
  <1>6. ASSUME NEW found \in BOOLEAN,
               TrySendNextResponse(Append(queue, [request |-> r, found |-> found]),
                                   write_in_progress, pending_writes)
        PROVE  DeliveryInv'
    <2> DEFINE q == Append(queue, [request |-> r, found |-> found])
    <2>1. [request |-> r, found |-> found] \in Responses
      BY DEF Responses
    <2>2. q \in Seq(Responses)
      BY <2>1, DeliveryTypes, AppendProperties
    <2>3. Carried(q) = Carried(queue) \cup {r} /\ Distinct(q)
      BY <1>4, <2>1, DeliveryTypes, CarriedAppend DEF DeliveryInv
    <2>4. Carried(q) \cap BeingWritten = {}
      BY <1>4, <2>3 DEF DeliveryInv, Apart
    <2> HIDE DEF q
    <2>5. /\ Distinct(queue')
          /\ Carried(queue') \cup BeingWritten' = Carried(q) \cup BeingWritten
          /\ Carried(queue') \cap BeingWritten' = {}
      BY ZenonT(30), <1>6, <2>2, <2>3, <2>4, DeliveryTypes, TrySendCarries
         DEF BeingWritten, q
    <2>6. /\ Apart(Running \ {r}, Carried(queue'), BeingWritten', Carried(toClient),
                   Carried(Answers))
          /\ (Running \ {r}) \cup Carried(queue') \cup BeingWritten'
               \cup Carried(toClient) \cup Carried(Answers) = OnTheWay
      <3>1. ((Running \ {r}) \cup Carried(queue) \cup BeingWritten
              \cup Carried(toClient) \cup Carried(Answers)) \cup {r} = OnTheWay
        BY <1>2 DEF OnTheWay
      <3>2. Carried(queue') \cup BeingWritten'
              = (Carried(queue) \cup {r}) \cup BeingWritten
        BY <2>3, <2>5
      <3> QED
        BY <1>4, <2>5, <3>1, <3>2 DEF Apart
    <2> QED
      BY <1>1, <1>2, <1>3, <2>5, <2>6 DEF DeliveryInv, OnTheWay
  <1> QED
    BY <1>5, <1>6 DEF ThreadDone

LEMMA OnWriteDoneDelivers ==
  ASSUME SafetyInv, DeliveryInv, OnWriteDone, UNCHANGED clientVars
  PROVE  DeliveryInv'
  <1> DEFINE x == current.request
  <1>1. /\ write_in_progress /\ toClient' = Append(toClient, current)
        /\ UNCHANGED <<toServer, broken, thread, client, sent, results>>
    BY DEF OnWriteDone, Sent, threadVars, clientVars
  <1>2. current \in Responses /\ BeingWritten = {x}
    BY <1>1, DeliveryTypes DEF BeingWritten
  <1> HIDE DEF x
  <1>3. /\ Running' = Running /\ Taken' = Taken /\ Answers' = Answers
    BY <1>1 DEF Running, Taken, Answers
  <1>4. x \notin Running \cup Carried(queue) \cup Carried(toClient)
                 \cup Carried(Answers)
    BY <1>2 DEF DeliveryInv, Apart
  <1>5. /\ Carried(toClient') = Carried(toClient) \cup {x}
        /\ Distinct(toClient')
    BY <1>1, <1>2, <1>4, DeliveryTypes, CarriedAppend DEF DeliveryInv, x
  <1>6. /\ Distinct(queue')
        /\ Carried(queue') \cup BeingWritten' = Carried(queue)
        /\ Carried(queue') \cap BeingWritten' = {}
    <2>1. pending_writes - 1 = 0
      BY <1>1 DEF SafetyInv, CountersInv
    <2>2. TrySendNextResponse(queue, FALSE, 0)
      BY <2>1, Zenon DEF OnWriteDone
    <2>3. /\ FALSE \in BOOLEAN /\ {} = (IF FALSE THEN {current.request} ELSE {})
          /\ Carried(queue) \cap {} = {} /\ Carried(queue) \cup {} = Carried(queue)
      OBVIOUS
    <2>4. queue \in Seq(Responses) /\ Distinct(queue)
      BY DeliveryTypes DEF DeliveryInv
    <2> QED
      BY <2>2, <2>3, <2>4, TrySendCarries
  <1>7. /\ Apart(Running, Carried(queue'), BeingWritten', Carried(toClient'),
                 Carried(Answers))
        /\ Running \cup Carried(queue') \cup BeingWritten' \cup Carried(toClient')
             \cup Carried(Answers) = OnTheWay
    BY <1>2, <1>4, <1>5, <1>6 DEF DeliveryInv, OnTheWay, Apart
  <1> QED
    BY <1>1, <1>3, <1>5, <1>6, <1>7 DEF DeliveryInv, OnTheWay

LEMMA OnWriteFailedDelivers ==
  ASSUME SafetyInv, DeliveryInv, OnWriteFailed, UNCHANGED clientVars
  PROVE  DeliveryInv'
  <1>1. /\ write_in_progress /\ write_in_progress' = FALSE
        /\ broken \/ finishes # <<>>
        /\ UNCHANGED <<toServer, toClient, broken, queue, thread, client, sent,
                       results>>
    BY DEF OnWriteFailed, streamVars, threadVars, clientVars
  <1>2. broken
    BY <1>1, NotFinished
  <1>3. BeingWritten' = {}
    BY <1>1 DEF BeingWritten
  <1>4. Running' = Running /\ Taken' = Taken /\ Answers' = Answers
    BY <1>1 DEF Running, Taken, Answers
  <1>5. /\ Apart(Running, Carried(queue), {}, Carried(toClient), Carried(Answers))
        /\ Running \cup Carried(queue) \cup {} \cup Carried(toClient)
             \cup Carried(Answers) \subseteq OnTheWay
    BY DEF DeliveryInv, OnTheWay, Apart
  <1> QED
    BY <1>1, <1>2, <1>3, <1>4, <1>5 DEF DeliveryInv, OnTheWay

LEMMA ClientReadDelivers ==
  ASSUME SafetyInv, DeliveryInv, ClientRead
  PROVE  /\ DeliveryInv'
         /\ Answers = results /\ Answers' = Append(results, Head(toClient))
         /\ Head(toClient) \in Responses /\ results \in Seq(Responses)
         /\ Head(toClient).request \notin Carried(Answers)
  <1> DEFINE h == Head(toClient)
  <1>1. /\ client = "reading" /\ client' = client /\ toClient # <<>>
        /\ toClient' = Tail(toClient) /\ results' = Append(results, h)
        /\ UNCHANGED <<toServer, broken, sent, queue, thread, write_in_progress,
                       current>>
    BY DEF ClientRead, reactorVars, responseVars, threadVars
  <1>2. toClient \in Seq(Responses) /\ h \in Responses
    BY <1>1, DeliveryTypes, HeadTailProperties
  <1> HIDE DEF h
  <1>3. Answers = results /\ results \in Seq(Responses)
    BY <1>1, AnswersAreResults
  <1>4. Answers' = Append(results, h)
    <2>1. Append(results, h) \in Seq(Responses)
      BY <1>2, <1>3, AppendProperties
    <2> QED
      BY <1>1, <2>1, AllAnswers DEF Answers, AnswersIn
  <1>5. /\ Carried(toClient) = Carried(toClient') \cup {h.request}
        /\ h.request \notin Carried(toClient')
        /\ Distinct(toClient')
    BY <1>1, <1>2, CarriedTail DEF DeliveryInv, h
  <1>6. h.request \notin Running \cup Carried(queue) \cup BeingWritten
                         \cup Carried(Answers)
    BY <1>5 DEF DeliveryInv, Apart
  <1>7. /\ Carried(Answers') = Carried(Answers) \cup {h.request}
        /\ Distinct(Answers')
    <2>1. Distinct(results) /\ h.request \notin Carried(results)
      BY <1>3, <1>6 DEF DeliveryInv
    <2> QED
      BY <1>2, <1>3, <1>4, <2>1, CarriedAppend
  <1>8. Running' = Running /\ BeingWritten' = BeingWritten /\ Taken' = Taken
    BY <1>1 DEF Running, BeingWritten, Taken
  <1>9. /\ Apart(Running, Carried(queue), BeingWritten, Carried(toClient'),
                 Carried(Answers'))
        /\ Running \cup Carried(queue) \cup BeingWritten \cup Carried(toClient')
             \cup Carried(Answers') = OnTheWay
    BY <1>5, <1>6, <1>7 DEF DeliveryInv, OnTheWay, Apart
  <1> QED
    BY <1>1, <1>2, <1>3, <1>4, <1>5, <1>6, <1>7, <1>8, <1>9
    DEF DeliveryInv, OnTheWay, h

-----------------------------------------------------------------------------
(* The other steps.                                                        *)

(* There cannot be more answers than locations.                            *)
LEMMA AtMostOneEach ==
  ASSUME NEW s \in Seq(Responses), Distinct(s)
  PROVE  Len(s) <= N
  <1> DEFINE f == [i \in 1 .. Len(s) |-> s[i].request]
  <1>1. f \in Injection(1 .. Len(s), Requests)
    <2>1. \A x \in Responses : x.request \in Requests
      BY DEF Responses
    <2>2. \A i \in 1 .. Len(s) : s[i].request \in Requests
      BY <2>1, ElementOfSeq
    <2> QED
      BY <2>2 DEF Distinct, Injection, IsInjective
  <1>2. Cardinality(Requests) = N /\ Cardinality(1 .. Len(s)) = Len(s)
    BY StreamAssumptions, LenProperties, CardinalityUpTo DEF Requests
  <1>3. IsFiniteSet(Requests)
    BY StreamAssumptions, FS_Interval DEF Requests
  <1> HIDE DEF f
  <1> QED
    BY <1>1, <1>2, <1>3, FS_Injection

LEMMA ClientReturnsDelivers ==
  ASSUME SafetyInv, DeliveryInv, ClientReturns
  PROVE  DeliveryInv' /\ Answers' = Answers
  <1>1. /\ client = "reading" /\ client' = "returned"
        /\ results' = results \o [i \in 1 .. N - Len(results) |-> NoResponse]
        /\ UNCHANGED <<toServer, toClient, broken, sent, queue, thread,
                       write_in_progress, current>>
    BY DEF ClientReturns, StreamOver, streamVars, reactorVars, responseVars,
           threadVars
  <1>2. Answers = results /\ results \in Seq(Responses)
    BY <1>1, AnswersAreResults
  <1>3. Len(results) \in Nat /\ Len(results) <= N /\ N \in Nat
    BY <1>2, AtMostOneEach, LenProperties, StreamAssumptions DEF DeliveryInv
  <1>4. AnswersIn(results') = results /\ Len(results') = N
    <2>1. N - Len(results) \in Int
      BY <1>3
    <2>2. /\ AnswersIn(results') = results
          /\ Len(results') = Len(results) + (IF N - Len(results) > 0
                                             THEN N - Len(results) ELSE 0)
      BY <1>1, <1>2, <2>1, FilledAnswers
    <2> QED
      BY <1>3, <2>2
  <1>5. Answers' = Answers
    BY <1>2, <1>4 DEF Answers, AnswersIn
  <1>6. Running' = Running /\ BeingWritten' = BeingWritten /\ Taken' = Taken
    BY <1>1 DEF Running, BeingWritten, Taken
  <1> QED
    BY <1>1, <1>4, <1>5, <1>6 DEF DeliveryInv, OnTheWay

LEMMA BreakDelivers ==
  ASSUME SafetyInv, DeliveryInv, Break, UNCHANGED <<reactorVars, clientVars>>
  PROVE  DeliveryInv'
  <1>1. /\ broken' = TRUE /\ toServer' = <<>> /\ toClient' \in {toClient, <<>>}
        /\ UNCHANGED <<client, sent, results, queue, thread, write_in_progress,
                       current>>
    BY DEF Break, reactorVars, responseVars, threadVars, clientVars
  <1>2. /\ Running' = Running /\ BeingWritten' = BeingWritten
        /\ Answers' = Answers
    BY <1>1 DEF Running, BeingWritten, Answers
  <1>3. Taken \subseteq Taken'
    BY <1>1, DeliveryTypes DEF Taken
  <1>4. Carried(toClient') \subseteq Carried(toClient) /\ Distinct(toClient')
    <2>1. Carried(<<>>) = {} /\ Distinct(<<>>)
      BY DEF Carried, Distinct
    <2> QED
      BY <1>1, <2>1 DEF DeliveryInv
  <1>5. /\ Apart(Running, Carried(queue), BeingWritten, Carried(toClient'),
                 Carried(Answers))
        /\ Running \cup Carried(queue) \cup BeingWritten \cup Carried(toClient')
             \cup Carried(Answers) \subseteq OnTheWay
    BY <1>4 DEF DeliveryInv, OnTheWay, Apart
  <1> QED
    BY <1>1, <1>2, <1>3, <1>4, <1>5 DEF DeliveryInv, OnTheWay

(* The steps that move no answer.                                          *)
LEMMA OthersDeliver ==
  ASSUME SafetyInv, DeliveryInv,
         UNCHANGED <<toClient, broken, queue, write_in_progress, current, thread,
                     results>>,
         sent' - Len(toServer') = sent - Len(toServer),
         client' # "returned" \/ UNCHANGED client
  PROVE  DeliveryInv'
  <1>1. /\ Running' = Running /\ BeingWritten' = BeingWritten
        /\ Answers' = Answers /\ Taken' = Taken
    BY DEF Running, BeingWritten, Answers, Taken
  <1> QED
    BY <1>1 DEF DeliveryInv, OnTheWay

LEMMA ClientWriteDelivers ==
  ASSUME SafetyInv, DeliveryInv, ClientWrite \/ ClientWritesDone
  PROVE  DeliveryInv'
  <1>1. /\ UNCHANGED <<toClient, broken, queue, write_in_progress, current, thread,
                       results>>
        /\ client' # "returned" \/ UNCHANGED client
        /\ \/ UNCHANGED <<toServer, sent>>
           \/ toServer' = Append(toServer, sent + 1) /\ sent' = sent + 1
    <2>1. CASE ClientWrite
      BY <2>1 DEF ClientWrite, reactorVars, responseVars, threadVars
    <2>2. CASE ClientWritesDone
      BY <2>2 DEF ClientWritesDone, reactorVars, responseVars, threadVars
    <2> QED
      BY <2>1, <2>2
  <1>2. sent' - Len(toServer') = sent - Len(toServer)
    <2>1. CASE toServer' = Append(toServer, sent + 1) /\ sent' = sent + 1
      <3>1. toServer \in Seq(Requests) /\ Len(toServer) \in Nat /\ sent \in Nat
        BY DeliveryTypes DEF SafetyInv, TypeOK, StreamTypeOK
      <3>2. Len(toServer') = Len(toServer) + 1
        BY <2>1, <3>1
      <3> QED
        BY <2>1, <3>1, <3>2
    <2> QED
      BY <1>1, <2>1
  <1> QED
    BY <1>1, <1>2, OthersDeliver

LEMMA DeliveryInit == Init => DeliveryInv
  <1> SUFFICES ASSUME Init
               PROVE  DeliveryInv
    OBVIOUS
  <1>1. /\ queue = <<>> /\ toClient = <<>> /\ results = <<>> /\ sent = 0
        /\ toServer = <<>> /\ client = "writing"
    BY DEF Init, StreamInit, ReactorInit, ClientInit
  <1>2. Running = {} /\ BeingWritten = {}
    BY DEF Init, ReactorInit, Running, BeingWritten
  <1>3. Answers = <<>>
    BY <1>1, AllAnswers, EmptySeq DEF Answers, AnswersIn
  <1>4. Carried(<<>>) = {} /\ Distinct(<<>>)
    BY DEF Carried, Distinct
  <1>5. Taken = {}
    BY <1>1 DEF Taken
  <1> QED
    BY <1>1, <1>2, <1>3, <1>4, <1>5 DEF DeliveryInv, Apart, OnTheWay

LEMMA DeliveryNext == SafetyInv /\ DeliveryInv /\ [Next]_vars => DeliveryInv'
  <1> SUFFICES ASSUME SafetyInv, DeliveryInv, [Next]_vars
               PROVE  DeliveryInv'
    OBVIOUS
  <1>1. CASE ClientNext
    BY <1>1, ClientWriteDelivers, ClientReadDelivers, ClientReturnsDelivers
    DEF ClientNext
  <1>2. CASE ReactorNext /\ UNCHANGED clientVars
    <2>1. CASE OnReadDone
      BY <1>2, <2>1, OnReadDoneDelivers
    <2>2. CASE \E r \in Requests : ThreadDone(r)
      BY <1>2, <2>2, ThreadDoneDelivers
    <2>3. CASE OnWriteDone
      BY <1>2, <2>3, OnWriteDoneDelivers
    <2>4. CASE OnWriteFailed
      BY <1>2, <2>4, OnWriteFailedDelivers
    <2>5. CASE \/ StartNextRead \/ OnReadsEnd
               \/ \E s \in Statuses : Finish(s)
               \/ CallOnDone \/ OnDone \/ DeleteThis
      <3>1. UNCHANGED <<toServer, toClient, broken, queue, write_in_progress,
                        current, thread, sent, results, client>>
        BY <1>2, <2>5
        DEF StartNextRead, OnReadsEnd, Finish, CallOnDone, OnDone, DeleteThis,
            Deleted, streamVars, responseVars, threadVars, clientVars
      <3> QED
        BY <3>1, OthersDeliver
    <2> QED
      BY <1>2, <2>1, <2>2, <2>3, <2>4, <2>5 DEF ReactorNext
  <1>3. CASE Break /\ UNCHANGED <<reactorVars, clientVars>>
    BY <1>3, BreakDelivers
  <1>4. CASE UNCHANGED vars
    <2>1. UNCHANGED <<toServer, toClient, broken, queue, write_in_progress,
                      current, thread, sent, results, client>>
      BY <1>4 DEF vars, streamVars, reactorVars, responseVars, threadVars,
                  clientVars
    <2> QED
      BY <2>1, OthersDeliver
  <1> QED
    BY <1>1, <1>2, <1>3, <1>4 DEF Next

-----------------------------------------------------------------------------
(* The theorems.                                                           *)

(* Every request the reactor has taken is with its thread, in the queue,   *)
(* being written, under way or among the results, and in one of them only; *)
(* none is missing as long as the connection holds.                        *)
THEOREM DeliveryInvariant == Spec => []DeliveryInv
  <1>1. Init => SafetyInv /\ DeliveryInv
    BY SafetyInit, DeliveryInit
  <1>2. SafetyInv /\ DeliveryInv /\ [Next]_vars => (SafetyInv /\ DeliveryInv)'
    BY SafetyNext, DeliveryNext
  <1> QED
    BY <1>1, <1>2, PTL DEF Spec

(* The caller of StreamingReadAsync gets one result per location, whatever *)
(* happened to the connection.                                             *)
THEOREM OneResultEach == Spec => []OneResultPerLocation
  <1>1. DeliveryInv => OneResultPerLocation
    BY DEF DeliveryInv, OneResultPerLocation
  <1> QED
    BY <1>1, DeliveryInvariant, PTL

-----------------------------------------------------------------------------
(* StreamingRead implements BulkRead.                                      *)

Got(s) == [i \in 1 .. Len(s) |-> s[i].request]

LEMMA GotCarried ==
  ASSUME NEW s \in Seq(Responses)
  PROVE  /\ Got(s) \in Seq(Requests) /\ Len(Got(s)) = Len(s)
         /\ {Got(s)[i] : i \in 1 .. Len(Got(s))} = Carried(s)
  <1>1. Len(s) \in Nat
    BY LenProperties
  <1>2. \A x \in Responses : x.request \in Requests
    BY DEF Responses
  <1>3. \A i \in 1 .. Len(s) : s[i].request \in Requests
    BY <1>2, ElementOfSeq
  <1>4. Got(s) \in [1 .. Len(s) -> Requests]
    BY <1>3 DEF Got
  <1>5. Got(s) \in Seq(Requests)
    BY <1>1, <1>4, SeqDef
  <1>6. Len(Got(s)) = Len(s)
    BY <1>1, <1>4, <1>5, LenProperties
  <1> QED
    BY <1>5, <1>6 DEF Got, Carried

LEMMA GotAppend ==
  ASSUME NEW s \in Seq(Responses), NEW x \in Responses
  PROVE  Got(Append(s, x)) = Append(Got(s), x.request)
  <1> DEFINE t == Append(s, x)
             n == Len(s)
  <1>1. /\ t \in Seq(Responses) /\ n \in Nat /\ Len(t) = n + 1 /\ t[n + 1] = x
        /\ \A i \in 1 .. n : t[i] = s[i]
    BY AppendProperties, LenProperties
  <1>2. x.request \in Requests
    BY DEF Responses
  <1>3. /\ Append(Got(s), x.request) \in Seq(Requests)
        /\ Len(Append(Got(s), x.request)) = n + 1
        /\ \A i \in 1 .. n : Append(Got(s), x.request)[i] = Got(s)[i]
        /\ Append(Got(s), x.request)[n + 1] = x.request
    BY <1>2, GotCarried, AppendProperties
  <1> HIDE DEF t
  <1>4. Got(t) \in Seq(Requests) /\ Len(Got(t)) = n + 1
    BY <1>1, GotCarried
  <1>5. \A i \in 1 .. n + 1 : Got(t)[i] = Append(Got(s), x.request)[i]
    <2> SUFFICES ASSUME NEW i \in 1 .. n + 1
                 PROVE  Got(t)[i] = Append(Got(s), x.request)[i]
      OBVIOUS
    <2>1. Got(t)[i] = t[i].request
      BY <1>1 DEF Got
    <2>2. CASE i = n + 1
      BY <1>1, <1>3, <2>1, <2>2
    <2>3. CASE i \in 1 .. n
      <3>1. Got(s)[i] = s[i].request
        BY <2>3 DEF Got
      <3> QED
        BY <1>1, <1>3, <2>1, <2>3, <3>1
    <2>4. Len(s) \in Nat
      BY <1>1
    <2>5. i = n + 1 \/ i \in 1 .. n
      BY <2>4
    <2> QED
      BY <2>2, <2>3, <2>5, Zenon
  <1> QED
    BY <1>3, <1>4, <1>5, SeqEqual DEF t

(* When the client finds the stream finished, it has every answer.         *)
LEMMA AllDelivered ==
  ASSUME SafetyInv, DeliveryInv, ~broken, status # "none", toClient = <<>>
  PROVE  Carried(Answers) = Requests
  <1>1. Finishers = 1
    BY FinishersType DEF SafetyInv, ClientInv, FinishInv
  <1>2. /\ client_done /\ pending_writes = 0 /\ active_threads = 0
        /\ queue = <<>>
    BY <1>1 DEF SafetyInv, FinishInv
  <1>3. Running = {}
    BY <1>2, RunningIsFinite, FS_EmptySet DEF SafetyInv, CountersInv
  <1>4. BeingWritten = {}
    BY <1>2 DEF SafetyInv, CountersInv, BeingWritten
  <1>5. toServer = <<>> /\ sent = N
    BY <1>2 DEF SafetyInv, ClientInv
  <1>6. Taken = Requests
    BY <1>5, StreamAssumptions DEF Taken, Requests
  <1>7. Carried(queue) = {} /\ Carried(toClient) = {}
    BY <1>2 DEF Carried
  <1> QED
    BY <1>3, <1>4, <1>6, <1>7 DEF DeliveryInv, OnTheWay

BulkVars == <<Got(Answers), broken, client = "returned">>

LEMMA StepOfBulk ==
  SafetyInv /\ DeliveryInv /\ [Next]_vars
    => [Bulk!Answer \/ Bulk!Lose \/ Bulk!Return]_BulkVars
  <1> SUFFICES ASSUME SafetyInv, DeliveryInv, [Next]_vars
               PROVE  \/ Bulk!Answer \/ Bulk!Lose \/ Bulk!Return
                      \/ UNCHANGED BulkVars
    OBVIOUS
  <1>1. ASSUME UNCHANGED <<results, broken>>,
               (client' = "returned") = (client = "returned")
        PROVE  UNCHANGED BulkVars
    BY <1>1 DEF BulkVars, Answers
  <1>2. CASE ClientRead
    <2>1. /\ client = "reading" /\ client' = "reading" /\ broken' = broken
      BY <1>2 DEF ClientRead
    <2> DEFINE h == Head(toClient)
    <2>2. /\ Answers = results /\ Answers' = Append(results, h)
          /\ h \in Responses /\ results \in Seq(Responses)
          /\ h.request \notin Carried(Answers)
      BY <1>2, ClientReadDelivers
    <2> HIDE DEF h
    <2>3. /\ Got(Answers') = Append(Got(Answers), h.request)
          /\ h.request \in Requests \ {Got(Answers)[i] : i \in 1 .. Len(Got(Answers))}
      BY <2>2, GotAppend, GotCarried DEF Responses
    <2>4. Bulk!Answer
      BY <2>1, <2>3 DEF Bulk!Answer, Bulk!Answered, Got
    <2> QED
      BY <2>4
  <1>3. CASE ClientReturns
    <2>1. /\ client = "reading" /\ client' = "returned" /\ broken' = broken
          /\ toClient = <<>>
          /\ broken \/ status # "none"
      BY <1>3 DEF ClientReturns, StreamOver, streamVars
    <2>2. Answers' = Answers /\ Answers \in Seq(Responses)
      BY <1>3, <2>1, ClientReturnsDelivers, AnswersAreResults
    <2>3. broken \/ {Got(Answers)[i] : i \in 1 .. Len(Got(Answers))} = Requests
      BY <2>1, <2>2, AllDelivered, GotCarried
    <2>4. Bulk!Return
      BY <2>1, <2>2, <2>3 DEF Bulk!Return, Bulk!Answered, Got
    <2> QED
      BY <2>4
  <1>4. CASE Break /\ UNCHANGED <<reactorVars, clientVars>>
    <2>1. broken' = TRUE /\ results' = results /\ client' = client
      BY <1>4 DEF Break, clientVars
    <2>2. Bulk!Lose
      BY <2>1 DEF Bulk!Lose, Answers
    <2> QED
      BY <2>2
  <1>5. CASE ClientWrite \/ ClientWritesDone
    <2>1. UNCHANGED <<results, broken>> /\ client = "writing" /\ client' # "returned"
      BY <1>5 DEF ClientWrite, ClientWritesDone
    <2> QED
      BY <1>1, <2>1
  <1>6. CASE ReactorNext /\ UNCHANGED clientVars
    <2>1. UNCHANGED broken
      BY <1>6
      DEF ReactorNext, OnReadDone, StartNextRead, OnReadsEnd, ThreadDone,
          OnWriteDone, Sent, OnWriteFailed, Finish, CallOnDone, OnDone,
          DeleteThis, Deleted, streamVars
    <2> QED
      BY <1>1, <1>6, <2>1 DEF clientVars
  <1>7. CASE UNCHANGED vars
    BY <1>1, <1>7 DEF vars, streamVars, clientVars
  <1> QED
    BY <1>2, <1>3, <1>4, <1>5, <1>6, <1>7 DEF Next, ClientNext

(* Client and server implement a bulk read of the locations: no answer is  *)
(* lost or duplicated, and the client returns only when it has all of them *)
(* or has lost the connection.                                             *)
THEOREM BulkReadImplemented == Spec => ImplementsBulkRead
  <1>1. Init => Bulk!Init
    <2> SUFFICES ASSUME Init
                 PROVE  Bulk!Init
      OBVIOUS
    <2>1. results = <<>> /\ broken = FALSE /\ client # "returned"
      BY DEF Init, StreamInit, ClientInit
    <2>2. Answers = <<>>
      BY <2>1, AllAnswers, EmptySeq DEF Answers, AnswersIn
    <2> QED
      BY <2>1, <2>2 DEF Bulk!Init
  <1> QED
    BY <1>1, StepOfBulk, SafetyInvariant, DeliveryInvariant, PTL
    DEF Spec, ImplementsBulkRead, Bulk!Spec, BulkVars, Got

=============================================================================
