----------------------------- MODULE UnaryService -----------------------------
(***************************************************************************)
(* The unary calls Write, Lookup and Read from end to end: the client's    *)
(* blocking call, the reactor that the server makes for it, which resolves *)
(* the store on gRPC's thread and works on a thread of its own, and the    *)
(* status and response that come back, unless the connection is lost.      *)
(***************************************************************************)
EXTENDS AccountResolver

CONSTANTS Asked,   \* the requests the calls may carry: functions from Calls
                 \* to records of kind, resource, container and valid
          CanLose  \* bound: the calls whose connection may be lost

VARIABLES reactor,   \* the reactor of each call
          work,      \* how the call's storage operation ended
          response,  \* what the response says
          status,    \* the status the reactor finished with
          lost,      \* calls whose connection is lost
          client     \* what the client's call returned

callVars == <<reactor, work, response, status, lost, client>>
vars == <<published, changes, request, resolverVars, callVars>>

Kinds == {"Write", "Lookup", "Read"}

ASSUME CallAssumption ==
  Asked \subseteq [Calls -> [kind : Kinds, resource : Resources,
                            container : Containers, valid : BOOLEAN]]

(* How a storage operation ends: with a value, with found = false, or with *)
(* an exception.  WriteAsync also returns normally when it has dropped the *)
(* version: its outermost catch swallows a StorageException, be it of a    *)
(* failed request or of the retries that ran out, and the assertion before *)
(* it is compiled out (see KVStoreWrite).                                  *)
Outcomes(kind) ==
  {"value", "threw"} \cup (IF kind = "Read" THEN {"nothing"} ELSE {})
                     \cup (IF kind = "Write" THEN {"dropped"} ELSE {})

(* The type invariant.                                                     *)
TypeOK ==
  /\ ResolverTypeOK
  /\ request \in Asked
  /\ reactor \in [Calls -> {"none", "resolving", "working",
                            "finished", "deleted"}]
  /\ work \in [Calls -> {"none", "value", "dropped", "nothing", "threw"}]
  /\ response \in [Calls -> {"none", "value", "nothing", "threw"}]
  /\ status \in [Calls -> {"none", "OK", "INVALID_ARGUMENT", "INTERNAL"}]
  /\ lost \subseteq Calls
  /\ client \in [Calls -> {"waiting", "value", "nothing", "threw"}]

(* Every call has been made: its request arrives at any later time.  The   *)
(* client waits without a deadline.                                        *)
CallInit ==
  /\ request \in Asked
  /\ reactor = [c \in Calls |-> "none"]
  /\ work = [c \in Calls |-> "none"]
  /\ response = [c \in Calls |-> "none"]
  /\ status = [c \in Calls |-> "none"]
  /\ lost = {}
  /\ client = [c \in Calls |-> "waiting"]

-----------------------------------------------------------------------------
(* The client.                                                             *)

(* What the caller sees of a call that did not succeed.                    *)
Failure(kind) == IF kind = "Write" THEN "threw" ELSE "nothing"

RpcReturns(c, ok) ==
  /\ client[c] = "waiting"
  /\ client' = [client EXCEPT ![c] =
                  IF ok /\ response[c] = "value" THEN "value"
                  ELSE Failure(request[c].kind)]

(* The status has arrived, or the connection is lost before it did.        *)
RpcEnds(c) ==
  /\ \/ status[c] # "none" /\ c \notin lost /\ RpcReturns(c, status[c] = "OK")
     \/ c \in lost /\ RpcReturns(c, FALSE)
  /\ UNCHANGED <<reactor, work, response, status, lost>>

ConnectionLost(c) ==
  /\ client[c] = "waiting" /\ c \in CanLose \ lost
  /\ lost' = lost \cup {c}
  /\ UNCHANGED <<reactor, work, response, status, client>>

-----------------------------------------------------------------------------
(* The reactor.                                                            *)

FinishWith(c, s) ==
  /\ reactor' = [reactor EXCEPT ![c] = "finished"]
  /\ status' = [status EXCEPT ![c] = s]

(* The constructor, and StartProcessing up to ResolveStore.                *)
StartProcessing(c) ==
  /\ reactor[c] = "none"
  /\ IF request[c].valid
     THEN /\ reactor' = [reactor EXCEPT ![c] = "resolving"]
          /\ resolving' = [resolving EXCEPT ![c] = "shared"]
          /\ UNCHANGED status
     ELSE FinishWith(c, "INVALID_ARGUMENT") /\ UNCHANGED resolving
  /\ UNCHANGED <<accountConfigCache, stores, owner, store, work, response,
                 lost, client>>

(* A request that never got to the server with its connection.             *)
NeverArrives(c) ==
  /\ c \in lost /\ reactor[c] = "none"
  /\ reactor' = [reactor EXCEPT ![c] = "deleted"]
  /\ UNCHANGED <<work, response, status, lost, client>>

(* StartProcessing after ResolveStore: the thread is detached.             *)
StoreResolved(c) ==
  /\ reactor[c] = "resolving" /\ resolving[c] = "returned"
  /\ IF store[c] = NoStore
     THEN /\ response' = [response EXCEPT ![c] = "threw"]
          /\ FinishWith(c, "INTERNAL")
     ELSE /\ reactor' = [reactor EXCEPT ![c] = "working"]
          /\ UNCHANGED <<response, status>>
  /\ UNCHANGED <<work, lost, client>>

(* Mutant: an exception is caught inside, and success is reported.         *)
SetSuccess(outcome) == "value"

(* What the thread puts into the response: it cannot tell a version that   *)
(* was dropped from one that was stored.                                   *)
SetResponse(outcome) == IF outcome = "dropped" THEN "value" ELSE outcome

(* The thread's WriteAsync, Lookup or ReadAsync ends; the response is      *)
(* filled in, and seen by nobody before Finish.                            *)
StorageAnswers(c) ==
  /\ reactor[c] = "working"
  /\ \E outcome \in Outcomes(request[c].kind) :
       /\ work' = [work EXCEPT ![c] = outcome]
       /\ response' = [response EXCEPT ![c] = SetResponse(outcome)]
       /\ FinishWith(c, IF SetResponse(outcome) = "threw" THEN "INTERNAL"
                        ELSE "OK")
  /\ UNCHANGED <<lost, client>>

OnDone(c) ==
  /\ reactor[c] = "finished"
  /\ reactor' = [reactor EXCEPT ![c] = "deleted"]
  /\ UNCHANGED <<work, response, status, lost, client>>

-----------------------------------------------------------------------------
Server(c) ==
  \/ NeverArrives(c) \/ StoreResolved(c) \/ StorageAnswers(c) \/ OnDone(c)

Serve(c) ==
  \/ Server(c) /\ UNCHANGED <<published, changes, request, resolverVars>>
  \/ StartProcessing(c) /\ UNCHANGED <<published, changes, request>>
  \/ ResolveStore(c) /\ UNCHANGED <<request, callVars>>

Init == ResolverInit /\ CallInit

Next ==
  \/ \E c \in Calls :
       \/ RpcEnds(c) /\ UNCHANGED <<published, changes, request, resolverVars>>
       \/ ConnectionLost(c)
            /\ UNCHANGED <<published, changes, request, resolverVars>>
       \/ Serve(c)
  \/ Republish /\ UNCHANGED <<request, callVars>>

Spec == Init /\ [][Next]_vars

(* The server's threads run, storage and the configuration store answer,   *)
(* and so does the network, or it loses the connection.                    *)
Fairness ==
  \A c \in Calls :
    /\ WF_vars(RpcEnds(c)
                /\ UNCHANGED <<published, changes, request, resolverVars>>)
    /\ WF_vars(Serve(c))

FairSpec == Spec /\ Fairness

-----------------------------------------------------------------------------
(* Properties.                                                             *)

(* Two calls for the same resource and container are served by the same    *)
(* store object, however their first lookups interleave: a second one      *)
(* would have connections and credentials of its own, and the first would  *)
(* live on only with the calls that hold it.                               *)
OneStorePerKey ==
  \A c, d \in Calls :
    /\ resolving[c] = "returned" /\ store[c] # NoStore
    /\ resolving[d] = "returned" /\ store[d] # NoStore
    /\ GetStoreKey(c) = GetStoreKey(d)
    => store[c] = store[d]

(* All containers of a resource are served from one account by this        *)
(* process, also when the published configuration changes in between.      *)
OneAccountPerResource ==
  \A k, l \in Keys :
    stores[k] # NoStore /\ stores[l] # NoStore /\ k[1] = l[1]
    => stores[k].account = stores[l].account

(* A success that a caller is told of is that of this very call, on the    *)
(* store of the key it named: no exception, unresolved store, missing      *)
(* field, lost connection or other call's answer becomes one.  What a      *)
(* lookup or a read returns was found; of a write, success = true says     *)
(* only that it did not throw, and its version may have been dropped.      *)
SuccessIsReal ==
  \A c \in Calls :
    client[c] = "value" =>
      /\ store[c] # NoStore /\ store[c] = stores[GetStoreKey(c)]
      /\ work[c] \in
           (IF request[c].kind = "Write" THEN {"value", "dropped"} ELSE {"value"})

(* Every call returns to its caller and its reactor goes away, whoever     *)
(* holds the lock of the map and whatever fails or is lost.                *)
CallsEnd ==
  <>(\A c \in Calls : client[c] # "waiting" /\ reactor[c] = "deleted")

=============================================================================
