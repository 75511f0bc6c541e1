------------------------- MODULE UnaryService_proofs -------------------------
(***************************************************************************)
(* Theorems about UnaryService, for any number of calls, resources,        *)
(* containers and accounts and any changes of the configurations.          *)
(***************************************************************************)
EXTENDS UnaryService, TLAPS

(* The call that is past the double check is the one that holds the lock.  *)
LockInv ==
  \A c \in Calls : owner = c <=> resolving[c] \in {"fetching", "creating"}

(* A store in the map is of the account that is cached for its resource.   *)
StoresInv ==
  \A k \in Keys :
    stores[k] # NoStore => /\ stores[k].account \in Accounts
                           /\ accountConfigCache[k[1]] = stores[k].account

(* What the holder found stays true while it has the lock, and a store     *)
(* that was returned is the one in the map.                                *)
ResolvingInv ==
  \A c \in Calls :
    /\ resolving[c] \in {"fetching", "creating"} =>
         stores[GetStoreKey(c)] = NoStore
    /\ resolving[c] = "creating" =>
         store[c] \in Accounts
         /\ accountConfigCache[request[c].resource] = store[c]
    /\ resolving[c] = "returned" /\ store[c] # NoStore =>
         store[c] = stores[GetStoreKey(c)]

(* What the reactor of a call has got to.                                  *)
ReactorInv ==
  \A c \in Calls :
    /\ reactor[c] = "none" => resolving[c] = "no"
    /\ reactor[c] \in {"none", "resolving", "working"} => status[c] = "none"
    /\ reactor[c] = "working" \/ status[c] = "OK" =>
         resolving[c] = "returned" /\ store[c] # NoStore
    /\ status[c] = "OK" => /\ work[c] \in Outcomes(request[c].kind)
                           /\ response[c] = SetResponse(work[c])
                           /\ response[c] # "threw"
    /\ client[c] = "value" => status[c] = "OK" /\ response[c] = "value"

ServiceInv == TypeOK /\ LockInv /\ StoresInv /\ ResolvingInv /\ ReactorInv

-----------------------------------------------------------------------------
(* Each step of the resolver keeps the invariant.                          *)

LEMMA CallTypes ==
  ASSUME TypeOK, NEW c \in Calls
  PROVE  /\ request[c].resource \in Resources
         /\ request[c].container \in Containers
         /\ request[c].kind \in Kinds
         /\ GetStoreKey(c) \in Keys
         /\ GetStoreKey(c)[1] = request[c].resource
  BY CallAssumption DEF TypeOK, GetStoreKey, Keys

LEMMA FastPathOK ==
  ASSUME ServiceInv, NEW c \in Calls, FastPath(c), UNCHANGED <<request, callVars>>
  PROVE  ServiceInv'
  <1> USE DEF ServiceInv, callVars
  <1>1. GetStoreKey(c) \in Keys
    BY CallTypes
  <1>2. \A d \in Calls : GetStoreKey(d)' = GetStoreKey(d)
    BY DEF GetStoreKey
  <1>3. TypeOK'
    BY <1>1 DEF FastPath, Returns, TypeOK, ResolverTypeOK
  <1>4. /\ stores' = stores /\ accountConfigCache' = accountConfigCache
        /\ owner' = owner
        /\ resolving[c] = "shared"
        /\ \A d \in Calls \ {c} : resolving'[d] = resolving[d] /\ store'[d] = store[d]
        /\ \/ resolving'[c] = "returned" /\ store'[c] = stores[GetStoreKey(c)]
           \/ resolving'[c] = "exclusive"
    BY ResolverAssumption DEF FastPath, Returns, TypeOK, ResolverTypeOK
  <1>5. LockInv' /\ StoresInv' /\ ResolvingInv' /\ ReactorInv'
    BY <1>2, <1>4 DEF LockInv, StoresInv, ResolvingInv, ReactorInv
  <1> QED
    BY <1>3, <1>5

LEMMA LockOK ==
  ASSUME ServiceInv, NEW c \in Calls, Lock(c), UNCHANGED <<request, callVars>>
  PROVE  ServiceInv'
  <1> USE DEF ServiceInv, callVars
  <1>1. GetStoreKey(c) \in Keys
    BY CallTypes
  <1>2. \A d \in Calls : GetStoreKey(d)' = GetStoreKey(d)
    BY DEF GetStoreKey
  <1>3. TypeOK'
    BY <1>1 DEF Lock, Returns, TypeOK, ResolverTypeOK
  <1>4. /\ stores' = stores /\ accountConfigCache' = accountConfigCache
        /\ resolving[c] = "exclusive" /\ owner = NoCall
        /\ \A d \in Calls \ {c} : resolving'[d] = resolving[d] /\ store'[d] = store[d]
        /\ \/ /\ resolving'[c] = "returned" /\ owner' = NoCall
              /\ store'[c] = stores[GetStoreKey(c)]
           \/ /\ resolving'[c] = "fetching" /\ owner' = c
              /\ stores[GetStoreKey(c)] = NoStore
    BY ResolverAssumption DEF Lock, NotCreated, Returns, TypeOK, ResolverTypeOK
  <1>5. LockInv' /\ StoresInv' /\ ResolvingInv' /\ ReactorInv'
    BY <1>2, <1>4, ResolverAssumption
    DEF LockInv, StoresInv, ResolvingInv, ReactorInv
  <1> QED
    BY <1>3, <1>5

(* Only the holder of the lock fetches, and the configuration of a         *)
(* resource that has a store is not fetched again.                         *)
LEMMA FetchAccountConfigOK ==
  ASSUME ServiceInv, NEW c \in Calls, FetchAccountConfig(c),
         UNCHANGED <<request, callVars>>
  PROVE  ServiceInv'
  <1> USE DEF ServiceInv, callVars
  <1> DEFINE r == request[c].resource
  <1>1. r \in Resources
    BY CallTypes
  <1>2. \A d \in Calls : GetStoreKey(d)' = GetStoreKey(d)
    BY DEF GetStoreKey
  <1>3. resolving[c] = "fetching" /\ owner = c
    BY DEF FetchAccountConfig, LockInv
  <1>4. PICK config \in Configs \cup {Missing} :
          /\ CreatesOrFails(c, config)
          /\ accountConfigCache' = [accountConfigCache EXCEPT ![r] = config]
          /\ accountConfigCache[r] \in {Missing, config}
    BY <1>1 DEF FetchAccountConfig, TypeOK, ResolverTypeOK
  <1>5. /\ \A d \in Calls \ {c} : resolving'[d] = resolving[d] /\ store'[d] = store[d]
        /\ \/ /\ resolving'[c] = "returned" /\ owner' = NoCall
              /\ store'[c] = NoStore
           \/ /\ resolving'[c] = "creating" /\ owner' = c
              /\ config \in Accounts /\ store'[c] = config
    BY <1>3, <1>4 DEF CreatesOrFails, Returns, TypeOK, ResolverTypeOK
  <1>6. stores' = stores /\ published' = published /\ changes' = changes
    BY DEF FetchAccountConfig
  <1>7. TypeOK'
    BY <1>1, <1>4, <1>6 DEF CreatesOrFails, Returns, TypeOK, ResolverTypeOK
  <1>8. \A q \in Resources :
          accountConfigCache[q] \in Accounts =>
            accountConfigCache'[q] = accountConfigCache[q]
    BY <1>1, <1>4, ResolverAssumption DEF Configs, TypeOK, ResolverTypeOK
  <1>9. LockInv'
    BY <1>3, <1>5, ResolverAssumption DEF LockInv
  <1>10. StoresInv'
    BY <1>6, <1>8 DEF StoresInv, Keys
  <1>11. ResolvingInv'
    <2>1. accountConfigCache'[r] = config
      BY <1>1, <1>4 DEF TypeOK, ResolverTypeOK
    <2>2. \A d \in Calls \ {c} : resolving[d] \notin {"fetching", "creating"}
      BY <1>3 DEF LockInv
    <2> QED
      BY <1>2, <1>3, <1>5, <1>6, <2>1, <2>2 DEF ResolvingInv
  <1>12. ReactorInv'
    BY <1>3, <1>5 DEF ReactorInv
  <1> QED
    BY <1>7, <1>9, <1>10, <1>11, <1>12

LEMMA CreateStoreOK ==
  ASSUME ServiceInv, NEW c \in Calls, CreateStore(c),
         UNCHANGED <<request, callVars>>
  PROVE  ServiceInv'
  <1> USE DEF ServiceInv, callVars
  <1> DEFINE k == GetStoreKey(c)
  <1>1. k \in Keys /\ k[1] = request[c].resource
    BY CallTypes
  <1>2. \A d \in Calls : GetStoreKey(d)' = GetStoreKey(d)
    BY DEF GetStoreKey
  <1>3. /\ resolving[c] = "creating" /\ owner = c
        /\ store[c] \in Accounts /\ stores[k] = NoStore
        /\ accountConfigCache[k[1]] = store[c]
    BY <1>1 DEF CreateStore, LockInv, ResolvingInv
  <1>4. PICK s \in Stores \cup {NoStore} :
          /\ Returns(c, s)
          /\ stores' = [stores EXCEPT ![k] = s]
          /\ s # NoStore => s.account = store[c]
    <2> DEFINE new == [key |-> k, account |-> store[c], by |-> c]
    <2>1. CASE Created(c)
      <3>1. new \in Stores /\ new.account = store[c]
        BY <1>1, <1>3 DEF Stores
      <3>2. Returns(c, new) /\ stores' = [stores EXCEPT ![k] = new]
        BY <2>1 DEF Created
      <3> HIDE DEF new
      <3> QED
        BY <3>1, <3>2
    <2>2. CASE Returns(c, NoStore) /\ UNCHANGED stores
      BY <1>1, <1>3, <2>2 DEF TypeOK, ResolverTypeOK
    <2> QED
      BY <2>1, <2>2 DEF CreateStore
  <1>5. /\ resolving'[c] = "returned" /\ store'[c] = s /\ stores'[k] = s
        /\ owner' = NoCall
        /\ \A d \in Calls \ {c} : resolving'[d] = resolving[d] /\ store'[d] = store[d]
        /\ \A l \in Keys \ {k} : stores'[l] = stores[l]
    BY <1>1, <1>3, <1>4 DEF Returns, TypeOK, ResolverTypeOK
  <1>6. UNCHANGED <<published, changes, accountConfigCache>>
    BY DEF CreateStore
  <1>7. TypeOK'
    BY <1>1, <1>4, <1>6 DEF Returns, TypeOK, ResolverTypeOK
  <1>8. LockInv'
    BY <1>3, <1>5, ResolverAssumption DEF LockInv
  <1>9. StoresInv'
    BY <1>3, <1>4, <1>5, <1>6 DEF StoresInv
  <1>10. ResolvingInv'
    <2>1. \A d \in Calls : GetStoreKey(d) \in Keys
      BY CallTypes
    <2>2. \A d \in Calls \ {c} : resolving[d] \notin {"fetching", "creating"}
      BY <1>3 DEF LockInv
    <2> QED
      BY <1>2, <1>3, <1>5, <2>1, <2>2 DEF ResolvingInv
  <1>11. ReactorInv'
    BY <1>3, <1>5 DEF ReactorInv
  <1> QED
    BY <1>7, <1>8, <1>9, <1>10, <1>11

-----------------------------------------------------------------------------
(* The steps of the client, the reactor and the owner of the configuration *)
(* leave the resolver alone, but for the one that calls ResolveStore.      *)

LEMMA ResolverKept ==
  ASSUME ServiceInv, UNCHANGED <<request, resolverVars>>
  PROVE  LockInv' /\ StoresInv' /\ ResolvingInv'
  BY DEF ServiceInv, resolverVars, LockInv, StoresInv, ResolvingInv, GetStoreKey

LEMMA StartProcessingOK ==
  ASSUME ServiceInv, NEW c \in Calls, StartProcessing(c),
         UNCHANGED <<published, changes, request>>
  PROVE  ServiceInv'
  <1> USE DEF ServiceInv
  <1>1. TypeOK'
    BY DEF StartProcessing, FinishWith, TypeOK, ResolverTypeOK
  <1>2. /\ UNCHANGED <<accountConfigCache, stores, owner, store, work,
                       response, client>>
        /\ reactor[c] = "none" /\ resolving[c] = "no"
        /\ \A d \in Calls \ {c} : /\ resolving'[d] = resolving[d]
                                  /\ reactor'[d] = reactor[d]
                                  /\ status'[d] = status[d]
        /\ \/ /\ resolving'[c] = "shared" /\ reactor'[c] = "resolving"
              /\ status' = status
           \/ /\ resolving' = resolving /\ reactor'[c] = "finished"
              /\ status'[c] = "INVALID_ARGUMENT"
    BY DEF StartProcessing, FinishWith, ReactorInv, TypeOK, ResolverTypeOK
  <1>3. LockInv' /\ StoresInv'
    BY <1>2 DEF LockInv, StoresInv
  <1>4. ResolvingInv' /\ ReactorInv'
    BY <1>2 DEF ResolvingInv, ReactorInv, GetStoreKey
  <1> QED
    BY <1>1, <1>3, <1>4

LEMMA ServerOK ==
  ASSUME ServiceInv, NEW c \in Calls, Server(c),
         UNCHANGED <<published, changes, request, resolverVars>>
  PROVE  ServiceInv'
  <1> USE DEF ServiceInv, resolverVars
  <1>1. CASE NeverArrives(c)
    <2>1. TypeOK' /\ ReactorInv'
      BY <1>1 DEF NeverArrives, TypeOK, ResolverTypeOK, ReactorInv
    <2> QED
      BY <2>1, ResolverKept
  <1>2. CASE StoreResolved(c)
    <2>1. TypeOK'
      BY <1>2 DEF StoreResolved, FinishWith, TypeOK, ResolverTypeOK
    <2>2. ReactorInv'
      BY <1>2 DEF StoreResolved, FinishWith, TypeOK, ReactorInv
    <2> QED
      BY <2>1, <2>2, ResolverKept
  <1>3. CASE StorageAnswers(c)
    <2> DEFINE Reply(outcome) == SetResponse(outcome)
    <2>1. PICK outcome \in Outcomes(request[c].kind) :
            /\ work' = [work EXCEPT ![c] = outcome]
            /\ response' = [response EXCEPT ![c] = Reply(outcome)]
            /\ FinishWith(c, IF Reply(outcome) = "threw" THEN "INTERNAL" ELSE "OK")
      BY <1>3 DEF StorageAnswers
    <2>2. /\ outcome \in {"value", "dropped", "nothing", "threw"}
          /\ Reply(outcome) \in {"value", "nothing", "threw"}
      BY DEF Outcomes, SetResponse
    <2>3. reactor[c] = "working" /\ UNCHANGED <<lost, client>>
      BY <1>3 DEF StorageAnswers
    <2>4. TypeOK'
      BY <2>1, <2>2, <2>3 DEF FinishWith, TypeOK, ResolverTypeOK
    <2>5. ReactorInv'
      <3>1. UNCHANGED <<request, resolving, store, client>>
        BY <2>3
      <3>2. /\ reactor'[c] = "finished" /\ work'[c] = outcome
            /\ response'[c] = SetResponse(outcome)
            /\ status'[c] = "OK" => response'[c] # "threw"
            /\ \A d \in Calls \ {c} :
                 /\ reactor'[d] = reactor[d] /\ work'[d] = work[d]
                 /\ response'[d] = response[d] /\ status'[d] = status[d]
        BY <2>1 DEF FinishWith, TypeOK
      <3>3. status[c] = "none"
        BY <2>3 DEF ReactorInv
      <3>4. outcome \in Outcomes(request[c].kind)
        BY <2>1
      <3> QED
        BY <2>3, <3>1, <3>2, <3>3, <3>4 DEF ReactorInv
    <2> QED
      BY <2>4, <2>5, ResolverKept
  <1>4. CASE OnDone(c)
    <2>1. TypeOK' /\ ReactorInv'
      BY <1>4 DEF OnDone, TypeOK, ResolverTypeOK, ReactorInv
    <2> QED
      BY <2>1, ResolverKept
  <1> QED
    BY <1>1, <1>2, <1>3, <1>4 DEF Server

LEMMA ClientOK ==
  ASSUME ServiceInv, NEW c \in Calls, RpcEnds(c) \/ ConnectionLost(c),
         UNCHANGED <<published, changes, request, resolverVars>>
  PROVE  ServiceInv'
  <1> USE DEF ServiceInv, resolverVars
  <1>1. CASE RpcEnds(c)
    <2>1. /\ client'[c] = "value" => status[c] = "OK" /\ response[c] = "value"
          /\ \A d \in Calls \ {c} : client'[d] = client[d]
          /\ client' \in [Calls -> {"waiting", "value", "nothing", "threw"}]
          /\ UNCHANGED <<reactor, work, response, status, lost>>
      BY <1>1 DEF RpcEnds, RpcReturns, Failure, TypeOK
    <2>2. TypeOK'
      BY <2>1 DEF TypeOK, ResolverTypeOK
    <2>3. ReactorInv'
      BY <2>1 DEF ReactorInv
    <2> QED
      BY <2>2, <2>3, ResolverKept
  <1>2. CASE ConnectionLost(c)
    <2>1. TypeOK' /\ ReactorInv'
      BY <1>2 DEF ConnectionLost, TypeOK, ResolverTypeOK, ReactorInv
    <2> QED
      BY <2>1, ResolverKept
  <1> QED
    BY <1>1, <1>2

LEMMA RepublishOK ==
  ASSUME ServiceInv, Republish, UNCHANGED <<request, callVars>>
  PROVE  ServiceInv'
  <1> USE DEF ServiceInv, callVars
  <1>1. TypeOK'
    BY ResolverAssumption DEF Republish, resolverVars, TypeOK, ResolverTypeOK
  <1>2. ReactorInv'
    BY DEF Republish, resolverVars, ReactorInv
  <1> QED
    BY <1>1, <1>2, ResolverKept DEF Republish

LEMMA StutterOK ==
  ASSUME ServiceInv, UNCHANGED vars
  PROVE  ServiceInv'
  <1>1. TypeOK' /\ ReactorInv'
    BY DEF ServiceInv, vars, resolverVars, callVars, TypeOK, ResolverTypeOK,
           ReactorInv
  <1> QED
    BY <1>1, ResolverKept DEF ServiceInv, vars

LEMMA InitOK == Init => ServiceInv
  <1> SUFFICES ASSUME Init PROVE ServiceInv
    OBVIOUS
  <1> USE DEF Init, ResolverInit, CallInit
  <1>1. TypeOK
    BY ResolverAssumption DEF TypeOK, ResolverTypeOK
  <1>2. LockInv /\ StoresInv /\ ResolvingInv /\ ReactorInv
    BY ResolverAssumption DEF LockInv, StoresInv, ResolvingInv, ReactorInv, Keys
  <1> QED
    BY <1>1, <1>2 DEF ServiceInv

LEMMA NextOK == ServiceInv /\ [Next]_vars => ServiceInv'
  <1> SUFFICES ASSUME ServiceInv, [Next]_vars PROVE ServiceInv'
    OBVIOUS
  <1>1. ASSUME NEW c \in Calls, Serve(c) PROVE ServiceInv'
    BY <1>1, ServerOK, StartProcessingOK, FastPathOK, LockOK,
       FetchAccountConfigOK, CreateStoreOK DEF Serve, ResolveStore
  <1> QED
    BY <1>1, ClientOK, RepublishOK, StutterOK DEF Next

-----------------------------------------------------------------------------
(* The theorems.                                                           *)

(* The invariant that explains the rest: who holds the lock of the map,    *)
(* what it has established there, and which account a store is of.         *)
THEOREM ServiceInvariant == Spec => []ServiceInv
  <1> QED
    BY InitOK, NextOK, PTL DEF Spec

(* Every variable keeps its type.                                          *)
THEOREM TypeCorrect == Spec => []TypeOK
  <1>1. ServiceInv => TypeOK
    BY DEF ServiceInv
  <1> QED
    BY <1>1, ServiceInvariant, PTL

(* The double-checked creation hands out one store per resource and        *)
(* container, however many calls miss it at the same time.                 *)
THEOREM StoresAreShared == Spec => []OneStorePerKey
  <1>1. ServiceInv => OneStorePerKey
    BY DEF ServiceInv, ResolvingInv, OneStorePerKey
  <1> QED
    BY <1>1, ServiceInvariant, PTL

(* The stores of a resource are of one account, however often its          *)
(* configuration is replaced between their creations.                      *)
THEOREM AccountsAreStable == Spec => []OneAccountPerResource
  <1>1. ServiceInv => OneAccountPerResource
    BY DEF ServiceInv, StoresInv, OneAccountPerResource
  <1> QED
    BY <1>1, ServiceInvariant, PTL

(* No answer but this call's own, from the store of its key, makes its     *)
(* caller see a success: a lookup or a read found what it returns, and a   *)
(* write did not throw.                                                    *)
THEOREM SuccessesAreReal == Spec => []SuccessIsReal
  <1>1. ASSUME ServiceInv, NEW c \in Calls, client[c] = "value"
        PROVE  /\ store[c] # NoStore /\ store[c] = stores[GetStoreKey(c)]
               /\ work[c] \in (IF request[c].kind = "Write"
                               THEN {"value", "dropped"} ELSE {"value"})
    <2>1. status[c] = "OK" /\ response[c] = "value"
      BY <1>1 DEF ServiceInv, ReactorInv
    <2>2. /\ resolving[c] = "returned" /\ store[c] # NoStore
          /\ work[c] \in Outcomes(request[c].kind)
          /\ SetResponse(work[c]) = "value"
      BY <1>1, <2>1 DEF ServiceInv, ReactorInv
    <2>3. store[c] = stores[GetStoreKey(c)]
      BY <1>1, <2>2 DEF ServiceInv, ResolvingInv
    <2>4. work[c] \in {"value", "dropped"}
      BY <2>2 DEF SetResponse
    <2>5. work[c] = "dropped" => request[c].kind = "Write"
      BY <2>2 DEF Outcomes
    <2> QED
      BY <2>2, <2>3, <2>4, <2>5
  <1>2. ServiceInv => SuccessIsReal
    BY <1>1 DEF SuccessIsReal
  <1> QED
    BY <1>2, ServiceInvariant, PTL

=============================================================================
