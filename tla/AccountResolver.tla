--------------------------- MODULE AccountResolver ---------------------------
(***************************************************************************)
(* StorageDatabaseResolver: from the resource and container a call names   *)
(* to the store that serves it.  Stores are kept for good in stores_, which *)
(* is read under a shared lock and filled under the exclusive lock of      *)
(* storesMutex_; the account of a resource comes from the configuration    *)
(* store, a blob that its owner may replace at any time, and is kept for   *)
(* good too.  InitializeConfigStoreClient ran before the server started.   *)
(***************************************************************************)
EXTENDS Naturals

CONSTANTS Calls, Resources, Containers, Accounts,
          NoRegion,   \* a configuration with no account for this region
          Missing,    \* no configuration: not found, not parsed, no answer
          NoStore,    \* nullptr
          NoCall,
          MaxChanges  \* bound on the changes of published configurations

VARIABLES published,          \* the configuration store
          changes,            \* how often it has changed
          accountConfigCache, \* what is cached, or Missing
          stores,             \* stores_
          owner,              \* who holds storesMutex_ exclusively
          request,            \* what each call asks for
          resolving,          \* where each call is in ResolveStore
          store               \* the account of the new store, and then the
                              \* store ResolveStore returned

Keys == Resources \X Containers
Configs == Accounts \cup {NoRegion}

(* A store is told from another by the call that created it.               *)
Stores == [key : Keys, account : Accounts, by : Calls]

ASSUME ResolverAssumption ==
  /\ NoCall \notin Calls
  /\ NoStore \notin Stores \cup Accounts
  /\ Missing \notin Configs
  /\ MaxChanges \in Nat

resolverVars == <<accountConfigCache, stores, owner, resolving, store>>

ResolverTypeOK ==
  /\ published \in [Resources -> Configs] /\ changes \in 0 .. MaxChanges
  /\ accountConfigCache \in [Resources -> Configs \cup {Missing}]
  /\ stores \in [Keys -> Stores \cup {NoStore}]
  /\ owner \in Calls \cup {NoCall}
  /\ resolving \in [Calls -> {"no", "shared", "exclusive", "fetching",
                              "creating", "returned"}]
  /\ store \in [Calls -> Stores \cup Accounts \cup {NoStore}]

ResolverInit ==
  /\ published \in [Resources -> Configs] /\ changes = 0
  /\ accountConfigCache = [r \in Resources |-> Missing]
  /\ stores = [k \in Keys |-> NoStore]
  /\ owner = NoCall
  /\ resolving = [c \in Calls |-> "no"]
  /\ store = [c \in Calls |-> NoStore]

GetStoreKey(c) == <<request[c].resource, request[c].container>>

(* Somebody publishes another configuration.                               *)
Republish ==
  /\ changes < MaxChanges
  /\ changes' = changes + 1
  /\ \E r \in Resources, config \in Configs :
       published' = [published EXCEPT ![r] = config]
  /\ UNCHANGED resolverVars

-----------------------------------------------------------------------------
(* ResolveStore returns s, and gives up the lock when c holds it.          *)
Returns(c, s) ==
  /\ resolving' = [resolving EXCEPT ![c] = "returned"]
  /\ store' = [store EXCEPT ![c] = s]
  /\ owner' = IF owner = c THEN NoCall ELSE owner

(* The fast path, under the shared lock.                                   *)
FastPath(c) ==
  /\ resolving[c] = "shared" /\ owner = NoCall
  /\ IF stores[GetStoreKey(c)] # NoStore
     THEN Returns(c, stores[GetStoreKey(c)])
     ELSE /\ resolving' = [resolving EXCEPT ![c] = "exclusive"]
          /\ UNCHANGED <<owner, store>>
  /\ UNCHANGED <<published, changes, accountConfigCache, stores>>

(* Mutant: no second look at the map.                                      *)
StillMissing(c) == TRUE

(* The double check: nobody created the store since the fast path.         *)
NotCreated(c) == stores[GetStoreKey(c)] = NoStore

Lock(c) ==
  /\ resolving[c] = "exclusive" /\ owner = NoCall
  /\ IF NotCreated(c)
     THEN /\ owner' = c
          /\ resolving' = [resolving EXCEPT ![c] = "fetching"]
          /\ UNCHANGED store
     ELSE Returns(c, stores[GetStoreKey(c)])
  /\ UNCHANGED <<published, changes, accountConfigCache, stores>>

(* Mutant: an account that was not found is used.                          *)
CreatesAnyway(c, config) ==
  /\ resolving' = [resolving EXCEPT ![c] = "creating"]
  /\ store' = [store EXCEPT ![c] = config]
  /\ UNCHANGED owner

(* GetStorageAccountForCurrentRegion of the configuration of c's resource. *)
CreatesOrFails(c, config) ==
  IF config \in Accounts
  THEN /\ resolving' = [resolving EXCEPT ![c] = "creating"]
       /\ store' = [store EXCEPT ![c] = config]
       /\ UNCHANGED owner
  ELSE Returns(c, NoStore)

(* Mutant: the configuration is not cached.                                *)
FetchesAnew(c) ==
  /\ resolving[c] = "fetching"
  /\ \E config \in {published[request[c].resource], Missing} :
       CreatesOrFails(c, config)
  /\ UNCHANGED <<published, changes, stores, accountConfigCache>>

(* FetchAccountConfig: the cached configuration, or a download, which may  *)
(* fail; only what was downloaded and parsed is cached.                    *)
FetchAccountConfig(c) ==
  LET r == request[c].resource
  IN /\ resolving[c] = "fetching"
     /\ IF accountConfigCache[r] # Missing
        THEN /\ CreatesOrFails(c, accountConfigCache[r])
             /\ UNCHANGED accountConfigCache
        ELSE \E config \in {published[r], Missing} :
               /\ accountConfigCache' =
                    [accountConfigCache EXCEPT ![r] = config]
               /\ CreatesOrFails(c, config)
     /\ UNCHANGED <<published, changes, stores>>

Created(c) ==
  LET new == [key |-> GetStoreKey(c), account |-> store[c], by |-> c]
  IN /\ stores' = [stores EXCEPT ![GetStoreKey(c)] = new]
     /\ Returns(c, new)

(* Mutant: a store that cannot be created leaves the map locked.           *)
CreateStoreLocked(c) ==
  /\ resolving[c] = "creating"
  /\ \/ Created(c)
     \/ /\ resolving' = [resolving EXCEPT ![c] = "returned"]
        /\ store' = [store EXCEPT ![c] = NoStore]
        /\ UNCHANGED <<stores, owner>>
  /\ UNCHANGED <<published, changes, accountConfigCache>>

(* CreateStore: the new store is put into the map, unless its Initialize   *)
(* fails.                                                                  *)
CreateStore(c) ==
  /\ resolving[c] = "creating"
  /\ \/ Created(c)
     \/ Returns(c, NoStore) /\ UNCHANGED stores
  /\ UNCHANGED <<published, changes, accountConfigCache>>

(* ResolveStore, on the thread of c's callback.                            *)
ResolveStore(c) ==
  \/ FastPath(c) \/ Lock(c) \/ FetchAccountConfig(c) \/ CreateStore(c)

=============================================================================
