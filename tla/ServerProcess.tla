---------------------------- MODULE ServerProcess ----------------------------
(***************************************************************************)
(* The server's process from main to its exit: configuration, start of the *)
(* gRPC server, SIGINT and SIGTERM, and the end.  In between it serves     *)
(* calls, each of which needs the store of its key: the first call for a   *)
(* key creates it, under the resolver's exclusive lock, and its Initialize *)
(* assigns the list of interfaces anew (MultiNic); every call may open a   *)
(* connection.  What the calls ask of a store is the subject of other      *)
(* modules (UnaryService, KVStoreWrite).                                   *)
(*                                                                         *)
(* The signal handler runs on the thread of main, which the kernel prefers. *)
(* gRPC is external: Shutdown refuses new calls, and Wait returns when it  *)
(* was called and the reactors of all others are done.                     *)
(***************************************************************************)
EXTENDS MultiNic, ServiceConfig

CONSTANTS Keys,      \* resource and container, as the resolver's map has them
          KeyOf,     \* the key each call asks for; a call is named after the
                     \* connection it may open
          Files,     \* configuration files
          Envs,      \* environments: functions from Fields to strings
          NoCall,
          MaxSignals, \* bound on the signals
          Opening     \* bound: the calls that get as far as a connection

ASSUME ServerAssumption ==
  /\ KeyOf \in [Conns -> Keys]
  /\ NoCall \notin Conns
  /\ MaxSignals \in Nat
  /\ Opening \subseteq Conns
  /\ Files \subseteq Seq([key : STRING, value : {NotString} \cup STRING])

VARIABLES main,           \* where main is
          config,         \* what it is given and what it makes of it
          server,         \* the gRPC server
          g_server,       \* whether g_server points to it
          signals,        \* how many signals were delivered
          enableMultiNic, \* no --disable-multi-nic
          call,           \* [Conns -> where the call is]
          stores,         \* keys of stores_
          nicStores,      \* those whose transport has the callback
          creating        \* the call that holds storesMutex_ exclusively

processVars == <<main, config, server, g_server, signals>>
storeVars == <<stores, nicStores, creating>>
vars == <<nicVars, processVars, enableMultiNic, call, storeVars>>

NoConfig == [file |-> <<>>, env |-> DefaultConfig, service |-> DefaultConfig]

InProgress(c) == call[c] \in {"resolving", "creating", "working"}

(* The type invariant.                                                     *)
ServerTypeOK ==
  /\ NicTypeOK
  /\ main \in {"start", "configured", "building", "built", "waiting", "exited"}
  /\ DOMAIN config = {"file", "env", "service"} /\ DOMAIN config.service = Fields
  /\ server \in {"none", "accepting", "shutdown"}
  /\ g_server \in BOOLEAN /\ signals \in 0 .. MaxSignals
  /\ enableMultiNic \in BOOLEAN
  /\ call \in [Conns -> {"none", "resolving", "creating", "working", "done"}]
  /\ nicStores \subseteq stores /\ stores \subseteq Keys
  /\ creating \in Conns \cup {NoCall}

Init ==
  /\ NicInit
  /\ main = "start"
  /\ \E f \in Files, e \in Envs :
       config = [file |-> f, env |-> e, service |-> DefaultConfig]
  /\ server = "none" /\ g_server = FALSE /\ signals = 0
  /\ enableMultiNic \in BOOLEAN
  /\ call = [c \in Conns |-> "none"]
  /\ stores = {} /\ nicStores = {} /\ creating = NoCall

-----------------------------------------------------------------------------
(* main and RunServer.                                                     *)

MainGoes(label) == main' = label

(* An invalid configuration ends the process with code 1; every other way  *)
(* out ends it with code 0.                                                *)
Configure ==
  /\ main = "start"
  /\ config' = [config EXCEPT !.service =
                  ServiceConfigFrom(config.file, config.env)]
  /\ MainGoes(IF IsValid(config'.service) THEN "configured" ELSE "exited")
  /\ UNCHANGED <<server, g_server, signals>>

(* The resolver takes the configuration over.  Its Initialize may fail.    *)
InitializeResolver ==
  /\ main = "configured"
  /\ MainGoes("building") \/ MainGoes("exited")
  /\ config' = NoConfig
  /\ UNCHANGED <<server, g_server, signals>>

(* From here on calls are accepted, though g_server is not yet set.        *)
BuildAndStart ==
  /\ main = "building"
  /\ \/ MainGoes("built") /\ server' = "accepting"
     \/ MainGoes("exited") /\ UNCHANGED server
  /\ UNCHANGED <<config, g_server, signals>>

SetServer ==
  /\ main = "built"
  /\ g_server' = TRUE
  /\ MainGoes("waiting")
  /\ UNCHANGED <<config, server, signals>>

(* What gRPC's Wait waits for.                                             *)
ShutDown == server = "shutdown" /\ \A c \in Conns : ~InProgress(c)

(* Wait returns; the service and the resolver are destroyed on the way out *)
(* of RunServer.                                                           *)
WaitReturns ==
  /\ main = "waiting" /\ ShutDown
  /\ MainGoes("exited")
  /\ UNCHANGED <<config, server, g_server, signals>>

Main ==
  \/ Configure \/ InitializeResolver \/ BuildAndStart \/ SetServer
  \/ WaitReturns

(* A signal that comes before g_server is set is lost.                     *)
SignalHandler ==
  /\ main # "exited" /\ signals < MaxSignals
  /\ signals' = signals + 1
  /\ server' = IF g_server THEN "shutdown" ELSE server
  /\ UNCHANGED <<main, config, g_server>>

-----------------------------------------------------------------------------
(* Calls.                                                                  *)

CallGoes(c, label) == call' = [call EXCEPT ![c] = label]

Arrive(c) ==
  /\ call[c] = "none" /\ server = "accepting"
  /\ CallGoes(c, "resolving")
  /\ UNCHANGED <<nicVars, storeVars>>

(* ResolveStore: the map has the store, or c is the one to create it, with *)
(* the lock held, unless the configuration or the account cannot be had.   *)
ResolveStore(c) ==
  /\ call[c] = "resolving" /\ creating = NoCall
  /\ \/ /\ KeyOf[c] \in stores
        /\ CallGoes(c, "working") /\ UNCHANGED <<nicVars, storeVars>>
     \/ /\ KeyOf[c] \notin stores
        /\ CallGoes(c, "done") /\ UNCHANGED <<nicVars, storeVars>>
     \/ /\ KeyOf[c] \notin stores
        /\ CallGoes(c, "creating")
        /\ creating' = c
        /\ IF enableMultiNic THEN StartAssign ELSE UNCHANGED nicVars
        /\ UNCHANGED <<stores, nicStores>>

(* Mutant: the new store is not put into the map.                          *)
StoreForgotten(c, interfaces) ==
  /\ nicStores' = IF interfaces THEN nicStores \cup {KeyOf[c]} ELSE nicStores
  /\ CallGoes(c, "working") /\ UNCHANGED stores

StoreCreated(c, interfaces) ==
  /\ stores' = stores \cup {KeyOf[c]}
  /\ nicStores' = IF interfaces THEN nicStores \cup {KeyOf[c]} ELSE nicStores
  /\ CallGoes(c, "working")

(* Initialize fails: there is no credential or no client.                  *)
CreationFailed(c) ==
  CallGoes(c, "done") /\ UNCHANGED <<stores, nicStores>>

(* Mutant: the lock is kept when the creation fails.                       *)
KeepsLock(c) ==
  creating' = IF call'[c] = "working" THEN NoCall ELSE creating

Unlocks(c) == creating' = NoCall

(* Initialize of the store ends: the list is there, and was looked at to   *)
(* set the transport's callback.                                           *)
CreateStore(c) ==
  /\ call[c] = "creating"
  /\ \/ /\ enableMultiNic
        /\ \E list \in NicLists :
             /\ EndAssign(list)
             /\ StoreCreated(c, list # <<>>) \/ CreationFailed(c)
     \/ /\ ~enableMultiNic
        /\ UNCHANGED nicVars
        /\ StoreCreated(c, FALSE) \/ CreationFailed(c)
  /\ Unlocks(c)

(* The request to the storage needs a connection.  If the transport of the *)
(* store has the callback, it goes through it.                             *)
OpenConnection(c) ==
  /\ call[c] = "working" /\ KeyOf[c] \in nicStores /\ c \in Opening
  /\ MultiNicCurlCallback(c) \/ MultiNicSocketCallback(c)
  /\ UNCHANGED <<call, storeVars>>

HasConnection(c) ==
  \/ opening[c] = "open"
  \/ opening[c] = "closed" /\ (KeyOf[c] \notin nicStores \/ c \notin Opening)

(* The storage answers, the reactor finishes, and OnDone deletes it.       *)
OnDone(c) ==
  /\ call[c] = "working" /\ HasConnection(c)
  /\ CallGoes(c, "done")
  /\ UNCHANGED <<nicVars, storeVars>>

Serve(c) ==
  ResolveStore(c) \/ CreateStore(c) \/ OpenConnection(c) \/ OnDone(c)

Next ==
  \/ Main /\ UNCHANGED <<nicVars, enableMultiNic, call, storeVars>>
  \/ SignalHandler /\ UNCHANGED <<nicVars, enableMultiNic, call, storeVars>>
  \/ \E c \in Conns :
       (Arrive(c) \/ Serve(c)) /\ UNCHANGED <<processVars, enableMultiNic>>

Spec == Init /\ [][Next]_vars

(* Threads run and sockets, storage and configuration answer, in time or   *)
(* with an error.                                                          *)
FairSpec ==
  /\ Spec
  /\ WF_vars(Main /\ UNCHANGED <<nicVars, enableMultiNic, call, storeVars>>)
  /\ \A c \in Conns :
       WF_vars(Serve(c) /\ UNCHANGED <<processVars, enableMultiNic>>)

-----------------------------------------------------------------------------
(* Properties.                                                             *)

(* A signal that finds g_server set ends the process, whatever the calls   *)
(* in progress wait for: each other, the lock of a store that cannot be    *)
(* created, or interfaces that cannot be bound.                            *)
SignalEndsServer == (server = "shutdown") ~> (main = "exited")

OwnValues(file, f) ==
  {file[i].value : i \in {j \in DOMAIN file : file[j].key = f}}

(* Each required field comes from the environment or, if it is not set     *)
(* there, from a file that has all required fields, none of them empty: a  *)
(* file with one missing contributes none of the others.  (The environment *)
(* may replace single fields of a complete file.  Of files whose values    *)
(* are strings: see ExtractStringValue.)                                   *)
ConfigFromOneSource ==
  main = "configured" /\ (\A f \in Fields : NotString \notin OwnValues(config.file, f))
    => \A f \in Required :
         IF config.env[f] # "" THEN config.service[f] = config.env[f]
         ELSE /\ config.service[f] \in OwnValues(config.file, f)
              /\ \A g \in Required : OwnValues(config.file, g) \ {""} # {}

=============================================================================
