# kvStore: TLA+ models and proofs

The repository is a key-value cache for the prompts of language models. A
prompt is cut into blocks of 128 tokens; each block is stored as an Azure blob
named after its tokens, together with its hash and the hash of the block before
it. One block can occur in several prompts, so a blob carries a list of
*additional versions* (other hashes and parents), each in a blob of its own with
a generated GUID for a name. A gRPC service (`src/KVService`) runs the storage
library and streams payloads, a client library (`src/KVClient`) talks to it, and
a playground (`src/KVPlayground`) drives concurrent scripted conversations
through the client.

All paths below are relative to the repository root as `src/...`; `LIB` is
`src/KVService/src/AzureStorageKVStoreLibV2.cpp`.

## 1. Inventory

| part | state | operations | talks to |
|---|---|---|---|
| Storage library, write path (`LIB` 682-871) | none of its own: locals of each call; the blob container | `WriteAsync` on a thread per call | blob container, over the Azure SDK, which retries |
| Storage library, lookup and read (`LIB` 473-680) | locals of each call | `Lookup` (one thread per block, then the chain), `ReadAsync` | blob container |
| Multi-NIC socket callback (`LIB` 40-228) | `g_nicIPs`, `g_currentIndex`, process-wide | `DiscoverNetworkInterfaces` in every store's `Initialize`; the callback, called by libcurl for each connection | the network |
| Account resolver (`StorageDatabaseResolver.cpp`) | `stores_` under a shared mutex, `accountConfigCache_` | `ResolveStore` | configuration blob, storage library |
| In-memory resolver (`InMemoryAccountResolver.cpp`) | a map of stores | `ResolveStore` | storage library; `server.cpp` does not use it |
| Unary reactors (`LookupReactor`, `ReadReactor`, `WriteReactor`) | request, response, a detached thread | `StartProcessing`, `OnDone` | resolver, storage library, gRPC |
| Streaming reactor (`StreamingReadReactor.cpp`) | response queue, counters, flags, under `mutex_` | `OnReadDone`, `OnWriteDone`, `OnDone`, one detached thread per request | resolver, storage library, gRPC |
| Client library (`KVStoreGrpcClient.cpp`) | a channel | `Lookup`, `ReadAsync`, `WriteAsync`, `StreamingReadAsync` | the service |
| Playground (`main.cpp`) | per run: conversation, `TokenBufferManager`; a pool of futures | `runConversation`, `flushCompletedBlocks`, `validateCacheRetrieval`; launching and harvesting runs | client library |
| Server process and configuration (`server.cpp`, `FileConfigProvider.cpp`) | `g_server`, `ServiceConfig` | load, start, `SignalHandler`, wait, exit | resolver, gRPC |
| Metrics and logging | counters | | - |
| Scripts, documents | - | - | - |

Hard behaviours, each listed at its line under `hazards` in `PROJECT.json`:

- **Optimistic concurrency on one blob.** Writers of the same block in any
  number of processes race on `IfNoneMatch: *`, then on the ETag of the metadata
  (`LIB` 828), with a bounded retry loop that refetches the list but not the
  duplicate check; evicting the oldest version deletes its blob before the
  metadata stops listing it; any step may fail, be answered without the answer
  arriving, be sent twice by the SDK, or be the last of its process.
- **Reads of a moving container.** `Lookup` fetches the properties of every
  block at a different moment, and its caller reads the locations later still.
- **A reactor shared by callbacks and threads.** Any of the threads,
  `OnReadDone` and `OnWriteDone` may be the one that sees the work done and must
  call `Finish`; the object deletes itself; the client sends everything before it
  reads anything, over flow-controlled windows.
- **A double-checked cache** filled under the exclusive lock by a download that
  may fail, from a configuration that may change.
- **Process-wide state without a lock.** The interface list is a `std::vector`
  that the creation of any store assigns anew, while socket callbacks on other
  threads read its size, advance a shared index by compare and swap, and index
  into it.
- **The end of the process.** A signal handler that reads a pointer main sets
  late, and a shutdown that waits for calls which wait for each other.
- **Writes that are dropped and reported as stored.** The outermost catch of
  `WriteAsync` (`LIB` 865) swallows every `StorageException`, also the one of retries
  that ran out by contention alone; the reactor, the client and the playground
  take the write for done, and go on.
- **Client-side state across failures.** The playground's buffer advances its
  chain and totals before it waits for the writes.

What makes each part correct:

- write path: the first version of a block is immutable; no publication is
  overwritten by a concurrent one; a listed location holds what it is listed for;
  an entry without a blob is transient; a call that reaches a `return` has stored
  its version (one that ends in the outermost catch has not, and its future does
  not tell the two apart); no leaked blobs and no give-up without contention or
  faults;
- lookup and read: the chain returned is one that existed; a block read is the
  block announced; a missing block was evicted;
- streaming: finished exactly once, nothing left in the queue, no write after
  the finish, no thread outliving the object, one result per location;
- resolver and unary calls: one store per resource and container, one account
  per resource, every call ends, and a success is the answer of the caller's own
  call from the store of its key, never an exception, a lost connection or a store
  that could not be resolved (of a write it says no more: see above);
- multi-NIC: the shared index counts every callback, connections are spread over
  the interfaces, an interface that cannot be bound is passed over and the
  default socket is the last resort, a socket is bound to an address of the list;
- server process: a configuration from one source, an end after a signal;
- playground: every token written exactly once in place, what was written and
  nobody else writes under another parent is found again, concurrent runs share
  the blocks of the first prompt, a run reuses what an earlier one wrote, and
  main returns.

## 2. Modules

| module | models | composed by |
|---|---|---|
| `BlobContainer` | the container: blobs, ETags, metadata, conditional requests (external; from how `LIB` uses it) | `KVStoreWrite`, `KVStoreLookup` |
| `VersionIndex` | abstract: per block a first version and a FIFO of additional ones, changed atomically | refined by `KVStoreWrite` |
| `BlockName` | the name of a block: four bytes of every token, and back | `MCKVStoreWrite` |
| `BlockName_proofs` | which blocks share a name | |
| `KVStoreWrite` | `WriteAsync`: requests, retry loop, eviction, exceptions, SDK retries, crashes | `KVStore` |
| `KVStoreWrite_proofs` | theorems about `KVStoreWrite`: types, the refinement, what a return means | `KVStoreContent_proofs` |
| `KVStoreContent_proofs` | theorems about `KVStoreWrite`: contents, evictions, leaks, give-ups | `KVStore_proofs` |
| `KVStoreLookup` | `Lookup` and `ReadAsync` | `KVStore` |
| `KVStore` | writers and readers of one container | |
| `KVStore_proofs` | theorems about `KVStore`: what readers among writers see | |
| `GrpcBidiStream` | a bidirectional stream with flow control (external) | `StreamingReadReactor` |
| `StreamingReadReactor` | the server's reactor, its callbacks and threads | `StreamingRead` |
| `StreamingRead` | the client's loop together with the reactor | |
| `StreamingRead_proofs` | safety theorems about `StreamingRead`, and that it implements `BulkRead` | |
| `BulkRead` | abstract: every location answered at most once, return when all are or the connection is lost | refined by `StreamingRead` |
| `AccountResolver` | `StorageDatabaseResolver::ResolveStore`, its locks and caches, the configuration blob | `UnaryService` |
| `UnaryService` | the unary reactors and the client's unary calls | |
| `UnaryService_proofs` | theorems about `UnaryService` | |
| `MultiNic` | the list of interfaces, its assignment, and the socket callback | `ServerProcess` |
| `ServiceConfig` | the configuration from a file and the environment | `ServerProcess` |
| `ServerProcess` | main, signals, shutdown, and the calls that create stores and open connections | |
| `ServerProcess_proofs` | the inductive invariant of `MultiNic`, `ServerProcess` implements `MultiNic`, theorems about both | |
| `Conversation` | `TokenBufferManager`, `runConversation` | `Playground` |
| `Playground` | main's pool of concurrent runs | |
| `Playground_proofs` | theorems about `Conversation` and `Playground` | |
| `MC*` | constants and symmetry of the runs | |

### How state and actions correspond to the code

**`KVStoreWrite`.** A call is a thread that sends one request at a time, so a
step is one request with the local work up to the next one; `pc` names the next
request. `props`, `existing`, `guid` and `retry` are the locals `currentETag` /
metadata, `existingVersions`, `guidLocation` and the loop counter.
`UploadFirstVersion` is the conditional upload (409 leads to `CheckVersions`),
`UploadGuidBlob`, `EvictOldest` (one delete a step), `UpdateMetadata` (412 leads
to `Refetch` or, in the last round, to the exception) follow the code in its
order. An outcome `failed` is the outermost catch, which swallows the exception
after an `assert(false)`: with `AssertsEnabled` it takes the process down.
Faults are a failing request, a request whose answer is lost, a request the SDK
sends again after it took effect, and the death of a process.
Data: a block of tokens is its name; ETags are counted per blob; `hash_t` is a
set with zero in it; a payload is a model value or the prompt it was computed
from.

**`KVStoreLookup`.** One `GetProperties` step per block, in any order, then
`ValidateChain` computes the chain as the code's loop does (parent 0 for block 0,
whose parent is not compared; the default blob before the listed versions; the
first listed version with the right parent), then one `ReadAsync` step per
location. `Pending`, `NotFound` and `Broken` are a future not ready, one with
`nullopt`, one with an exception.

**`StreamingReadReactor`, `StreamingRead`.** What runs under `mutex_` is one
step. A callback that decides to call `Finish` outside the lock is two steps
(`finishing` holds the decided ones). gRPC is modelled by what the code relies
on: callbacks of one kind do not overlap, a write completes when the window has
room, `OnDone` comes after `Finish` when no operation is outstanding. The
early `Finish` that `ProcessRequest`'s thread contains cannot be reached: after the
push in the same critical section a write is always in progress, so that
`pending_writes_` is not 0; the model keeps the condition nevertheless (`FinishWhenNothingPending`).

**`AccountResolver`, `UnaryService`.** Steps are the critical sections of
`storesMutex_` (shared lock; exclusive lock with the second look; the download;
the creation) and, in the service, the reactor's callback, its thread and the
client. `Republish` is the owner of the configuration, who may replace it.
A store object is identified by the call that made it, so that two objects for
one key are told apart. A storage operation ends with a value, with nothing (a
read), with an exception, or, for a write, as `dropped`: `WriteAsync` has swallowed a
`StorageException` and returns normally. `SetResponse` makes a success of both, as
`WriteReactor` does.

**`BlockName`.** `EncodeTokensToBlobName` as the sequence of bytes it makes, with
the values of a byte as the constant `Byte` (256); Base64Url loses nothing and is
left out. The names in the runs of the write path are its values.

**`MultiNic`.** The callback takes no lock, so every access to `g_nicIPs` and
`g_currentIndex` is a step: the look at whether the list is empty, its size, the
load of the index, each round of the compare and swap, each attempt to bind.
While `assigning` (between `StartAssign` and `EndAssign`) a read of the vector is a
data race: it gives any size up to `MaxRead` and any address or `Stray`, and so
does an index past its end. History variables (`advances`, `loadedAt`, `ticket`,
`refused`, `overlapped`, `resized`) only serve the properties.

**`ServiceConfig`, `ServerProcess`.** `main` is one step per stretch of code with
an effect that others see: configuration, resolver, `BuildAndStart` (from then on
calls arrive), the assignment of `g_server`, and the return of `Wait`. The signal
handler runs between any two of them, on main's thread. A call is resolved under
the resolver's lock, which its creation of a store holds while it assigns the
list of interfaces; it may then open a connection through `MultiNic`'s callback.
`Wait` and `Shutdown` are gRPC's: a shutdown refuses calls, `Wait` returns when those
accepted are done. Once the resolver has taken the configuration over, it is
dropped from the state (`NoConfig`). The parser of the file is modelled by what it
sees: of a value that is not a string it takes the next key.

**`Conversation`.** Steps are the requests of a run (lookups with a begin and an
end, writes that end one by one) and the local work between them. The cache is
what the store modules promise, and no more. Of each block the `first` version
stays; `published` are all versions that were ever stored, and `evicted` those that
are not there any more, so that the cache is the difference. `Evict` is the delete
that a write does before it lists its own version; any additional version of the
block may go, since the length of the list (60) is left out. `WriteEnds` reports
"stored" for a version that is stored, for one that lost every round to writers of
other versions of its block (`Contended`), without any failure, and for one whose
`StorageException` was swallowed (a failure); how many rounds it takes is left out
too. A lookup finds at least the first versions that were there when it began, and at
most what has been published when it ends. The hash of a block is the block (no
collisions).

**`Playground`.** Steps are the launch of a run, the harvest of a future found
ready, and the end of a pass over the pool; the threads of the runs are those of
`Conversation`. `Concurrency = 1` is the sequential loop. A run cannot return an
error: the client's `Initialize`, its only way to, always succeeds.

Mutants of definitions, each a plausible slip in the code, stand next to the
definition they change and are marked as such; no specification uses them.

## 3. Runs

| run | question | instance |
|---|---|---|
| `KVStoreWriteFaults` | three writers in two processes with a fault: content of listed versions, dangling entries and their end, every call ends | 3 calls, 1 failing / lost / crash fault, a list of one version, assertions on |
| `KVStoreWriteResend` | the inductive invariant, the refinement of `VersionIndex` and stored when returned, when GUIDs repeat and requests are sent twice | 3 calls, 2 GUIDs, 2 faults, a list of two versions |
| `KVStoreWriteAssert` (violation) | `assert(false && "Azure StorageException during WriteAsync")` | 4 calls, no faults |
| `KVStore` | a lookup of two blocks and its reads under four writers; leaks and give-ups of the writers | 4 calls, 2 blocks, 1 lookup |
| `KVStorePrefix` (violation) | "find cached prefix" | 2 writers, 1 lookup |
| `StreamingRead` | three locations, a window of one, a connection that may be lost: refinement of `BulkRead`, finishing, queue, lifetime, liveness | N = 3, Window = 1 |
| `StreamingReadOrder` (violation) | "in same order as locations" | N = 2 |
| `UnaryService` | three calls, two containers of a resource, a configuration that changes, a connection that is lost | 3 calls, 1 change |
| `Playground` | three runs of two turns, two at once, with one failing request: the buffer's tokens, reads of own writes, sharing, reuse across runs, the end of main | block size 2, prompts of 5 and 2 tokens |
| `ConversationRetry` (violation) | "Don't clear blocks - keep them for potential retry" | 1 run, 1 failure |
| `ServerProcess` | configuration, start, a signal at any moment, calls that create two stores and open two connections: round robin, fallback, addresses, configuration, end | 3 calls, 2 stores, 2 interfaces of which one goes down, 1 signal |
| `MultiNicRoundRobin` (violation) | "Round-robin selection with fallback to try all interfaces" | 2 connections, 1 store, 2 interfaces |

### What the violations say

- **`KVStoreWriteAssert`**: more concurrent writers of one block than retry
  rounds take a call to the assertion by contention alone. A build with
  assertions dies; one without drops the write and completes the future as if it
  had been stored.
- **`KVStorePrefix`**: the parent of block 0 is never compared, so a block
  written in the middle of one prompt is served as the first of another.
- **`StreamingReadOrder`**: results are in the order of the storage's answers and
  do not name their location, while the interface promises the order of the
  locations.
- **`MultiNicRoundRobin`**: a callback binds from the index it loaded before the
  compare-and-swap loop, not from the one its own compare and swap replaced. Two
  callbacks that load it before either advances it start at the same interface,
  and the next one is passed over. `SpreadWhenApart` is what the code does
  give: a callback that loads the index after another has advanced it starts
  elsewhere. (The callback is compiled in with `USE_LOCAL_AZURE_SDK`.)
- **`ConversationRetry`**: the flush advances `lastWrittenHash` and the totals
  before it waits; blocks kept after a failed write are chained to the last of
  themselves when they are flushed again, so lookups stop before the block
  whose write failed, for good.

### Bounds, and why they are enough

- `MaxVersions` is 60 in the code and 1 or 2 here (with 1, a lost update looks
  like an eviction; with 2 it does not), `maxRetries` 5 and 2. What
  matters is that the list fills (the second additional version evicts), that the
  list of a stale call is longer or shorter than the current one, and that a call
  can lose and refetch, lose again, and give up; four writers of one block do all
  of that. The theorems hold for all values.
- Four writers is the number at which one call can lose as many rounds as it
  has: one creates the blob and two publish ahead of it. Three suffice with faults:
  one creates the blob, one publishes or dies half-way, one meets what it left.
- One or two faults: a fault is absorbed or ends its call, so a second one
  matters for re-sent updates only, where two are allowed. Re-sending is a fault of
  `KVStoreWriteResend` only: an update that meets its own effect pushes its
  version a second time, and the eviction of the first entry then deletes the
  blob that the second still names, for good, so that
  `DanglingOnlyWhileEvicting` would not hold.
- A lookup of two blocks has every case of the chain: the first block, and a
  later one that matches by the default blob, by a listed version or not at all.
- A window of one is the tightest flow control; with three locations two
  threads can answer while a write is in progress, so that the queue holds more
  than one response.
- Three calls are what the double-checked lock needs (a holder, one waiting, and
  one that finds the result), and one change of the configuration separates the
  stores of two containers.
- Prompts of 5 and 2 tokens with blocks of 2 give a first prompt of two blocks and
  a remainder, which the first response completes to a block of the run's own, a
  later prompt that is a block every run writes under a parent of its own, and
  flushes with and without complete blocks. Three runs, two at once: the third
  starts when one of the first two, whichever ended, was harvested; of three
  writers of one block, one is first, one may be evicted and one dropped.
- Three calls and two stores: the first store's connections are opened while the
  second store assigns the list. Only two of the calls get as far as a connection
  (`Opening`), which is what a race of callbacks takes. Two interfaces of which one
  may go down: the list shrinks below the index. `MaxRead` is the longest list. A
  second signal would repeat the first one's call of `Shutdown`. Five files (absent,
  complete, a field missing, a field empty, a value that is no string) and three
  environments (nothing, part, everything required).

Deadlock is not checked: every system here legitimately stops, when all calls
have ended.

### Fairness

Weak fairness only, and only on what the code's runtime provides: the thread of
a call, callback or client runs (`CallStep`, `ThreadDone`, `runConversation`, ...) and a
request is answered, with an error at worst. Faults, republications, lost
connections, signals and the making of a call are never fair: nothing depends on them
happening. A call of `WriteAsync` that has been made ends because its loops are
bounded; no fairness between calls is assumed. The exclusive lock of
`stores_` is not assumed to be fair either: a call has at most two turns at it,
and each holder leaves it by one of five ways out.
`Main` of the server and of the playground are fair as threads, and `Serve` says that
interfaces, storage and configuration answer; so `SignalEndsServer` shows that
nothing in this code keeps the process from ending. The compare-and-swap loop
needs no assumption of its own: each callback advances the index once, so a
callback can fail only as often as others succeed.

## 4. Proofs

`KVStoreWrite_proofs` (TLAPS), for every number of calls, processes, blocks,
GUIDs, versions, rounds and faults, under the assumptions that the modules name
(`ContainerAssumption`: default names and GUIDs are disjoint; `WriteAssumptions`:
the types of the constants; `IndexAssumption`: the value for "no blob" is not an
entry):

- `TypeCorrect`: `Spec => []TypeOK`.
- `IndexInvariant`: `Spec => [](TypeOK /\ IndexInv)`, the inductive invariant.
- `Refinement`: `Spec => ImplementsVersionIndex`, that is, `Index!Spec`.
- `ReturnedIsStored`: `Spec => StoredWhenReturned`.

The refinement is not inductive by itself: that `SetMetadata` publishes one
version and loses none depends on what a call remembers. `IndexInv` states it: a
call whose ETag is the current one holds in `existingVersions` the current list,
with its own version pushed and at most the oldest evicted (`PushedOnto`); a call
that fetches again has lost its ETag, therefore the blob has been changed at
least once (`etag > 1`), therefore its list is not empty, therefore the code's
"replace only if the key is present" does replace. Without the last part of
`DefaultInv` the stale list would survive a refetch and the version would be
pushed twice. The proof is one lemma per action (`UploadFirstVersionOK`,
`UpdateMetadataOK`, ...), each from `OneCallMoves` (a step moves one call, the
others keep their invariant as long as the default blob kept its ETag or the
ETag grew) and from lemmas on what each request does to the default blobs.
`ReturnedIsStored` follows since the steps that return are the first upload, the
duplicate check and the successful update, the last of which lists the version.

`KVStoreContent_proofs` builds on it, under the assumptions on the constants that
each theorem states:

- `ContentMatches`: `FreshGuids` gives `Spec => []ListedContentMatches`.
- `DanglingIsEvicted`: `FreshGuids` and no re-sent requests give
  `Spec => []DanglingOnlyWhileEvicting`.
- `GivesUpWhenBeaten`: no faults give `Spec => []GivesUpOnlyWhenBeaten`.
- `NoUploadLeaks`: `FreshGuids`, no faults and no assertions give
  `Spec => []NoLeakedGuidBlob`.

Every step is first brought into a shape (`StepShape`): it has no effect on the
container, the lists and the GUIDs, or one of seven effects, whatever the call is
told of it. `ContentInv` says that every entry of a list, in the container or in
a call, has an owner, a call for the same block with the GUID of the entry; that the
blob at a GUID is what its owner writes; and that GUIDs are owned once (`OneOwner`).
`EvictionInv` says that the owner of a listed entry has ended and that no entry is
listed twice, so that an entry once dropped never comes back (`OldestStaysStale`); hence
what a call over capacity deletes is in no list any more, or heads the full list that
the call's ETag still names (`FullListHead`, `DeletedIsEvicted`). An update that meets
its own effect breaks the first of these, which is why requests sent twice are
excluded. `RoundsInv` bounds the round of a call by the ETag it has seen, and `LeakInv`
has a call answer for every blob at a GUID: when its entry is dropped from the list,
the blob is gone (`EvictedGone`).

`KVStore_proofs` puts the readers beside these writers, for prompts of any length
and any number of lookups. `LookupAssumptions` gives the types of the constants and
keeps the values for a failure apart from blobs; the further assumptions
are those of the theorem:

- `RefinementAmongReaders`: `KVSpec => ImplementsVersionIndex`.
- `KVTypeCorrect`: `KVSpec => []KVTypeOK`.
- `ReadsAreRight`: `FreshGuids` gives `KVSpec => []ReadsMatchLookup`.
- `MissingIsEvicted`: `FreshGuids`, no faults, no assertions and no reads that
  fail with a status of not found give `KVSpec => []MissingOnlyWhenEvicted`.
- `LookupIsBetween`: `FreshGuids`, no failing and no re-sent requests of the
  writers, and no lookup that fails as not found give `KVSpec => []LookupBetween`.

`ReadInv` turns what a lookup was told into a fact about the container that lasts:
metadata it was told (`Told`) has the hash and the parent of the first version,
which never change, and entries that have an owner among the calls; a location it
announces (`Announced`) is the first version or an owned entry with the parent that
the chain wanted. GUIDs are owned once, so that whatever is read there is what the
owner wrote (`ReadIsRight`), however old the announcement is.
`MissInv` adds that a GUID found missing stays missing (`GoneForGood`), since its
owner wrote it before it was listed, and that a call that gives up has lost its
ETag (`LostInv`). The container may still list it only because a call at work has
deleted the blob and not yet updated the list, and that call is the one the
property names.

`LookupBetween` needs an argument about time: the blocks are fetched at different
moments. While nothing is evicted, metadata only grows at its end (`Grown`), and
the match of a block that was found stays the same (`MatchGrown`: the code takes
the default blob before the list, and the first of the list). `Standing` keeps, for
each block, that the chain there was at the start still fits the container and what
has been fetched since. The chain itself is a recursive function over
positions; `ChainIs` says what it yields (every block fits, and it stops only
where none does) by induction on the length, with `LeastNumber` from the
well-foundedness of the natural numbers, and the theorem compares two chains
by their first difference.

`UnaryService_proofs`, for every number of calls, resources, containers,
accounts and configuration changes, under `ResolverAssumption` and
`CallAssumption` (the types of the constants, and that the values for "nothing"
are none of the others):

- `TypeCorrect`: `Spec => []TypeOK`.
- `StoresAreShared`: `Spec => []OneStorePerKey`.
- `AccountsAreStable`: `Spec => []OneAccountPerResource`.
- `SuccessesAreReal`: `Spec => []SuccessIsReal`.

Their common invariant `ServiceInv` says what the properties leave implicit: the
one call past the double check is the owner of the exclusive lock (`LockInv`);
as long as it is, nobody else can put a store under its key, so that what it saw
in the map stays true until it inserts its own (`ResolvingInv`); a configuration
that was cached with an account is never fetched again, so that every store in
the map is of the cached account (`StoresInv`); and a status `OK` belongs to a
response that says of this call what the storage said (`ReactorInv`), where a
dropped write and a stored one say the same. Dropping the second
look at the map breaks the lemma `LockOK`.

`StreamingRead_proofs`, for every number of locations, every window and with or
without a lost connection, under `StreamAssumptions` (the types of the constants):

- `SafetyInvariant`: `Spec => []SafetyInv`, the inductive invariant.
- `TypeCorrect`: `Spec => []TypeOK`.
- `FinishesAtMostOnce`: `Spec => []FinishesOnce`.
- `QueueAlwaysDrains`: `Spec => []QueueDrains`.
- `ReactorOutlivesThreads`: `Spec => []ThreadsEndBeforeDelete`.
- `NoWriteOnceFinishing`: `Spec => NoWriteAfterFinish`.

`SafetyInv` says what the reactor's counters count (`CountersInv`:
`active_threads` is the number of running threads, `pending_writes` is 1 while a
write is in progress and 0 otherwise), that each request reaches the reactor once
(`RequestsInv`), the order of the reactor's end (`EndInv`) and, while the
connection holds, that whoever finishes has nothing left to do (`FinishInv`).
`FinishInv` needs all of them: the lemma `NotFinished` draws from it that a
callback or thread which may still read, write or answer is not racing a Finish,
and the proofs of the callbacks' and the threads' steps rest on that lemma.

The second half of the module adds where the answers are:

- `DeliveryInvariant`: `Spec => []DeliveryInv`: a request that the reactor has
  taken is with its thread, in `response_queue_`, being written, under way or
  among the results, in exactly one of them as long as the connection holds.
- `OneResultEach`: `Spec => []OneResultPerLocation`.
- `BulkReadImplemented`: `Spec => ImplementsBulkRead`, that is, `Bulk!Spec`.

When the client finds the stream finished and empty, `FinishInv` leaves the last
of these places only (`AllDelivered`), so that the client has every answer.

`BlockName_proofs`, for every number of values of a byte above one and all
sequences of integers: `DecodeEncode` (decoding a name gives the low words of the
tokens back), `SameName` (two blocks share a name exactly when they have the same
length and the same low words) and `NameIsBlock` (tokens that fit a word: the same
name means the same block). They answer what the runs cannot, since names are
compared by all modules of the store: the abstraction "the name is the block" is
sound for vocabularies of less than 2^32 tokens, and only for them. The lemma
`FourBytes` does the work: a word is the number its four bytes write.

`ServerProcess_proofs`, for any number of connections, interfaces, stores, calls,
signals, files and environments, under `NicAssumption` (what `getifaddrs`
finds are addresses; the values for "none" are not) and `ServerAssumption` (a file
is a sequence of keys, each with a string or with a value that is none):

- `ProcessImplementsMultiNic`: `Spec => NicSpec`: a step of the process is a step of
  `MultiNic` or leaves it alone, so that its invariant need not be proved again.
- `AdvancesAreCounted`: `Spec => []EveryAdvanceCounted`.
- `Spreads`: `Spec => []SpreadWhenApart`.
- `TriesAllInterfaces`: `Spec => []DefaultOnlyAsLastResort`.
- `BindsToAddresses`: `Spec => []StrayOnlyWhenAssigned`.
- `TypeCorrect`: `Spec => []ServerTypeOK`.
- `ConfigHasOneSource`: `Spec => []ConfigFromOneSource`.

`NicInv`, the inductive invariant, says that as long as no callback has met an
assignment all callbacks see one list (`SeesOneList`); that the index is the count
of advances modulo its length (`IndexCounts`); that a callback loaded the index no
later than it advanced it, and what it then was (`LoadsBeforeAdvance`), from which
`Spreads` follows by arithmetic modulo the length (`ApartModulo`); and that a callback
has been refused by exactly the positions it went through (`TriesInTurn`), which
are all of them in the end (`AllTried`), whatever the start.

`ConfigInv` says that a configuration main has accepted is the one loaded from the
file, or the default, with the environment set over it; the parser takes the
first entry of a key (`LeastOf`), whose value is the file's own unless it is no
string (`ExtractsOwnValue`).

`Playground_proofs`, for any number of runs and of turns, prompts of any length, any
size of a block and of the pool and any number of failing requests, under
`SizesAssumption` and `PoolAssumption`:

- `ConversationTypeCorrect`: `Spec => []TypeOK`.
- `EveryTokenOnce`: `Spec => []TokensAccounted`.
- `WritesAreRead`: `Spec => []ReadsItsWrites`.
- `PromptBlocksOnce`: `Spec => []SharedBlocksOnce`.
- `PoolTypeCorrect`: `PoolSpec => []PoolTypeOK`.
- `PromptReused`: `PoolSpec => []ReusedAcrossRuns`.

The lemmas on `FullBlocks`, `Content` and `addTokens` come first: cutting a
sequence into blocks and joining them with the rest gives the sequence back
(`CutAndJoined`), and what `addTokens` does to the buffer (`AddTokens`).
`AccountInv` says of a run of which no request failed that `allWrittenTokens`
followed by `currentBlock` is the conversation up to `totalTokensProcessed`
(`Counted`). Alone it is not inductive, for a reason that is easy to miss in
the code: when a turn finds its blocks in the cache, the run takes them over
as written without looking at `currentBlock`, so that tokens left there by an
earlier turn would be counted twice. This happens only if a lookup hits
although the run has written nothing so far, hence had less than a block of
tokens before; and since a turn ends with a response, a token of the run's own is
then in its first block (`Marked`). Nobody but the run itself writes its tokens
(`OwnInv`), so that this lookup cannot hit. This is why `SizesAssumption` has a
response of at least one token that is the run's own; the code's has the run's identifier in its
first two and its last two tokens.

`WritesAreRead` cannot rest on the writes' reported success, which proves nothing
once a version under another parent is in the way. `ChainInv` says that the writes of
a flush continue the chain of what is counted as written; then the argument is that
some versions have no rival. A version is evicted or dropped only if its block has
another one, and a first version stays. A block with a token of the run's own agent is written by no other run,
and by this one under one parent only (`OneVersion`); a block of the first prompt has
one parent in every run as long as none has failed (`ScriptInv`, `SharedPlace`,
`ShareInv`). Hence each such block that was published is the first version of its
name (`KeptInv`), or its write is still under way. A lookup that began after the flush
finds these, so that a validation over such blocks misses none (`ValidInv`). The same
facts give `PromptBlocksOnce`. A block of a later prompt has as many parents as there
are runs; of it the code promises nothing, and so does the theorem.

For the pool, `PoolIsConversations` shows that every step of `Playground` is a step
of `Conversation` or leaves it alone, so that all of this is inherited; `WarmInv` says
that once a run was harvested the blocks of the prompt are in the cache for good
(`AllShared`), and that a run launched later has been told so by its first lookup
(`Settled`); `IdleInv` that a run not yet launched has done nothing and that one that
has ended had all its turns.

What the theorems do not cover is what stays with TLC:

- liveness: `CallsEnd` (of the writers and of the unary calls),
  `DanglingIsTransient`, `StreamEnds`, `MainReturns` and `SignalEndsServer`. They rest
  on fairness, hence on ENABLED, which the prover does not do.
- the violations, which are single behaviours.

Every invariant and action property of the passing runs is a theorem. The
theorems hold of the models: that hashes do not collide in `Conversation`, that a
run's tokens are its own, and what section 5 leaves out are assumptions of the
models, not results.

## 5. Not modelled, and why

- **`InMemoryAccountResolver`, `ResolveAccountInfo`, `processWithCache` with its
  `KVStoreManager`**: no program of the repository uses them.
- **Metrics, logging, scripts, documents**: counters that nothing reads, and no
  state of the program.
- **The arguments of the programs, NUMA and processor groups, gRPC's tuning**:
  sequential input, no state afterwards.
- **Inside gRPC**: what `Shutdown` does in a signal handler (it takes locks that
  the interrupted thread may hold), what a second `Finish`, or a `Finish(OK)` over
  queued responses, does to a stream whose write has failed, and what becomes of a
  write that is started after `OnDone`.
- **A lost signal**: `SignalHandler` does nothing before `g_server` is set, so that a
  signal during the start is acknowledged and forgotten. The model has this step;
  `SignalEndsServer` speaks of the signals that find the server.
- **Character counts**: the 8 KB limit of a blob's metadata, which 60 entries of two
  hashes of 20 digits and a GUID of 36 characters do not reach.
- **Hash collisions**: hashes are values of a set in the store modules (any two
  versions may share a hash) and injective in `Conversation`.
- **The comparison of what was read back** in `validateCacheRetrieval` is by
  position although the results are unordered (`StreamingReadOrder`); it goes to
  statistics only and is left out.
- **Early returns of an uninitialised client**, `SetConfig`, and
  `lastError_`, a text that goes to the log.

## 6. Plan

Done, in this order: the write path and its proofs; lookup and reads over it;
the streaming read and its proofs; the resolver, the unary calls and their
proofs; the playground's runs; the names of blocks; the multi-NIC callback under
the server process, from its configuration to its end, with their proofs; the
playground's pool; the proofs for the readers, the playground and the
configuration.

Next:

1. The playground over the streaming read, so that the validation's comparison can
   be stated.
2. `Conversation` over `VersionIndex`, with the length of the list and the number of
   rounds, to see which of the contended versions of a long conversation survive.
3. Proofs: `LookupBetween` with failing requests, which only cost a lookup when they
   hit its own fetches.
