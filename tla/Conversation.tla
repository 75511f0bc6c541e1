----------------------------- MODULE Conversation -----------------------------
(***************************************************************************)
(* The playground's concurrent runs of one scripted conversation: each     *)
(* keeps its tokens in a TokenBufferManager, which cuts them into blocks   *)
(* and writes these to the shared cache, chained by their hashes.  The     *)
(* cache is what the store promises (KVStoreWrite, KVStore): the first     *)
(* version of a block stays; of those with another parent one may be       *)
(* evicted for the next, and one that loses too many races is reported as  *)
(* written but is not (assertions are off, as in the release build).  How  *)
(* many versions a list holds and how many races a write may lose is left  *)
(* out.  Hashes of blocks are taken to be injective: the hash of a block   *)
(* is the block.                                                           *)
(***************************************************************************)
EXTENDS Naturals, Sequences, FiniteSets

CONSTANTS Runs,           \* runs of the conversation: positive numbers
          BlockSize,
          PromptLengths,  \* tokens of the prompt of each turn
          AgentLength,    \* tokens of each synthetic response
          MaxFailures     \* bound on the requests that fail

(* A synthetic response always has tokens of its own.                      *)
ASSUME SizesAssumption ==
  /\ Runs \subseteq Nat \ {0}
  /\ BlockSize \in Nat \ {0} /\ AgentLength \in Nat \ {0}
  /\ PromptLengths \in Seq(Nat) /\ MaxFailures \in Nat

VARIABLES first,         \* of each block in the store, the first version
          published,     \* every version that has been in the store
          evicted,       \* those of them that are not there any more
          pc,            \* [Runs -> where runConversation is]
          turn,          \* [Runs -> turnNumber]
          conversation,  \* [Runs -> conversationTokens]
          buffer,        \* [Runs -> TokenBufferManager]
          futures,       \* [Runs -> writeFutures of the flush under way]
          atLeast,       \* [Runs -> first versions found when a lookup began]
          missing,       \* [Runs -> blocks the last validation did not find]
          failures,      \* requests that have failed
          failed         \* runs of which a write or a validation has failed

store == <<first, published, evicted>>
vars == <<store, pc, turn, conversation, buffer, futures, atLeast, missing,
          failures, failed>>

(* The versions in the store, of all runs.                                 *)
cache == published \ evicted

(* A prompt token is the same in every run, an agent's is the run's own.   *)
PromptTokens(t) == [i \in 1 .. PromptLengths[t] |-> <<0, t, i>>]
AgentTokens(r, t) == [i \in 1 .. AgentLength |-> <<r, t, i>>]

Tokens ==
  (UNION {{<<0, t, i>> : i \in 1 .. PromptLengths[t]} :
            t \in 1 .. Len(PromptLengths)})
    \cup (Runs \X (1 .. Len(PromptLengths)) \X (1 .. AgentLength))
Blocks == [1 .. BlockSize -> Tokens]
NoParent == <<>>
Versions == [block : Blocks, parent : Blocks \cup {NoParent}]

(* The full blocks of a sequence of tokens, and what is left over.         *)
FullBlocks(s) ==
  [k \in 1 .. Len(s) \div BlockSize |->
     SubSeq(s, (k - 1) * BlockSize + 1, k * BlockSize)]
Rest(s) == SubSeq(s, (Len(s) \div BlockSize) * BlockSize + 1, Len(s))

(* The tokens of a sequence of blocks.                                     *)
Content(blocks) ==
  [i \in 1 .. Len(blocks) * BlockSize |->
     blocks[((i - 1) \div BlockSize) + 1][((i - 1) % BlockSize) + 1]]

(* Block i of a chain is among the versions: with any parent when i is 1.  *)
Linked(versions, blocks, i) ==
  IF i = 1 THEN \E v \in versions : v.block = blocks[1]
  ELSE [block |-> blocks[i], parent |-> blocks[i - 1]] \in versions

(* How many blocks of a chain a lookup would find among the versions.      *)
CachedBlocks(versions, blocks) ==
  CHOOSE n \in 0 .. Len(blocks) :
    /\ \A i \in 1 .. n : Linked(versions, blocks, i)
    /\ n < Len(blocks) => ~Linked(versions, blocks, n + 1)

(* What a lookup that began with the first versions of n blocks may find:  *)
(* these stay, and any other version may come or go while it is under way. *)
Found(n, blocks) == n .. CachedBlocks(published, blocks)

writtenBlocks(r) == FullBlocks(buffer[r].allWrittenTokens)
lookupBlocks(r) == FullBlocks(conversation[r])

-----------------------------------------------------------------------------
(* The buffer.  totalTokensWritten is the length of allWrittenTokens, and  *)
(* writtenBlockHashes are the hashes of its blocks.                        *)

EmptyBuffer ==
  [completedBlocks |-> <<>>, currentBlock |-> <<>>, processed |-> 0,
   lastWrittenHash |-> NoParent, allWrittenTokens |-> <<>>]

(* Mutant: a block is not moved away as soon as it is full.                *)
CutsLate(s) ==
  [k \in 1 .. (Len(s) - 1) \div BlockSize |->
     SubSeq(s, (k - 1) * BlockSize + 1, k * BlockSize)]

CutsBlocks(s) == FullBlocks(s)

addTokens(b, tokens) ==
  LET all == b.currentBlock \o tokens
      full == CutsBlocks(all)
  IN [b EXCEPT !.completedBlocks = @ \o full,
               !.currentBlock = SubSeq(all, Len(full) * BlockSize + 1, Len(all)),
               !.processed = @ + Len(tokens)]

(* Mutant: the chain starts anew with each flush.                          *)
ParentInFlush(b, i) == IF i = 1 THEN NoParent ELSE b.completedBlocks[i - 1]

parentHash(b, i) ==
  IF i = 1 THEN b.lastWrittenHash ELSE b.completedBlocks[i - 1]

(* The writes that a flush of b starts.                                    *)
Launched(b) ==
  [i \in 1 .. Len(b.completedBlocks) |->
     [version |-> [block  |-> b.completedBlocks[i],
                   parent |-> parentHash(b, i)],
      state   |-> "pending"]]

(* The buffer while these writes are under way: everything is advanced     *)
(* before they are waited for, but the blocks are still there.             *)
Flushing(b) ==
  [b EXCEPT !.allWrittenTokens = @ \o Content(b.completedBlocks),
            !.lastWrittenHash = b.completedBlocks[Len(b.completedBlocks)]]

(* New tokens of the conversation go into the buffer, and the blocks that  *)
(* are complete are flushed, in the state flushing; there is nothing to    *)
(* wait for when there are none.                                           *)
AddAndFlush(r, tokens, flushing, next) ==
  LET new == SubSeq(tokens, buffer[r].processed + 1, Len(tokens))
      b == addTokens(buffer[r], new)
      flushes == new # <<>> /\ b.completedBlocks # <<>>
  IN /\ buffer' = [buffer EXCEPT ![r] = IF flushes THEN Flushing(b) ELSE b]
     /\ futures' = [futures EXCEPT ![r] = IF flushes THEN Launched(b) ELSE <<>>]
     /\ pc' = [pc EXCEPT ![r] = IF flushes THEN flushing ELSE next]

-----------------------------------------------------------------------------
(* runConversation.                                                        *)

Init ==
  /\ first = {} /\ published = {} /\ evicted = {}
  /\ pc = [r \in Runs |-> "turn"]
  /\ turn = [r \in Runs |-> 0]
  /\ conversation = [r \in Runs |-> <<>>]
  /\ buffer = [r \in Runs |-> EmptyBuffer]
  /\ futures = [r \in Runs |-> <<>>]
  /\ atLeast = [r \in Runs |-> 0]
  /\ missing = [r \in Runs |-> 0]
  /\ failures = 0 /\ failed = {}

(* The next turn, whose first step validates what was written so far.      *)
NextTurn(r) ==
  /\ pc[r] = "turn" /\ turn[r] < Len(PromptLengths)
  /\ turn' = [turn EXCEPT ![r] = @ + 1]
  /\ IF buffer[r].allWrittenTokens = <<>>
     THEN pc' = [pc EXCEPT ![r] = "prompt"] /\ UNCHANGED atLeast
     ELSE /\ pc' = [pc EXCEPT ![r] = "validating"]
          /\ atLeast' = [atLeast EXCEPT ![r] =
                           CachedBlocks(first, writtenBlocks(r))]
  /\ UNCHANGED <<store, conversation, buffer, futures, failures, failed,
                 missing>>

RunEnds(r) ==
  /\ pc[r] = "turn" /\ turn[r] = Len(PromptLengths)
  /\ pc' = [pc EXCEPT ![r] = "done"]
  /\ UNCHANGED <<store, turn, conversation, buffer, futures, atLeast,
                 failures, failed, missing>>

(* validateCacheRetrieval ends, after a lookup that may fail.  The blocks   *)
(* it found are read and compared with what was expected by their place in *)
(* the results, which are not in order (StreamingRead): that comparison,   *)
(* like the rest, goes to statistics only, and is left out.                *)
Validated(r) ==
  /\ pc[r] = "validating"
  /\ pc' = [pc EXCEPT ![r] = "prompt"]
  /\ \/ /\ \E n \in Found(atLeast[r], writtenBlocks(r)) :
             missing' = [missing EXCEPT ![r] = Len(writtenBlocks(r)) - n]
        /\ UNCHANGED <<failures, failed>>
     \/ /\ failures < MaxFailures
        /\ failures' = failures + 1 /\ failed' = failed \cup {r}
        /\ missing' = [missing EXCEPT ![r] = Len(writtenBlocks(r))]
  /\ UNCHANGED <<store, turn, conversation, buffer, futures, atLeast>>

(* The user's tokens; before the first write, the cache is asked for them. *)
AddPrompt(r) ==
  /\ pc[r] = "prompt"
  /\ conversation' = [conversation EXCEPT ![r] = @ \o PromptTokens(turn[r])]
  /\ IF /\ buffer[r].allWrittenTokens = <<>>
        /\ Len(conversation'[r]) >= BlockSize
     THEN /\ pc' = [pc EXCEPT ![r] = "checking"]
          /\ atLeast' = [atLeast EXCEPT ![r] =
                           CachedBlocks(first, FullBlocks(conversation'[r]))]
     ELSE pc' = [pc EXCEPT ![r] = "adding"] /\ UNCHANGED atLeast
  /\ UNCHANGED <<store, turn, buffer, futures, failures, failed, missing>>

(* Mutants: cached tokens are not counted as processed, or not chained to. *)
CachedNotProcessed(r, n) ==
  [buffer[r] EXCEPT
     !.allWrittenTokens = @ \o SubSeq(conversation[r], 1, n * BlockSize),
     !.lastWrittenHash = lookupBlocks(r)[n]]
CachedNotChained(r, n) ==
  [buffer[r] EXCEPT
     !.processed = n * BlockSize,
     !.allWrittenTokens = @ \o SubSeq(conversation[r], 1, n * BlockSize)]

(* The buffer after n > 0 blocks were found in the cache.                  *)
Cached(r, n) ==
  [buffer[r] EXCEPT
     !.processed = n * BlockSize,
     !.allWrittenTokens = @ \o SubSeq(conversation[r], 1, n * BlockSize),
     !.lastWrittenHash = lookupBlocks(r)[n]]

(* The lookup ends; one that fails finds nothing.                          *)
CacheChecked(r) ==
  /\ pc[r] = "checking"
  /\ \/ /\ \E n \in Found(atLeast[r], lookupBlocks(r)) :
             buffer' = IF n = 0 THEN buffer
                       ELSE [buffer EXCEPT ![r] = Cached(r, n)]
        /\ UNCHANGED failures
     \/ /\ failures < MaxFailures
        /\ failures' = failures + 1
        /\ UNCHANGED buffer
  /\ pc' = [pc EXCEPT ![r] = "adding"]
  /\ UNCHANGED <<store, turn, conversation, futures, atLeast, failed, missing>>

FlushPrompt(r) ==
  /\ pc[r] = "adding"
  /\ AddAndFlush(r, conversation[r], "flushingPrompt", "agent")
  /\ UNCHANGED <<store, turn, conversation, atLeast, failures, failed,
                 missing>>

FlushAgent(r) ==
  /\ pc[r] = "agent"
  /\ conversation' = [conversation EXCEPT ![r] = @ \o AgentTokens(r, turn[r])]
  /\ AddAndFlush(r, conversation'[r], "flushingAgent", "turn")
  /\ UNCHANGED <<store, turn, atLeast, failures, failed, missing>>

(* The version v is in the store: it was already, or it becomes the first  *)
(* of its block or an additional one.                                      *)
Stores(v) ==
  /\ first' = IF \E u \in first : u.block = v.block THEN first
              ELSE first \cup {v}
  /\ published' = published \cup {v}
  /\ evicted' = evicted \ {v}

(* The additional versions of a block of which v is to be another one.     *)
Additional(v) == {u \in cache \ first : u.block = v.block}

(* A write that would add v to a full list deletes the oldest version on   *)
(* it first (any of them, here).                                           *)
Evict(r, i) ==
  LET v == futures[r][i].version
  IN /\ futures[r][i].state = "pending" /\ v \notin cache
     /\ \E u \in Additional(v) : evicted' = evicted \cup {u}
     /\ UNCHANGED <<first, published, pc, turn, conversation, buffer, futures,
                    atLeast, missing, failures, failed>>

(* The write of v may lose every round to writers of other versions.       *)
Contended(v) == v \notin cache /\ \E u \in cache : u.block = v.block

(* WriteAsync of the i-th block ends.  It is reported as stored when it    *)
(* was, and also when the service gave it up after losing too many rounds, *)
(* or swallowed the exception of a request to the storage; the answer may  *)
(* be lost, or the call may throw.  A request that fails may have had its  *)
(* effect.                                                                 *)
WriteEnds(r, i) ==
  LET v == futures[r][i].version
      EndsAs(s) == futures' = [futures EXCEPT ![r][i].state = s]
  IN /\ futures[r][i].state = "pending"
     /\ \/ /\ EndsAs("stored")
           /\ Stores(v) \/ (Contended(v) /\ UNCHANGED store)
           /\ UNCHANGED <<failures, failed>>
        \/ /\ failures < MaxFailures
           /\ failures' = failures + 1 /\ failed' = failed \cup {r}
           /\ EndsAs("stored") \/ EndsAs("failed")
           /\ Stores(v) \/ UNCHANGED store
     /\ UNCHANGED <<pc, turn, conversation, buffer, atLeast, missing>>

IsFlushing(r) == pc[r] \in {"flushingPrompt", "flushingAgent"}

WritesEnded(r) ==
  IsFlushing(r) /\ \A i \in DOMAIN futures[r] : futures[r][i].state # "pending"

AllStored(r) == \A i \in DOMAIN futures[r] : futures[r][i].state = "stored"

Flushed(r) ==
  /\ buffer' = [buffer EXCEPT ![r].completedBlocks = <<>>]
  /\ pc' = [pc EXCEPT ![r] =
              IF pc[r] = "flushingPrompt" THEN "agent" ELSE "turn"]

(* Mutant: the exception of a write is never seen.                         *)
WaitsForSuccess(r) ==
  /\ WritesEnded(r) /\ AllStored(r) /\ Flushed(r)
  /\ futures' = [futures EXCEPT ![r] = <<>>]
  /\ UNCHANGED <<store, turn, conversation, atLeast, failures, failed,
                 missing>>

(* All writes have ended (the destructors of the futures wait for those    *)
(* after one that failed).  An exception leaves the blocks in the buffer   *)
(* and ends the turn.                                                      *)
FlushEnds(r) ==
  /\ WritesEnded(r)
  /\ IF AllStored(r) THEN Flushed(r)
     ELSE pc' = [pc EXCEPT ![r] = "turn"] /\ UNCHANGED buffer
  /\ futures' = [futures EXCEPT ![r] = <<>>]
  /\ UNCHANGED <<store, turn, conversation, atLeast, failures, failed,
                 missing>>

runConversation(r) ==
  \/ NextTurn(r) \/ RunEnds(r) \/ Validated(r) \/ AddPrompt(r)
  \/ CacheChecked(r) \/ FlushPrompt(r) \/ FlushAgent(r) \/ FlushEnds(r)

Next ==
  \E r \in Runs :
    \/ runConversation(r)
    \/ \E i \in DOMAIN futures[r] : WriteEnds(r, i) \/ Evict(r, i)

Spec == Init /\ [][Next]_vars

-----------------------------------------------------------------------------
(* Properties.                                                             *)

(* The type invariant.                                                     *)
TypeOK ==
  /\ first \subseteq published /\ published \subseteq Versions
  /\ evicted \subseteq published \ first
  /\ pc \in [Runs -> {"turn", "validating", "prompt", "checking", "adding",
                      "flushingPrompt", "agent", "flushingAgent", "done"}]
  /\ turn \in [Runs -> 0 .. Len(PromptLengths)]
  /\ conversation \in [Runs -> Seq(Tokens)]
  /\ \A r \in Runs :
       /\ buffer[r].completedBlocks \in Seq(Blocks)
       /\ buffer[r].currentBlock \in Seq(Tokens)
       /\ Len(buffer[r].currentBlock) < BlockSize
       /\ buffer[r].processed \in Nat
       /\ buffer[r].lastWrittenHash \in Blocks \cup {NoParent}
       /\ buffer[r].allWrittenTokens \in Seq(Tokens)
       /\ futures[r] \in Seq([version : Versions,
                              state : {"pending", "stored", "failed"}])
  /\ atLeast \in [Runs -> Nat] /\ missing \in [Runs -> Nat]
  /\ failures \in 0 .. MaxFailures /\ failed \subseteq Runs

(* Unless a request of the run has failed, what counts as written and what   *)
(* is in the current block are the processed part of the conversation: no  *)
(* token is written twice, skipped or moved, whether the cache held a part *)
(* of the first prompt or not.                                             *)
TokensAccounted ==
  \A r \in Runs \ failed :
    buffer[r].allWrittenTokens \o buffer[r].currentBlock
      = SubSeq(conversation[r], 1, buffer[r].processed)

(* A block that the run r writes and no run writes under another parent:   *)
(* it has tokens of r's own agent, or it is of the first prompt, as long   *)
(* as no run has failed and lost its place in the chain.                   *)
Uncontended(r, i) ==
  \/ \E j \in 1 .. BlockSize : writtenBlocks(r)[i][j][1] = r
  \/ failed = {} /\ i <= Len(FullBlocks(PromptTokens(1)))

(* Whatever the other runs write, drop and evict: unless a request of the  *)
(* run has failed, every uncontended block that it counts as written is in *)
(* the store under its parent once the flush is over, over all its flushes *)
(* and whoever wrote the blocks that it found in the cache; and while all  *)
(* its blocks are uncontended, its validations miss none.  A prompt block  *)
(* of a later turn, which every run writes under a parent of its own, has  *)
(* no such promise: its write may be dropped and reported as a success.    *)
ReadsItsWrites ==
  \A r \in Runs \ failed :
    LET written == DOMAIN writtenBlocks(r)
    IN /\ \A i \in written :
            ~IsFlushing(r) /\ Uncontended(r, i) =>
              Linked(cache, writtenBlocks(r), i)
       /\ (\A i \in written : Uncontended(r, i)) => missing[r] = 0

(* "allowing all concurrent runs to share the same prompt cache blocks":   *)
(* as long as no request fails, runs that race to write the first prompt     *)
(* leave one version of each of its blocks.                                *)
SharedBlocksOnce ==
  LET shared == FullBlocks(PromptTokens(1))
  IN failed = {} =>
       \A v \in cache, i \in 1 .. Len(shared) :
         v.block = shared[i] =>
           v.parent = IF i = 1 THEN NoParent ELSE shared[i - 1]

(* "Don't clear blocks - keep them for potential retry": what is written,  *)
(* for the first time or by the flush that repeats a failed one, is a      *)
(* block of the conversation under the block before it, so that a lookup   *)
(* of the conversation can find it.                                        *)
RetryRestoresChain ==
  \A r \in Runs :
    LET blocks == lookupBlocks(r)
    IN \A i \in DOMAIN futures[r] :
         \E k \in DOMAIN blocks :
           futures[r][i].version =
             [block  |-> blocks[k],
              parent |-> IF k = 1 THEN NoParent ELSE blocks[k - 1]]

=============================================================================
