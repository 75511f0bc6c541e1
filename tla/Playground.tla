------------------------------ MODULE Playground ------------------------------
(***************************************************************************)
(* The playground's main: it runs the conversation Iterations times, with  *)
(* up to Concurrency runs at once (Conversation), each a future of its own *)
(* thread.  When no more fit, it waits for one that has ended, of whatever *)
(* turn, and launches the next in its place.  With Concurrency 1 that is   *)
(* the sequential loop.  No run ever returns an error code: the client's   *)
(* Initialize cannot fail.                                                 *)
(***************************************************************************)
EXTENDS Conversation

CONSTANTS Iterations, Concurrency

ASSUME PoolAssumption ==
  /\ Iterations \in Nat \ {0} /\ Concurrency \in Nat \ {0}
  /\ Runs = 1 .. Iterations

VARIABLES main,      \* where main is
          runId,     \* the run that is launched next
          pool,      \* the runs of its futures
          completed  \* how many it has harvested

poolVars == <<main, runId, pool, completed>>
playgroundVars == <<vars, poolVars>>

(* History variable: for each run, whether another was harvested before it *)
(* was launched, and no request had failed by then.                        *)
VARIABLE warm

allVars == <<playgroundVars, warm>>

PoolInit ==
  /\ Init
  /\ main = "launching" /\ runId = 1 /\ pool = {} /\ completed = 0
  /\ warm = [r \in Runs |-> FALSE]

(* Mutant: the runs in the pool are not counted.                           *)
FitsAll == runId <= Iterations

Fits == Cardinality(pool) < Concurrency /\ runId <= Iterations

Launch ==
  /\ main = "launching" /\ Fits
  /\ pool' = pool \cup {runId}
  /\ runId' = runId + 1
  /\ warm' = [warm EXCEPT ![runId] = completed > 0 /\ failures = 0]
  /\ UNCHANGED <<main, completed>>

LaunchedAll ==
  /\ main = "launching" /\ ~Fits
  /\ main' = "waiting"
  /\ UNCHANGED <<runId, pool, completed, warm>>

(* A future that is found ready during a pass over them.                   *)
Harvest ==
  /\ main = "waiting"
  /\ \E r \in pool : pc[r] = "done" /\ pool' = pool \ {r}
  /\ completed' = completed + 1
  /\ UNCHANGED <<main, runId, warm>>

(* The pass ends (one that harvested nothing is followed by another).      *)
PassEnds ==
  /\ main = "waiting"
  /\ \/ completed = Iterations /\ main' = "returned"
     \/ Fits /\ main' = "launching"
  /\ UNCHANGED <<runId, pool, completed, warm>>

Main == Launch \/ LaunchedAll \/ Harvest \/ PassEnds

(* The thread of a run, and those of its writes.                           *)
Thread(r) == r \in pool /\ runConversation(r)
WriteThread(r) ==
  \E i \in DOMAIN futures[r] : WriteEnds(r, i) \/ Evict(r, i)

PoolNext ==
  \/ Main /\ UNCHANGED vars
  \/ \E r \in Runs : (Thread(r) \/ WriteThread(r)) /\ UNCHANGED <<poolVars, warm>>

PoolSpec == PoolInit /\ [][PoolNext]_allVars

(* The threads run and the service answers, with a failure at worst.       *)
FairPoolSpec ==
  /\ PoolSpec
  /\ WF_allVars(Main /\ UNCHANGED vars)
  /\ \A r \in Runs :
       /\ WF_allVars(Thread(r) /\ UNCHANGED <<poolVars, warm>>)
       /\ WF_allVars(WriteThread(r) /\ UNCHANGED <<poolVars, warm>>)

-----------------------------------------------------------------------------
(* Properties.                                                             *)

(* The type invariant.                                                     *)
PoolTypeOK ==
  /\ TypeOK
  /\ main \in {"launching", "waiting", "returned"}
  /\ runId \in 1 .. Iterations + 1
  /\ pool \subseteq 1 .. runId - 1 /\ Cardinality(pool) <= Concurrency
  /\ completed + Cardinality(pool) = runId - 1
  /\ warm \in [Runs -> BOOLEAN]

(* "allowing all concurrent runs to share the same prompt cache blocks": a *)
(* run that is launched after another was harvested finds the blocks of    *)
(* the first prompt and writes none of them again, unless a request fails. *)
ReusedAcrossRuns ==
  LET blocks == FullBlocks(PromptTokens(1))
      shared == {blocks[i] : i \in DOMAIN blocks}
  IN \A r \in Runs :
       warm[r] /\ failures = 0 =>
         \A i \in DOMAIN futures[r] : futures[r][i].version.block \notin shared

(* main returns, once every run has ended, also when writes or lookups     *)
(* fail.                                                                   *)
MainReturns == <>(main = "returned")

=============================================================================
