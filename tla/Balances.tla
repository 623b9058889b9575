------------------------------ MODULE Balances ------------------------------
(***************************************************************************)
(* ERC20 transfers are extended with balances by multicall requests        *)
(* (src/src/blockchains/erc20/lib/add_balances.ts). The batches of one     *)
(* work() are dealt to parallel chunks that share one MulticallBlacklist   *)
(* (multicall_blacklist.ts), which outlives work() and dies with the       *)
(* process.                                                                *)
(*                                                                         *)
(* A chunk looks at the blacklist before it sends a request and updates it *)
(* when the answer is there: between the two the other chunks do the same. *)
(* A balance is "value" or MULTICALL_FAILURE. Intervals repeat: every      *)
(* work() asks for the same Batches.                                       *)
(***************************************************************************)
EXTENDS Chunks, Sequences, FiniteSets

CONSTANTS
  Contract,            \* token contracts
  Broken,              \* contracts whose balanceOf always reverts
  Healthy,             \* contracts whose balanceOf never reverts
  Batches,             \* sequence of sets of <<address, contract>> pairs
  MaxConcurrency,      \* MAX_CONNECTION_CONCURRENCY
  FailureThreshold,    \* MULTICALL_BLACKLIST_FAILURE_THRESHOLD
  MaxRounds            \* bound: work() calls and restarts

ASSUME BalancesAssumption ==
  /\ Broken \subseteq Contract /\ Healthy \subseteq Contract
  /\ Broken \cap Healthy = {}
  /\ Len(Batches) \in Nat
  /\ \A n \in 1..Len(Batches) : IsFiniteSet(Batches[n]) /\ \A p \in Batches[n] : p[2] \in Contract
  /\ MaxConcurrency \in Nat \ {0} /\ FailureThreshold \in Nat \ {0}
  /\ MaxRounds \in Nat

VARIABLES
  consecutiveFailures,  \* MulticallBlacklist; 0 when the map has no entry
  pc,                   \* per chunk: "start", "next", "batch", "single", "settled", "done", "failed"
  idx,                  \* per chunk: index of its current batch
  toRequest,            \* per chunk: pairs of the request in flight
  refused,              \* per chunk: those whose own call the node refused
  balances,             \* <<batch index, pair, balance>> of this work()
  asked,                \* requests that included each contract, by this process; single
                        \* calls that repeat a refused request count with it
  rounds

vars == <<consecutiveFailures, pc, idx, toRequest, refused, balances, asked, rounds>>

MULTICALL_FAILURE == "multicall_failure"

Chunk == ParallelChunks(1, Len(Batches), MaxConcurrency)

-----------------------------------------------------------------------------
(* MulticallBlacklist                                                      *)

(* Mutant: the threshold has to be hit exactly. *)
MutantBlacklistedExactly(contract) ==
  consecutiveFailures[contract] = FailureThreshold

isBlacklisted(contract) == consecutiveFailures[contract] >= FailureThreshold

computeContractStats(result, contract) ==
  LET pairs == {p \in DOMAIN result : p[2] = contract}
  IN [failed |-> Cardinality({p \in pairs : result[p] = MULTICALL_FAILURE}),
      total  |-> Cardinality(pairs)]

(* Mutant: one failed balance is enough. *)
MutantAnyFailure(result) ==
  consecutiveFailures' =
    [c \in Contract |->
       LET stats == computeContractStats(result, c)
       IN CASE stats.total = 0  -> consecutiveFailures[c]
            [] stats.failed = 0 -> 0
            [] OTHER            -> consecutiveFailures[c] + 1]

(* recordCleanResult for a contract with a balance, recordAllFailed for one *)
(* that was asked and has none.                                             *)
recordBlacklistSignals(result) ==
  consecutiveFailures' =
    [c \in Contract |->
       LET stats == computeContractStats(result, c)
       IN CASE stats.total = 0            -> consecutiveFailures[c]
            [] stats.failed < stats.total -> 0
            [] OTHER                      -> consecutiveFailures[c] + 1]

-----------------------------------------------------------------------------
(* One chunk: for each of its batches getBalancesPerBlock.                 *)

(* All chunks are started before the first answer can arrive. *)
AllStarted == \A k \in Chunk : pc[k] # "start"

(* Where a chunk goes after its batch. *)
Advance(k) ==
  /\ idx' = [idx EXCEPT ![k] = @ + 1]
  /\ pc' = [pc EXCEPT ![k] = IF idx[k] = k.to THEN "done" ELSE "next"]
  /\ toRequest' = [toRequest EXCEPT ![k] = {}]
  /\ refused' = [refused EXCEPT ![k] = {}]

(* splitPerBlacklist: pairs of blacklisted contracts fail without a        *)
(* request; with nothing left to ask the batch is finished.                *)
Split(k) ==
  LET batch     == Batches[idx[k]]
      requested == {p \in batch : ~isBlacklisted(p[2])}
  IN /\ pc[k] \in {"start", "next"}
     /\ pc[k] = "next" => AllStarted
     /\ balances' = balances \cup {<<idx[k], p, MULTICALL_FAILURE>> : p \in batch \ requested}
     /\ \/ /\ requested = {}
           /\ Advance(k)
           /\ UNCHANGED asked
        \/ /\ requested # {}
           /\ toRequest' = [toRequest EXCEPT ![k] = requested]
           /\ asked' = [c \in Contract |->
                          asked[c] + IF \E p \in requested : p[2] = c THEN 1 ELSE 0]
           /\ pc' = [pc EXCEPT ![k] = "batch"]
           /\ UNCHANGED <<idx, refused>>
     /\ UNCHANGED <<consecutiveFailures, rounds>>

(* The decoded balances of a request: skipped.concat(balances). *)
Finish(k, result) ==
  /\ balances' = balances \cup {<<idx[k], p, result[p]>> : p \in DOMAIN result}
  /\ recordBlacklistSignals(result)
  /\ Advance(k)
  /\ UNCHANGED <<asked, rounds>>

(* What the contracts themselves allow as an answer for pair p (external).  *)
Answer(p) == IF p[2] \in Broken THEN {MULTICALL_FAILURE}
             ELSE IF p[2] \in Healthy THEN {"value"}
             ELSE {MULTICALL_FAILURE, "value"}

Answers(pairs) ==
  {r \in [pairs -> {MULTICALL_FAILURE, "value"}] : \A p \in pairs : r[p] \in Answer(p)}

(* executeBatchMulticall answers for every pair. *)
BatchAnswered(k) ==
  /\ pc[k] = "batch"
  /\ AllStarted
  /\ \E result \in Answers(toRequest[k]) : Finish(k, result)

(* It throws: one request per pair instead. *)
BatchRefused(k) ==
  /\ pc[k] = "batch"
  /\ AllStarted
  /\ pc' = [pc EXCEPT ![k] = "single"]
  /\ UNCHANGED <<consecutiveFailures, idx, toRequest, refused, balances, asked, rounds>>

(* Promise.allSettled of executeNonBatchMulticall: any of the calls may have *)
(* been refused.                                                             *)
SinglesSettled(k) ==
  /\ pc[k] = "single"
  /\ \E rejected \in SUBSET toRequest[k] : refused' = [refused EXCEPT ![k] = rejected]
  /\ pc' = [pc EXCEPT ![k] = "settled"]
  /\ UNCHANGED <<consecutiveFailures, idx, toRequest, balances, asked, rounds>>

(* A refused call is taken for a failed balance. *)
WithRefused(k, result) ==
  [p \in toRequest[k] |-> IF p \in refused[k] THEN MULTICALL_FAILURE ELSE result[p]]

(* Mutant: when all single calls are refused the balances are marked failed. *)
MutantOutageTaken(k) ==
  /\ pc[k] = "settled"
  /\ \E result \in Answers(toRequest[k]) : Finish(k, WithRefused(k, result))

(* The answers are taken unless all calls were refused. *)
SinglesTaken(k) ==
  /\ pc[k] = "settled"
  /\ refused[k] # toRequest[k]
  /\ \E result \in Answers(toRequest[k]) : Finish(k, WithRefused(k, result))

(* All of them were: the exception ends the process. *)
AllSinglesRejected(k) ==
  /\ pc[k] = "settled"
  /\ refused[k] = toRequest[k]
  /\ pc' = [pc EXCEPT ![k] = "failed"]
  /\ UNCHANGED <<consecutiveFailures, idx, toRequest, refused, balances, asked, rounds>>

-----------------------------------------------------------------------------
NewRound ==
  /\ rounds < MaxRounds
  /\ rounds' = rounds + 1
  /\ pc' = [k \in Chunk |-> "start"]
  /\ idx' = [k \in Chunk |-> k.from]
  /\ toRequest' = [k \in Chunk |-> {}]
  /\ refused' = [k \in Chunk |-> {}]
  /\ balances' = {}

(* extendTransfersWithBalances of the next interval. *)
NextInterval ==
  /\ \A k \in Chunk : pc[k] = "done"
  /\ NewRound
  /\ UNCHANGED <<consecutiveFailures, asked>>

(* The process is started again: the blacklist is empty. *)
Restart ==
  /\ \E k \in Chunk : pc[k] = "failed"
  /\ NewRound
  /\ consecutiveFailures' = [c \in Contract |-> 0]
  /\ asked' = [c \in Contract |-> 0]

Init ==
  /\ consecutiveFailures = [c \in Contract |-> 0]
  /\ pc = [k \in Chunk |-> "start"]
  /\ idx = [k \in Chunk |-> k.from]
  /\ toRequest = [k \in Chunk |-> {}]
  /\ refused = [k \in Chunk |-> {}]
  /\ balances = {}
  /\ asked = [c \in Contract |-> 0]
  /\ rounds = 0

ChunkStep(k) ==
  \/ Split(k) \/ BatchAnswered(k) \/ BatchRefused(k)
  \/ SinglesSettled(k) \/ SinglesTaken(k) \/ AllSinglesRejected(k)

Next == NextInterval \/ Restart \/ \E k \in Chunk : ChunkStep(k)

Spec == Init /\ [][Next]_vars

-----------------------------------------------------------------------------
(* Properties.                                                             *)

(* Every event finds its balance: when the chunks are done there is        *)
(* exactly one balance for every pair of every batch                       *)
(* (extendTransfersWithBalances asserts it), whatever was skipped, refused *)
(* or split into single calls.                                             *)
EveryPairResolvedOnce ==
  (\A k \in Chunk : pc[k] = "done") =>
    \A n \in 1..Len(Batches) : \A p \in Batches[n] :
      Cardinality({b \in balances : b[1] = n /\ b[2] = p}) = 1

(* A contract that always fails costs the node a bounded number of          *)
(* requests: the threshold, and what the other chunks had in flight when    *)
(* it was reached.                                                          *)
BrokenContractIsDropped ==
  \A c \in Broken : asked[c] <= FailureThreshold + Cardinality(Chunk) - 1

(* The pairs of contract c that chunk k asks for *)
Own(k, c) == {p \in toRequest[k] : p[2] = c}

(* The request that chunk k takes the answers of in this step speaks against *)
(* contract c: it asked for it, the node did not refuse all of its calls,   *)
(* and a contract that never reverts had all of its own calls refused.      *)
SpeaksAgainst(k, c) ==
  /\ pc[k] \in {"batch", "settled"} /\ pc'[k] \in {"next", "done"}
  /\ Own(k, c) # {}
  /\ refused[k] # toRequest[k]
  /\ c \in Healthy => Own(k, c) \subseteq refused[k]

(* Every failure that is added to a contract comes from a request that      *)
(* speaks against it.                                                       *)
BlamesWithCause ==
  \A c \in Contract :
    consecutiveFailures'[c] > consecutiveFailures[c] => \E k \in Chunk : SpeaksAgainst(k, c)

(* A balance of a contract that never reverts is marked failed only if the  *)
(* contract is on the list, or if its call was refused and another one of   *)
(* the request was not.                                                     *)
FailsWithCause ==
  \A b \in balances' \ balances :
    b[3] = MULTICALL_FAILURE /\ b[2][2] \in Healthy =>
      \/ isBlacklisted(b[2][2])
      \/ \E k \in Chunk : idx[k] = b[1] /\ b[2] \in refused[k] /\ refused[k] # toRequest[k]

(* An outage of the node is not held against any contract: when every call  *)
(* of a request is refused, whichever contracts it asks for, no failure is  *)
(* recorded and no balance is marked failed, but the export ends (the       *)
(* comment above the throw of executeNonBatchMulticall). A contract that    *)
(* never reverts is blamed only for a request in which all of its own calls *)
(* were refused and a call to another contract was not.                     *)
OutageBlamesNobody == [][BlamesWithCause /\ FailsWithCause]_vars

=============================================================================
