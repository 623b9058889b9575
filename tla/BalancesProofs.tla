--------------------------- MODULE BalancesProofs ---------------------------
(***************************************************************************)
(* Proofs about the multicall requests of the ERC20 worker and the         *)
(* blacklist they share, for every set of contracts, every way the pairs   *)
(* are batched, every concurrency and every threshold.                     *)
(***************************************************************************)
EXTENDS Balances, ArrayProofs

-----------------------------------------------------------------------------
(* The invariant.                                                          *)

(* The pairs the interval's events ask for, and what a balance may be. *)
Pair == UNION {Batches[n] : n \in 1..Len(Batches)}
Value == {MULTICALL_FAILURE, "value"}
PC == {"start", "next", "batch", "single", "settled", "done", "failed"}

TypeOK ==
  /\ consecutiveFailures \in [Contract -> Nat]
  /\ pc \in [Chunk -> PC]
  /\ idx \in [Chunk -> Nat]
  /\ toRequest \in [Chunk -> SUBSET Pair]
  /\ refused \in [Chunk -> SUBSET Pair]
  /\ balances \subseteq (1..Len(Batches)) \X Pair \X Value
  /\ asked \in [Contract -> Nat]
  /\ rounds \in Nat

(* A chunk is at one of its batches, asks for pairs of that batch only, and *)
(* knows of refused calls when the single calls are settled.                *)
Placed(k) ==
  /\ pc[k] # "done" => idx[k] \in k.from..k.to
  /\ pc[k] = "done" => idx[k] = k.to + 1
  /\ pc[k] \in {"batch", "single", "settled", "failed"} => toRequest[k] \subseteq Batches[idx[k]]
  /\ pc[k] \in {"start", "next", "done"} => toRequest[k] = {}
  /\ refused[k] \subseteq toRequest[k]
  /\ pc[k] \notin {"settled", "failed"} => refused[k] = {}

(* Pair p of batch n is still to be resolved by chunk k. *)
Pending(k, n, p) ==
  \/ n > idx[k]
  \/ n = idx[k] /\ (pc[k] \in {"start", "next"} \/ p \in toRequest[k])

(* The balances that were found for a pair of a batch. *)
Found(n, p) == {b \in balances : b[1] = n /\ b[2] = p}

(* A pair has no balance as long as it is pending, and exactly one after. *)
Accounted ==
  \A k \in Chunk : \A n \in k.from..k.to : \A p \in Batches[n] :
    IF Pending(k, n, p) THEN Found(n, p) = {} ELSE \E v \in Value : Found(n, p) = {<<n, p, v>>}

(* The chunks whose request includes contract c. *)
InFlight(c) == {k \in Chunk : \E p \in toRequest[k] : p[2] = c}

(* A request that included a broken contract has been counted as a failure *)
(* or is still in flight.                                                  *)
Tally == \A c \in Broken : asked[c] = consecutiveFailures[c] + Cardinality(InFlight(c))

IInv ==
  /\ \A k \in Chunk : Placed(k)
  /\ Accounted
  /\ Tally
  /\ BrokenContractIsDropped

-----------------------------------------------------------------------------
(* Facts about chunks and the blacklist.                                   *)

(* The chunks of a round: at most MaxConcurrency, disjoint, and every batch is in one. *)
LEMMA ChunkFacts ==
  /\ IsFiniteSet(Chunk) /\ Cardinality(Chunk) \in Nat /\ Cardinality(Chunk) <= MaxConcurrency
  /\ \A k \in Chunk : /\ k.from \in Nat /\ k.to \in Nat
                      /\ k.from \in 1..Len(Batches) /\ k.to \in k.from..Len(Batches)
  /\ \A j, k \in Chunk : \A n \in Int : n \in j.from..j.to /\ n \in k.from..k.to => j = k
  /\ \A n \in 1..Len(Batches) : \E k \in Chunk : n \in k.from..k.to
  <1>1. /\ IsFiniteSet(Chunk) /\ Cardinality(Chunk) <= MaxConcurrency
        /\ Partition(Chunk, 1, Len(Batches))
    BY BalancesAssumption, ChunksPartition DEF Chunk
  <1>2. Cardinality(Chunk) \in Nat
    BY <1>1, FS_CardinalityType
  <1>3. Len(Batches) \in Nat
    BY BalancesAssumption
  <1> QED
    BY <1>1, <1>2, <1>3 DEF Partition

(* The pairs of a request are finitely many, and their contracts known. *)
LEMMA RequestFacts ==
  ASSUME TypeOK, NEW k \in Chunk, Placed(k)
  PROVE  /\ IsFiniteSet(toRequest[k])
         /\ \A p \in toRequest[k] : p \in Pair /\ p[2] \in Contract
  <1>1. CASE pc[k] \in {"start", "next", "done"}
    BY <1>1, FS_EmptySet DEF Placed
  <1>2. CASE pc[k] \in {"batch", "single", "settled", "failed"}
    <2>1. idx[k] \in 1..Len(Batches) /\ toRequest[k] \in SUBSET Batches[idx[k]]
      BY <1>2, ChunkFacts, BalancesAssumption DEF Placed, TypeOK
    <2>2. IsFiniteSet(Batches[idx[k]]) /\ \A p \in Batches[idx[k]] : p[2] \in Contract
      BY <2>1, BalancesAssumption
    <2>3. IsFiniteSet(toRequest[k])
      BY <2>1, <2>2, FS_Subset
    <2> QED
      BY <2>1, <2>2, <2>3 DEF Pair
  <1> QED
    BY <1>1, <1>2 DEF TypeOK, PC

(* What the blacklist makes of an answer: nothing for a contract that was  *)
(* not asked, a clean slate for one with a balance, one more failure for   *)
(* one that was asked and has none.                                        *)
LEMMA Signals ==
  ASSUME TypeOK, NEW pairs, IsFiniteSet(pairs), NEW result \in [pairs -> Value],
         recordBlacklistSignals(result), NEW c \in Contract
  PROVE  /\ (\A p \in pairs : p[2] # c) => consecutiveFailures'[c] = consecutiveFailures[c]
         /\ (\E p \in pairs : p[2] = c /\ result[p] # MULTICALL_FAILURE)
              => consecutiveFailures'[c] = 0
         /\ (\E p \in pairs : p[2] = c)
            /\ (\A p \in pairs : p[2] = c => result[p] = MULTICALL_FAILURE)
              => consecutiveFailures'[c] = consecutiveFailures[c] + 1
         /\ consecutiveFailures'[c] \in Nat
  <1> DEFINE own    == {p \in pairs : p[2] = c}
             failed == {p \in own : result[p] = MULTICALL_FAILURE}
  <1>1. DOMAIN result = pairs
    OBVIOUS
  <1>2. computeContractStats(result, c) = [failed |-> Cardinality(failed), total |-> Cardinality(own)]
    BY <1>1 DEF computeContractStats
  <1>3. consecutiveFailures'[c] =
          CASE Cardinality(own) = 0                   -> consecutiveFailures[c]
            [] Cardinality(failed) < Cardinality(own) -> 0
            [] OTHER                                  -> consecutiveFailures[c] + 1
    BY <1>2 DEF recordBlacklistSignals
  <1>4. own \in SUBSET pairs /\ failed \in SUBSET own
    OBVIOUS
  <1>5. IsFiniteSet(own)
    BY <1>4, FS_Subset
  <1>6. /\ IsFiniteSet(failed) /\ Cardinality(failed) <= Cardinality(own)
        /\ Cardinality(own) = Cardinality(failed) => own = failed
    BY <1>4, <1>5, FS_Subset
  <1>7. Cardinality(own) \in Nat /\ Cardinality(failed) \in Nat
        /\ (Cardinality(own) = 0 <=> own = {})
    BY <1>5, <1>6, FS_CardinalityType, FS_EmptySet
  <1>8. consecutiveFailures[c] \in Nat
    BY DEF TypeOK
  <1>9. ASSUME \A p \in pairs : p[2] # c
        PROVE  consecutiveFailures'[c] = consecutiveFailures[c]
    <2>1. own = {}
      BY <1>9
    <2> HIDE DEF own, failed
    <2> QED
      BY <2>1, <1>3, <1>7
  <1>10. ASSUME \E p \in pairs : p[2] = c /\ result[p] # MULTICALL_FAILURE
         PROVE  consecutiveFailures'[c] = 0
    <2>1. own # {} /\ own # failed
      BY <1>10
    <2> HIDE DEF own, failed
    <2>2. Cardinality(own) # 0 /\ Cardinality(failed) < Cardinality(own)
      BY <2>1, <1>6, <1>7
    <2> QED
      BY <2>2, <1>3
  <1>11. ASSUME \E p \in pairs : p[2] = c,
                \A p \in pairs : p[2] = c => result[p] = MULTICALL_FAILURE
         PROVE  consecutiveFailures'[c] = consecutiveFailures[c] + 1
    <2>1. own # {} /\ own = failed
      BY <1>11
    <2> HIDE DEF own, failed
    <2>2. Cardinality(own) # 0 /\ ~ Cardinality(failed) < Cardinality(own)
      BY <2>1, <1>7
    <2> QED
      BY <2>2, <1>3
  <1> HIDE DEF own, failed
  <1>12. consecutiveFailures'[c] \in Nat
    BY <1>3, <1>7, <1>8
  <1> QED
    BY <1>9, <1>10, <1>11, <1>12

-----------------------------------------------------------------------------
(* Steps.                                                                  *)

(* A step that resolves some pending pairs of chunk k's batch, and moves   *)
(* the chunk so that exactly those are no longer pending, keeps the        *)
(* account of balances.                                                    *)
LEMMA Resolving ==
  ASSUME TypeOK, Accounted, NEW k \in Chunk, idx[k] \in k.from..k.to,
         NEW done \in SUBSET Batches[idx[k]], NEW value \in [done -> Value],
         \A p \in done : Pending(k, idx[k], p),
         balances' = balances \cup {<<idx[k], p, value[p]>> : p \in done},
         \A j \in Chunk \ {k} : /\ idx'[j] = idx[j] /\ pc'[j] = pc[j]
                                /\ toRequest'[j] = toRequest[j],
         \A n \in k.from..k.to : \A p \in Batches[n] :
           Pending(k, n, p)' <=> Pending(k, n, p) /\ ~ (n = idx[k] /\ p \in done)
  PROVE  Accounted'
  <1> SUFFICES ASSUME NEW j \in Chunk, NEW n \in j.from..j.to, NEW p \in Batches[n]
               PROVE  IF Pending(j, n, p)' THEN Found(n, p)' = {}
                      ELSE \E v \in Value : Found(n, p)' = {<<n, p, v>>}
    BY DEF Accounted
  <1>1. idx[k] \in Int /\ n \in Int
    BY ChunkFacts DEF TypeOK
  <1>2. IF Pending(j, n, p) THEN Found(n, p) = {}
        ELSE \E v \in Value : Found(n, p) = {<<n, p, v>>}
    BY DEF Accounted
  <1>3. CASE n = idx[k] /\ p \in done
    <2>1. j = k
      BY <1>1, <1>3, ChunkFacts
    <2>2. Found(n, p) = {} /\ ~ Pending(j, n, p)'
      BY <1>2, <1>3, <2>1
    <2>3. <<n, p, value[p]>> \in Found(n, p)'
      BY <1>3 DEF Found
    <2>4. \A b \in Found(n, p)' : b = <<n, p, value[p]>>
      BY <1>3, <2>2 DEF Found
    <2>5. value[p] \in Value
      BY <1>3
    <2> QED
      BY <2>2, <2>3, <2>4, <2>5
  <1>4. CASE ~ (n = idx[k] /\ p \in done)
    <2>1. Found(n, p)' = Found(n, p)
      BY <1>4 DEF Found
    <2>2. Pending(j, n, p)' <=> Pending(j, n, p)
      <3>1. CASE j = k
        BY <3>1, <1>4
      <3>2. CASE j # k
        BY <3>2 DEF Pending
      <3> QED
        BY <3>1, <3>2
    <2> QED
      BY <1>2, <2>1, <2>2
  <1> QED
    BY <1>3, <1>4

(* After its batch a chunk is at its next one, or done; the batch it leaves *)
(* has nothing pending.                                                     *)
LEMMA Advancing ==
  ASSUME TypeOK, NEW k \in Chunk, Placed(k), idx[k] \in k.from..k.to, Advance(k)
  PROVE  /\ pc' \in [Chunk -> PC]
         /\ idx' \in [Chunk -> Nat]
         /\ toRequest' \in [Chunk -> SUBSET Pair] /\ toRequest'[k] = {}
         /\ refused' \in [Chunk -> SUBSET Pair]
         /\ Placed(k)'
         /\ \A j \in Chunk \ {k} : /\ idx'[j] = idx[j] /\ pc'[j] = pc[j]
                                   /\ toRequest'[j] = toRequest[j] /\ refused'[j] = refused[j]
         /\ \A n \in k.from..k.to : \A p \in Batches[n] : Pending(k, n, p)' <=> n > idx[k]
  <1>1. /\ idx' = [idx EXCEPT ![k] = idx[k] + 1]
        /\ pc' = [pc EXCEPT ![k] = IF idx[k] = k.to THEN "done" ELSE "next"]
        /\ toRequest' = [toRequest EXCEPT ![k] = {}]
        /\ refused' = [refused EXCEPT ![k] = {}]
    BY DEF Advance
  <1>2. k.from \in Nat /\ k.to \in Nat /\ idx[k] \in Nat
    BY ChunkFacts DEF TypeOK
  <1>3. /\ idx'[k] = idx[k] + 1 /\ toRequest'[k] = {} /\ refused'[k] = {}
        /\ pc'[k] = IF idx[k] = k.to THEN "done" ELSE "next"
    BY <1>1 DEF TypeOK
  <1>4. /\ pc' \in [Chunk -> PC]
        /\ idx' \in [Chunk -> Nat]
        /\ toRequest' \in [Chunk -> SUBSET Pair] /\ refused' \in [Chunk -> SUBSET Pair]
        /\ \A j \in Chunk \ {k} : /\ idx'[j] = idx[j] /\ pc'[j] = pc[j]
                                  /\ toRequest'[j] = toRequest[j] /\ refused'[j] = refused[j]
    BY <1>1, <1>2 DEF TypeOK, PC
  <1>5. Placed(k)'
    BY <1>2, <1>3 DEF Placed
  <1>6. \A n \in k.from..k.to : \A p \in Batches[n] : Pending(k, n, p)' <=> n > idx[k]
    BY <1>2, <1>3 DEF Pending
  <1> QED
    BY <1>3, <1>4, <1>5, <1>6

(* Which chunks have a contract in flight changes with one chunk's request. *)
LEMMA InFlightChanges ==
  ASSUME TypeOK, NEW k \in Chunk, NEW c \in Contract,
         \A j \in Chunk \ {k} : toRequest'[j] = toRequest[j]
  PROVE  /\ IsFiniteSet(InFlight(c)) /\ Cardinality(InFlight(c)) \in Nat
         /\ Cardinality(InFlight(c)) <= Cardinality(Chunk)
         /\ k \notin InFlight(c) => Cardinality(InFlight(c)) <= Cardinality(Chunk) - 1
         /\ (k \in InFlight(c) <=> k \in InFlight(c)')
              => Cardinality(InFlight(c)') = Cardinality(InFlight(c))
         /\ (k \notin InFlight(c) /\ k \in InFlight(c)')
              => Cardinality(InFlight(c)') = Cardinality(InFlight(c)) + 1
         /\ (k \in InFlight(c) /\ k \notin InFlight(c)')
              => Cardinality(InFlight(c)') = Cardinality(InFlight(c)) - 1
  <1> DEFINE before == InFlight(c)
             after  == InFlight(c)'
  <1>1. before \in SUBSET Chunk /\ (k \notin before => before \in SUBSET (Chunk \ {k}))
    BY DEF InFlight
  <1>2. \A j \in Chunk \ {k} : j \in before <=> j \in after
    BY DEF InFlight
  <1>3. after \in SUBSET Chunk
    BY DEF InFlight
  <1>4. IsFiniteSet(Chunk) /\ Cardinality(Chunk) \in Nat
    BY ChunkFacts
  <1> HIDE DEF before, after
  <1>5. IsFiniteSet(before) /\ Cardinality(before) <= Cardinality(Chunk)
    BY <1>1, <1>4, FS_Subset
  <1>6. Cardinality(before) \in Nat
    BY <1>5, FS_CardinalityType
  <1>7. k \notin before => Cardinality(before) <= Cardinality(Chunk) - 1
    <2>1. IsFiniteSet(Chunk \ {k}) /\ Cardinality(Chunk \ {k}) = Cardinality(Chunk) - 1
      BY <1>4, FS_RemoveElement
    <2> QED
      BY <2>1, <1>1, FS_Subset
  <1>8. (k \in before <=> k \in after) => after = before
    BY <1>1, <1>2, <1>3
  <1>9. k \notin before /\ k \in after => Cardinality(after) = Cardinality(before) + 1
    <2>1. k \notin before /\ k \in after => after = before \cup {k}
      BY <1>1, <1>2, <1>3
    <2> QED
      BY <2>1, <1>5, FS_AddElement
  <1>10. k \in before /\ k \notin after => Cardinality(after) = Cardinality(before) - 1
    <2>1. k \in before /\ k \notin after => after = before \ {k}
      BY <1>1, <1>2, <1>3
    <2> QED
      BY <2>1, <1>5, FS_RemoveElement
  <1> QED
    BY <1>5, <1>6, <1>7, <1>8, <1>9, <1>10 DEF before, after

(* splitPerBlacklist: the skipped pairs get their failure at once. A broken *)
(* contract is asked again only below the threshold.                        *)
LEMMA SplitStep ==
  ASSUME TypeOK, IInv, NEW k \in Chunk, Split(k)
  PROVE  TypeOK' /\ IInv'
  <1> DEFINE batch     == Batches[idx[k]]
             requested == {p \in batch : ~isBlacklisted(p[2])}
             skipped   == batch \ requested
  <1>1. /\ pc[k] \in {"start", "next"}
        /\ balances' = balances \cup {<<idx[k], p, MULTICALL_FAILURE>> : p \in skipped}
        /\ consecutiveFailures' = consecutiveFailures /\ rounds' = rounds
    BY DEF Split
  <1>2. /\ idx[k] \in k.from..k.to /\ toRequest[k] = {} /\ Placed(k)
        /\ k.from \in Nat /\ k.to \in Nat /\ idx[k] \in 1..Len(Batches) /\ idx[k] \in Nat
    BY <1>1, ChunkFacts, BalancesAssumption DEF IInv, Placed
  <1>3. batch \subseteq Pair /\ \A p \in batch : p[2] \in Contract
    BY <1>2, BalancesAssumption DEF Pair
  <1>4. balances' \subseteq (1..Len(Batches)) \X Pair \X Value
    BY <1>1, <1>2, <1>3 DEF TypeOK, Value
  <1>5. [p \in skipped |-> MULTICALL_FAILURE] \in [skipped -> Value]
    BY DEF Value
  <1>6. balances' = balances \cup {<<idx[k], p, [q \in skipped |-> MULTICALL_FAILURE][p]>> : p \in skipped}
    BY <1>1
  <1>7. \A p \in skipped : Pending(k, idx[k], p)
    BY <1>1 DEF Pending
  <1>8. CASE requested = {} /\ Advance(k) /\ asked' = asked
    <2>1. /\ pc' \in [Chunk -> PC]
          /\ idx' \in [Chunk -> Nat]
          /\ toRequest' \in [Chunk -> SUBSET Pair] /\ toRequest'[k] = {}
          /\ refused' \in [Chunk -> SUBSET Pair]
          /\ Placed(k)'
          /\ \A j \in Chunk \ {k} : /\ idx'[j] = idx[j] /\ pc'[j] = pc[j]
                                    /\ toRequest'[j] = toRequest[j] /\ refused'[j] = refused[j]
          /\ \A n \in k.from..k.to : \A p \in Batches[n] : Pending(k, n, p)' <=> n > idx[k]
      BY <1>2, <1>8, Advancing
    <2>2. TypeOK'
      BY <2>1, <1>1, <1>4, <1>8 DEF TypeOK
    <2>3. \A j \in Chunk : Placed(j)'
      BY <2>1 DEF IInv, Placed
    <2>4. skipped = batch
      BY <1>8
    <2>5. \A n \in k.from..k.to : \A p \in Batches[n] :
            Pending(k, n, p)' <=> Pending(k, n, p) /\ ~ (n = idx[k] /\ p \in skipped)
      BY <2>1, <2>4, <1>1, <1>2 DEF Pending
    <2>6. skipped \in SUBSET Batches[idx[k]]
      OBVIOUS
    <2> HIDE DEF batch, requested, skipped
    <2>7. Accounted'
      BY <2>1, <2>5, <2>6, <1>2, <1>5, <1>6, <1>7, Resolving DEF IInv
    <2>8. \A c \in Contract : InFlight(c)' = InFlight(c)
      BY <2>1, <1>2 DEF InFlight
    <2>9. Tally' /\ BrokenContractIsDropped'
      BY <2>8, <1>1, <1>8, BalancesAssumption DEF IInv, Tally, BrokenContractIsDropped
    <2> QED
      BY <2>2, <2>3, <2>7, <2>9 DEF IInv
  <1>9. CASE /\ requested # {}
             /\ toRequest' = [toRequest EXCEPT ![k] = requested]
             /\ asked' = [c \in Contract |->
                            asked[c] + IF \E p \in requested : p[2] = c THEN 1 ELSE 0]
             /\ pc' = [pc EXCEPT ![k] = "batch"]
             /\ idx' = idx /\ refused' = refused
    <2>1. /\ pc'[k] = "batch" /\ toRequest'[k] = requested
          /\ \A j \in Chunk \ {k} : /\ idx'[j] = idx[j] /\ pc'[j] = pc[j]
                                    /\ toRequest'[j] = toRequest[j]
      BY <1>9 DEF TypeOK, PC
    <2>2. TypeOK'
      <3>1. requested \in SUBSET Pair
        BY <1>3
      <3>2. asked' \in [Contract -> Nat]
        BY <1>9 DEF TypeOK
      <3> HIDE DEF requested
      <3>3. /\ pc' \in [Chunk -> PC]
            /\ idx' \in [Chunk -> Nat] /\ toRequest' \in [Chunk -> SUBSET Pair]
        BY <3>1, <1>9 DEF TypeOK, PC
      <3> QED
        BY <3>2, <3>3, <1>1, <1>4, <1>9 DEF TypeOK
    <2>3. \A j \in Chunk : Placed(j)'
      <3>1. Placed(k)'
        BY <2>1, <1>2, <1>9 DEF Placed
      <3> QED
        BY <3>1, <2>1, <1>9 DEF IInv, Placed
    <2>4. \A n \in k.from..k.to : \A p \in Batches[n] :
            Pending(k, n, p)' <=> Pending(k, n, p) /\ ~ (n = idx[k] /\ p \in skipped)
      BY <2>1, <1>1, <1>2, <1>9 DEF Pending
    <2>5. skipped \in SUBSET Batches[idx[k]]
      OBVIOUS
    <2>6. Accounted'
      <3> HIDE DEF batch, requested, skipped
      <3> QED
        BY <2>1, <2>4, <2>5, <1>2, <1>5, <1>6, <1>7, Resolving DEF IInv
    <2>7. ASSUME NEW c \in Broken
          PROVE  /\ asked'[c] = consecutiveFailures'[c] + Cardinality(InFlight(c)')
                 /\ asked'[c] <= FailureThreshold + Cardinality(Chunk) - 1
      <3>1. c \in Contract /\ FailureThreshold \in Nat /\ Cardinality(Chunk) \in Nat
        BY BalancesAssumption, ChunkFacts
      <3>2. /\ asked[c] = consecutiveFailures[c] + Cardinality(InFlight(c))
            /\ asked[c] <= FailureThreshold + Cardinality(Chunk) - 1
            /\ asked[c] \in Nat /\ consecutiveFailures[c] \in Nat
        BY <3>1 DEF IInv, Tally, BrokenContractIsDropped, TypeOK
      <3>3. k \notin InFlight(c)
        BY <1>2 DEF InFlight
      <3>4. /\ Cardinality(InFlight(c)) \in Nat
            /\ Cardinality(InFlight(c)) <= Cardinality(Chunk) - 1
        BY <2>1, <3>1, <3>3, InFlightChanges
      <3>5. CASE \E p \in requested : p[2] = c
        <4>1. consecutiveFailures[c] < FailureThreshold
          BY <3>5, <3>1, <3>2 DEF isBlacklisted
        <4>2. k \in InFlight(c)'
          BY <3>5, <2>1 DEF InFlight
        <4>3. Cardinality(InFlight(c)') = Cardinality(InFlight(c)) + 1
          BY <4>2, <2>1, <3>1, <3>3, InFlightChanges
        <4>4. asked'[c] = asked[c] + 1
          BY <3>5, <3>1, <1>9
        <4> QED
          BY <4>1, <4>3, <4>4, <3>1, <3>2, <3>4, <1>1
      <3>6. CASE ~ \E p \in requested : p[2] = c
        <4>1. k \notin InFlight(c)'
          BY <3>6, <2>1 DEF InFlight
        <4>2. Cardinality(InFlight(c)') = Cardinality(InFlight(c))
          BY <4>1, <2>1, <3>1, <3>3, InFlightChanges
        <4>3. asked'[c] = asked[c]
          BY <3>6, <3>1, <3>2, <1>9
        <4> QED
          BY <4>2, <4>3, <3>2, <1>1
      <3> QED
        BY <3>5, <3>6
    <2>8. Tally' /\ BrokenContractIsDropped'
      BY <2>7 DEF Tally, BrokenContractIsDropped
    <2> QED
      BY <2>2, <2>3, <2>6, <2>8 DEF IInv
  <1> QED
    BY <1>8, <1>9 DEF Split

(* A request is answered for every pair, at once or one by one, and every  *)
(* pair of a broken contract fails.                                        *)
LEMMA FinishStep ==
  ASSUME TypeOK, IInv, NEW k \in Chunk, pc[k] \in {"batch", "settled"},
         NEW result \in [toRequest[k] -> Value],
         \A p \in toRequest[k] : p[2] \in Broken => result[p] = MULTICALL_FAILURE,
         Finish(k, result)
  PROVE  TypeOK' /\ IInv'
  <1>1. /\ balances' = balances \cup {<<idx[k], p, result[p]>> : p \in toRequest[k]}
        /\ recordBlacklistSignals(result) /\ Advance(k)
        /\ asked' = asked /\ rounds' = rounds
    BY DEF Finish
  <1>2. /\ idx[k] \in k.from..k.to /\ toRequest[k] \in SUBSET Batches[idx[k]] /\ Placed(k)
        /\ k.from \in Nat /\ k.to \in Nat /\ idx[k] \in 1..Len(Batches) /\ idx[k] \in Nat
    BY ChunkFacts, BalancesAssumption DEF IInv, Placed
  <1>3. /\ IsFiniteSet(toRequest[k])
        /\ \A p \in toRequest[k] : p \in Pair /\ p[2] \in Contract
    BY <1>2, RequestFacts
  <1>4. /\ pc' \in [Chunk -> PC]
        /\ idx' \in [Chunk -> Nat]
        /\ toRequest' \in [Chunk -> SUBSET Pair] /\ toRequest'[k] = {}
        /\ refused' \in [Chunk -> SUBSET Pair]
        /\ Placed(k)'
        /\ \A j \in Chunk \ {k} : /\ idx'[j] = idx[j] /\ pc'[j] = pc[j]
                                  /\ toRequest'[j] = toRequest[j] /\ refused'[j] = refused[j]
        /\ \A n \in k.from..k.to : \A p \in Batches[n] : Pending(k, n, p)' <=> n > idx[k]
    BY <1>1, <1>2, Advancing
  <1>5. TypeOK'
    <2>1. balances' \subseteq (1..Len(Batches)) \X Pair \X Value
      BY <1>1, <1>2, <1>3 DEF TypeOK
    <2>2. consecutiveFailures' = [c \in Contract |-> consecutiveFailures'[c]]
      BY <1>1 DEF recordBlacklistSignals
    <2>3. \A c \in Contract : consecutiveFailures'[c] \in Nat
      BY <1>1, <1>3, Signals
    <2>4. consecutiveFailures' \in [Contract -> Nat]
      BY <2>2, <2>3
    <2> QED
      BY <2>1, <2>4, <1>1, <1>4 DEF TypeOK
  <1>6. \A j \in Chunk : Placed(j)'
    BY <1>4 DEF IInv, Placed
  <1>7. Accounted'
    <2>1. \A p \in toRequest[k] : Pending(k, idx[k], p)
      BY DEF Pending
    <2>2. \A n \in k.from..k.to : \A p \in Batches[n] :
            Pending(k, n, p)' <=> Pending(k, n, p) /\ ~ (n = idx[k] /\ p \in toRequest[k])
      BY <1>2, <1>4 DEF Pending
    <2> QED
      BY <2>1, <2>2, <1>1, <1>2, <1>4, Resolving DEF IInv
  <1>8. ASSUME NEW c \in Broken
        PROVE  asked'[c] = consecutiveFailures'[c] + Cardinality(InFlight(c)')
    <2>1. c \in Contract
      BY BalancesAssumption
    <2>2. /\ asked[c] = consecutiveFailures[c] + Cardinality(InFlight(c))
          /\ asked[c] \in Nat /\ consecutiveFailures[c] \in Nat
      BY <2>1 DEF IInv, Tally, TypeOK
    <2>3. k \notin InFlight(c)'
      BY <1>4 DEF InFlight
    <2>4. Cardinality(InFlight(c)) \in Nat
      BY <1>4, <2>1, InFlightChanges
    <2>5. CASE \E p \in toRequest[k] : p[2] = c
      <3>1. consecutiveFailures'[c] = consecutiveFailures[c] + 1
        BY <2>1, <2>5, <1>1, <1>3, Signals
      <3>2. k \in InFlight(c)
        BY <2>5 DEF InFlight
      <3>3. Cardinality(InFlight(c)') = Cardinality(InFlight(c)) - 1
        BY <3>2, <2>1, <2>3, <1>4, InFlightChanges
      <3> QED
        BY <3>1, <3>3, <2>2, <2>4, <1>1
    <2>6. CASE ~ \E p \in toRequest[k] : p[2] = c
      <3>1. consecutiveFailures'[c] = consecutiveFailures[c]
        BY <2>1, <2>6, <1>1, <1>3, Signals
      <3>2. k \notin InFlight(c)
        BY <2>6 DEF InFlight
      <3>3. Cardinality(InFlight(c)') = Cardinality(InFlight(c))
        BY <3>2, <2>1, <2>3, <1>4, InFlightChanges
      <3> QED
        BY <3>1, <3>3, <2>2, <1>1
    <2> QED
      BY <2>5, <2>6
  <1>9. BrokenContractIsDropped'
    BY <1>1 DEF IInv, BrokenContractIsDropped
  <1> QED
    BY <1>5, <1>6, <1>7, <1>8, <1>9 DEF IInv, Tally

(* A chunk that only waits for, is told of, or gives up on, its request. *)
LEMMA WaitStep ==
  ASSUME TypeOK, IInv, NEW k \in Chunk, NEW where \in {"single", "settled", "failed"},
         NEW rejected \in SUBSET toRequest[k],
         pc[k] \in {"batch", "single", "settled"}, pc' = [pc EXCEPT ![k] = where],
         refused' = [refused EXCEPT ![k] = rejected], where = "single" => rejected = {},
         UNCHANGED <<consecutiveFailures, idx, toRequest, balances, asked, rounds>>
  PROVE  TypeOK' /\ IInv'
  <1>1. /\ TypeOK' /\ pc'[k] = where /\ refused'[k] = rejected
        /\ \A j \in Chunk \ {k} : pc'[j] = pc[j] /\ refused'[j] = refused[j]
    BY DEF TypeOK, PC
  <1>2. \A j \in Chunk : Placed(j)'
    BY <1>1 DEF IInv, Placed
  <1>3. Accounted'
    <2>1. \A j \in Chunk : \A n, p : Pending(j, n, p)' <=> Pending(j, n, p)
      BY <1>1 DEF Pending
    <2>2. \A n, p : Found(n, p)' = Found(n, p)
      BY DEF Found
    <2> QED
      BY <2>1, <2>2 DEF IInv, Accounted
  <1>4. Tally' /\ BrokenContractIsDropped'
    BY DEF IInv, Tally, InFlight, BrokenContractIsDropped
  <1> QED
    BY <1>1, <1>2, <1>3, <1>4 DEF IInv

(* A chunk that has not begun has everything pending. *)
LEMMA FreshRound ==
  ASSUME pc' = [k \in Chunk |-> "start"], idx' = [k \in Chunk |-> k.from],
         toRequest' = [k \in Chunk |-> {}], refused' = [k \in Chunk |-> {}], balances' = {}
  PROVE  /\ \A k \in Chunk : Placed(k)'
         /\ Accounted'
         /\ \A c : InFlight(c)' = {}
  <1>1. \A k \in Chunk : pc'[k] = "start" /\ idx'[k] = k.from /\ toRequest'[k] = {}
                         /\ refused'[k] = {} /\ k.from \in Nat /\ k.to \in Nat /\ k.from \in k.from..k.to
    BY ChunkFacts
  <1>2. \A k \in Chunk : Placed(k)'
    BY <1>1 DEF Placed
  <1>3. \A k \in Chunk : \A n \in k.from..k.to : \A p : Pending(k, n, p)'
    BY <1>1 DEF Pending
  <1>4. \A n, p : Found(n, p)' = {}
    BY DEF Found
  <1>5. Accounted'
    BY <1>3, <1>4 DEF Accounted
  <1>6. \A c : InFlight(c)' = {}
    BY <1>1 DEF InFlight
  <1> QED
    BY <1>2, <1>5, <1>6

(* The next interval, or the next process, begins with everything pending  *)
(* and nothing in flight. The tally carries over from one interval to the  *)
(* next because a chunk that is done has no request.                       *)
LEMMA RoundStep ==
  ASSUME TypeOK, IInv, NextInterval \/ Restart
  PROVE  TypeOK' /\ IInv'
  <1>1. /\ rounds' = rounds + 1
        /\ pc' = [k \in Chunk |-> "start"] /\ idx' = [k \in Chunk |-> k.from]
        /\ toRequest' = [k \in Chunk |-> {}] /\ refused' = [k \in Chunk |-> {}]
        /\ balances' = {}
    BY DEF NextInterval, Restart, NewRound
  <1>2. consecutiveFailures' \in [Contract -> Nat] /\ asked' \in [Contract -> Nat]
    BY DEF NextInterval, Restart, TypeOK
  <1>3. TypeOK'
    BY <1>1, <1>2, ChunkFacts DEF TypeOK, PC
  <1>4. (\A k \in Chunk : Placed(k)') /\ Accounted' /\ \A c : InFlight(c)' = {}
    BY <1>1, FreshRound
  <1>5. \A c : Cardinality(InFlight(c)') = 0
    BY <1>4, FS_EmptySet
  <1>6. CASE NextInterval
    <2>1. \A c : InFlight(c) = {}
      BY <1>6 DEF NextInterval, IInv, Placed, InFlight
    <2>2. \A c : Cardinality(InFlight(c)) = 0
      BY <2>1, FS_EmptySet
    <2>3. Tally' /\ BrokenContractIsDropped'
      BY <2>2, <1>5, <1>6 DEF NextInterval, IInv, Tally, BrokenContractIsDropped
    <2> QED
      BY <2>3, <1>3, <1>4 DEF IInv
  <1>7. CASE Restart
    <2>1. \A c \in Broken : asked'[c] = 0 /\ consecutiveFailures'[c] = 0
      BY <1>7, BalancesAssumption DEF Restart
    <2>2. FailureThreshold + Cardinality(Chunk) - 1 >= 0
      BY BalancesAssumption, ChunkFacts
    <2>3. Tally' /\ BrokenContractIsDropped'
      BY <2>1, <2>2, <1>5 DEF Tally, BrokenContractIsDropped
    <2> QED
      BY <2>3, <1>3, <1>4 DEF IInv
  <1> QED
    BY <1>6, <1>7

-----------------------------------------------------------------------------
(* Theorems.                                                               *)

(* Every step keeps the invariant. *)
LEMMA InvInductive ==
  ASSUME TypeOK, IInv, [Next]_vars
  PROVE  TypeOK' /\ IInv'
  <1>1. ASSUME NEW k \in Chunk, Split(k) PROVE TypeOK' /\ IInv'
    BY <1>1, SplitStep
  <1>2. ASSUME NEW k \in Chunk, BatchAnswered(k) PROVE TypeOK' /\ IInv'
    <2>1. PICK r \in Answers(toRequest[k]) : Finish(k, r)
      BY <1>2 DEF BatchAnswered
    <2>2. r \in [toRequest[k] -> Value]
          /\ \A p \in toRequest[k] : p[2] \in Broken => r[p] = MULTICALL_FAILURE
      BY DEF Answers, Answer, Value
    <2> QED
      BY <1>2, <2>1, <2>2, FinishStep DEF BatchAnswered
  <1>3. ASSUME NEW k \in Chunk, BatchRefused(k) PROVE TypeOK' /\ IInv'
    <2>1. Placed(k) /\ pc[k] = "batch" /\ refused' = refused
      BY <1>3 DEF BatchRefused, IInv
    <2>2. refused[k] = {}
      BY <2>1 DEF Placed
    <2>3. refused' = [refused EXCEPT ![k] = {}]
      BY <2>1, <2>2 DEF TypeOK
    <2> QED
      BY <1>3, <2>3, WaitStep DEF BatchRefused
  <1>4. ASSUME NEW k \in Chunk, SinglesSettled(k) PROVE TypeOK' /\ IInv'
    <2>1. PICK rejected \in SUBSET toRequest[k] : refused' = [refused EXCEPT ![k] = rejected]
      BY <1>4 DEF SinglesSettled
    <2> QED
      BY <1>4, <2>1, WaitStep DEF SinglesSettled
  <1>5. ASSUME NEW k \in Chunk, SinglesTaken(k) PROVE TypeOK' /\ IInv'
    <2>1. PICK r \in Answers(toRequest[k]) : Finish(k, WithRefused(k, r))
      BY <1>5 DEF SinglesTaken
    <2>2. WithRefused(k, r) \in [toRequest[k] -> Value]
          /\ \A p \in toRequest[k] : p[2] \in Broken => WithRefused(k, r)[p] = MULTICALL_FAILURE
      BY DEF WithRefused, Answers, Answer, Value
    <2> QED
      BY <1>5, <2>1, <2>2, FinishStep DEF SinglesTaken
  <1>8. ASSUME NEW k \in Chunk, AllSinglesRejected(k) PROVE TypeOK' /\ IInv'
    <2>1. refused[k] \in SUBSET toRequest[k] /\ refused' = [refused EXCEPT ![k] = refused[k]]
      BY <1>8 DEF AllSinglesRejected, TypeOK
    <2> QED
      BY <1>8, <2>1, WaitStep DEF AllSinglesRejected
  <1>6. CASE NextInterval \/ Restart
    BY <1>6, RoundStep
  <1>7. CASE UNCHANGED vars
    <2>1. UNCHANGED <<consecutiveFailures, pc, idx, toRequest, refused, balances, asked, rounds>>
      BY <1>7 DEF vars
    <2>2. TypeOK' /\ \A k \in Chunk : Placed(k)'
      BY <2>1 DEF TypeOK, IInv, Placed
    <2>3. \A k \in Chunk : \A n, p : /\ Pending(k, n, p)' <=> Pending(k, n, p)
                                     /\ Found(n, p)' = Found(n, p)
      BY <2>1 DEF Pending, Found
    <2>4. Accounted'
      BY <2>3 DEF IInv, Accounted
    <2>5. Tally' /\ BrokenContractIsDropped'
      BY <2>1 DEF IInv, Tally, InFlight, BrokenContractIsDropped
    <2> QED
      BY <2>2, <2>4, <2>5 DEF IInv
  <1> QED
    BY <1>1, <1>2, <1>3, <1>4, <1>5, <1>6, <1>7, <1>8 DEF Next, ChunkStep

(* No request is in flight and nothing is resolved. *)
LEMMA InvInitially == Init => TypeOK /\ IInv
  <1> SUFFICES ASSUME Init PROVE TypeOK /\ IInv
    OBVIOUS
  <1>1. /\ pc = [k \in Chunk |-> "start"] /\ idx = [k \in Chunk |-> k.from]
        /\ toRequest = [k \in Chunk |-> {}] /\ refused = [k \in Chunk |-> {}] /\ balances = {}
        /\ consecutiveFailures = [c \in Contract |-> 0] /\ asked = [c \in Contract |-> 0]
        /\ rounds = 0
    BY DEF Init
  <1>2. \A k \in Chunk : pc[k] = "start" /\ idx[k] = k.from /\ toRequest[k] = {}
                         /\ refused[k] = {} /\ k.from \in Nat /\ k.to \in Nat /\ k.from \in k.from..k.to
    BY <1>1, ChunkFacts
  <1>3. TypeOK
    BY <1>1, <1>2 DEF TypeOK, PC
  <1>4. \A k \in Chunk : Placed(k)
    BY <1>2 DEF Placed
  <1>5. Accounted
    <2>1. \A k \in Chunk : \A n \in k.from..k.to : \A p : Pending(k, n, p)
      BY <1>2 DEF Pending
    <2>2. \A n, p : Found(n, p) = {}
      BY <1>1 DEF Found
    <2> QED
      BY <2>1, <2>2 DEF Accounted
  <1>6. \A c : InFlight(c) = {}
    BY <1>2 DEF InFlight
  <1>7. \A c : Cardinality(InFlight(c)) = 0
    BY <1>6, FS_EmptySet
  <1>8. \A c \in Broken : asked[c] = 0 /\ consecutiveFailures[c] = 0
    BY <1>1, BalancesAssumption
  <1>9. FailureThreshold + Cardinality(Chunk) - 1 >= 0
    BY BalancesAssumption, ChunkFacts
  <1> QED
    BY <1>3, <1>4, <1>5, <1>7, <1>8, <1>9 DEF IInv, Tally, BrokenContractIsDropped

(* So it holds in every reachable state. *)
LEMMA InvAlways == Spec => [](TypeOK /\ IInv)
  BY InvInitially, InvInductive, PTL DEF Spec

(* Every event finds exactly one balance when the chunks are done, however *)
(* the pairs are batched, the batches dealt to chunks, the requests        *)
(* answered, refused or split, and whatever the blacklist skips            *)
(* (extendTransfersWithBalances' assertion never fails).                   *)
THEOREM OneBalanceEach == Spec => []EveryPairResolvedOnce
  <1>1. ASSUME TypeOK, IInv PROVE EveryPairResolvedOnce
    <2> SUFFICES ASSUME \A k \in Chunk : pc[k] = "done",
                        NEW n \in 1..Len(Batches), NEW p \in Batches[n]
                 PROVE  Cardinality(Found(n, p)) = 1
      BY DEF EveryPairResolvedOnce, Found
    <2>1. PICK k \in Chunk : n \in k.from..k.to
      BY ChunkFacts
    <2>2. idx[k] = k.to + 1 /\ toRequest[k] = {} /\ k.to \in Nat
      BY <1>1, ChunkFacts DEF IInv, Placed
    <2>3. ~ Pending(k, n, p)
      BY <2>1, <2>2, ChunkFacts DEF Pending
    <2>4. \E v \in Value : Found(n, p) = {<<n, p, v>>}
      BY <2>1, <2>3, <1>1 DEF IInv, Accounted
    <2> QED
      BY <2>4, FS_Singleton
  <1> QED
    BY <1>1, InvAlways, PTL

(* A contract that always reverts is asked at most threshold - 1 times and  *)
(* once more by each chunk, in one process, however many intervals it       *)
(* exports.                                                                 *)
THEOREM BrokenDropped == Spec => []BrokenContractIsDropped
  <1>1. IInv => BrokenContractIsDropped
    BY DEF IInv
  <1> QED
    BY <1>1, InvAlways, PTL

(* A request that is answered for every pair blames contracts and marks     *)
(* balances failed only with a cause.                                       *)
LEMMA FinishHasCause ==
  ASSUME TypeOK, IInv, NEW k \in Chunk, pc[k] \in {"batch", "settled"},
         refused[k] # toRequest[k] \/ toRequest[k] = {},
         NEW result \in [toRequest[k] -> Value], Finish(k, result),
         \A p \in toRequest[k] \ refused[k] : p[2] \in Healthy => result[p] # MULTICALL_FAILURE
  PROVE  BlamesWithCause /\ FailsWithCause
  <1>1. /\ recordBlacklistSignals(result)
        /\ balances' = balances \cup {<<idx[k], p, result[p]>> : p \in toRequest[k]}
        /\ pc'[k] \in {"next", "done"}
    BY DEF Finish, Advance, TypeOK
  <1>2. IsFiniteSet(toRequest[k])
    BY RequestFacts DEF IInv
  <1>3. BlamesWithCause
    <2> SUFFICES ASSUME NEW c \in Contract, consecutiveFailures'[c] > consecutiveFailures[c]
                 PROVE  SpeaksAgainst(k, c)
      BY DEF BlamesWithCause
    <2>1. consecutiveFailures[c] \in Nat
      BY DEF TypeOK
    <2>2. Own(k, c) # {}
      BY <1>1, <1>2, <2>1, Signals DEF Own
    <2>3. ~ \E p \in toRequest[k] : p[2] = c /\ result[p] # MULTICALL_FAILURE
      BY <1>1, <1>2, <2>1, Signals
    <2>4. c \in Healthy => Own(k, c) \subseteq refused[k]
      BY <2>3 DEF Own
    <2>5. refused[k] # toRequest[k]
      BY <2>2 DEF Own
    <2> QED
      BY <1>1, <2>2, <2>4, <2>5 DEF SpeaksAgainst
  <1>4. FailsWithCause
    <2> SUFFICES ASSUME NEW b \in balances' \ balances, b[3] = MULTICALL_FAILURE, b[2][2] \in Healthy
                 PROVE  idx[k] = b[1] /\ b[2] \in refused[k] /\ refused[k] # toRequest[k]
      BY DEF FailsWithCause
    <2>1. PICK p \in toRequest[k] : b = <<idx[k], p, result[p]>>
      BY <1>1
    <2>2. b[1] = idx[k] /\ b[2] = p /\ result[p] = MULTICALL_FAILURE /\ p[2] \in Healthy
      BY <2>1
    <2> QED
      BY <2>2
  <1> QED
    BY <1>3, <1>4

(* An outage is not held against any contract: a request that is refused as *)
(* a whole, whichever contracts it asks for, adds no failure and marks no    *)
(* balance failed, and a contract that never reverts is blamed only when all *)
(* of its own calls were refused and a call to another one was not.          *)
THEOREM NobodyBlamed == Spec => OutageBlamesNobody
  <1>1. ASSUME TypeOK, IInv, [Next]_vars PROVE BlamesWithCause /\ FailsWithCause
    <2>1. ASSUME consecutiveFailures' = consecutiveFailures, balances' \subseteq balances
          PROVE  BlamesWithCause /\ FailsWithCause
      BY <1>1, <2>1 DEF TypeOK, BlamesWithCause, FailsWithCause
    <2>2. ASSUME NEW k \in Chunk, Split(k) PROVE BlamesWithCause /\ FailsWithCause
      <3>1. BlamesWithCause
        BY <1>1, <2>2 DEF Split, TypeOK, BlamesWithCause
      <3>2. FailsWithCause
        <4> SUFFICES ASSUME NEW b \in balances' \ balances PROVE isBlacklisted(b[2][2])
          BY DEF FailsWithCause
        <4>1. PICK p \in Batches[idx[k]] :
                isBlacklisted(p[2]) /\ b = <<idx[k], p, MULTICALL_FAILURE>>
          BY <2>2 DEF Split
        <4> QED
          BY <4>1
      <3> QED
        BY <3>1, <3>2
    <2>3. ASSUME NEW k \in Chunk, BatchAnswered(k) PROVE BlamesWithCause /\ FailsWithCause
      <3>1. PICK r \in Answers(toRequest[k]) : Finish(k, r)
        BY <2>3 DEF BatchAnswered
      <3>2. r \in [toRequest[k] -> Value]
            /\ \A p \in toRequest[k] : p[2] \in Healthy => r[p] # MULTICALL_FAILURE
        BY BalancesAssumption DEF Answers, Answer, Value, MULTICALL_FAILURE
      <3>3. pc[k] = "batch" /\ refused[k] = {}
        BY <1>1, <2>3 DEF BatchAnswered, IInv, Placed
      <3> QED
        BY <1>1, <3>1, <3>2, <3>3, FinishHasCause
    <2>4. ASSUME NEW k \in Chunk, SinglesTaken(k) PROVE BlamesWithCause /\ FailsWithCause
      <3>1. PICK r \in Answers(toRequest[k]) : Finish(k, WithRefused(k, r))
        BY <2>4 DEF SinglesTaken
      <3>2. WithRefused(k, r) \in [toRequest[k] -> Value]
            /\ \A p \in toRequest[k] \ refused[k] :
                  p[2] \in Healthy => WithRefused(k, r)[p] # MULTICALL_FAILURE
        BY BalancesAssumption DEF WithRefused, Answers, Answer, Value, MULTICALL_FAILURE
      <3>3. pc[k] = "settled" /\ refused[k] # toRequest[k]
        BY <2>4 DEF SinglesTaken
      <3> QED
        BY <1>1, <3>1, <3>2, <3>3, FinishHasCause
    <2>5. ASSUME NEW k \in Chunk, BatchRefused(k) \/ SinglesSettled(k) \/ AllSinglesRejected(k)
          PROVE  BlamesWithCause /\ FailsWithCause
      BY <2>1, <2>5 DEF BatchRefused, SinglesSettled, AllSinglesRejected
    <2>6. CASE NextInterval
      BY <2>1, <2>6 DEF NextInterval, NewRound
    <2>7. CASE Restart
      BY <1>1, <2>7 DEF Restart, NewRound, TypeOK, BlamesWithCause, FailsWithCause
    <2>8. CASE UNCHANGED vars
      BY <2>1, <2>8 DEF vars
    <2> QED
      BY <1>1, <2>2, <2>3, <2>4, <2>5, <2>6, <2>7, <2>8 DEF Next, ChunkStep
  <1> QED
    BY <1>1, InvAlways, PTL DEF Spec, OutageBlamesNobody

=============================================================================
