----------------------------- MODULE TokenEvents -----------------------------
(***************************************************************************)
(* How the ERC20 and Matic workers make transfers of the logs of a node     *)
(* (src/src/blockchains/erc20/lib, src/src/blockchains/matic/lib).          *)
(*                                                                         *)
(* A log has its block, transaction and index, the contract that emitted    *)
(* it, its topics (the kind of event, then the indexed accounts) and a       *)
(* value. Addresses are model strings in lower case, without the padding    *)
(* that decodeAddress cuts off, and values are integers.                     *)
(***************************************************************************)
EXTENDS Chunks, Sorting, FiniteSetsExt, SequencesExt

CONSTANTS
  LogsLimit,              \* how many logs the node answers to one eth_getLogs
  Concurrency,            \* MAX_CONNECTION_CONCURRENCY
  PRIMARY_KEY_MULTIPLIER,
  OldContracts,           \* allOldContracts
  ContractsUnmodified,    \* contractsUnmodified
  Multiplier,             \* mapAddressToMultiplier
  CustomBlock             \* customTransfersData: the block of the SAN presale

(* At least one connection (constants.ts), and a mapping file that lists no   *)
(* contract both as one to rename and as one to keep.                        *)
ASSUME TokenEventsAssumption ==
  /\ LogsLimit \in Nat /\ Concurrency \in Nat \ {0}
  /\ PRIMARY_KEY_MULTIPLIER \in Nat /\ CustomBlock \in Nat
  /\ OldContracts \cap ContractsUnmodified = {}

ZERO_ADDRESS == "zero"
MINT_ADDRESS == "mint"
BURN_ADDRESS == "burn"
FREEZE_ADDRESS == "freeze"

-----------------------------------------------------------------------------
(* timestamps_cache.ts                                                     *)

(* Mutant: the answers are taken to come in the order of the requests. *)
MutantStoreByPlace(answers, fromBlock) ==
  [b \in fromBlock..(fromBlock + Len(answers) - 1) |-> answers[b - fromBlock + 1].timestamp]

(* waitResponse: each answer says which block it is of. *)
TimestampStore(answers, fromBlock) ==
  [b \in {answers[i].number : i \in DOMAIN answers} |->
     (CHOOSE answer \in ToSet(answers) : answer.number = b).timestamp]

-----------------------------------------------------------------------------
(* fetch_events.ts: decoding. A decode function gives one transfer or none. *)

decodeEventBasicInfo(event, store) ==
  [blockNumber |-> event.block, timestamp |-> store[event.block], transactionHash |-> event.tx,
   logIndex |-> event.logIndex, transactionIndex |-> event.tx, contract |-> event.contract]

Decoded(event, store, from, to) ==
  <<Extend(decodeEventBasicInfo(event, store), [from |-> from, to |-> to, value |-> event.value])>>

(* Three topics, which leaves NFTs out. A transfer of QNT to its own         *)
(* contract burns it.                                                        *)
decodeTransferEvent(event, store) ==
  IF Len(event.topics) # 3 THEN <<>>
  ELSE Decoded(event, store, event.topics[2],
               IF event.topics[3] = "QNT" /\ event.contract = "QNT" THEN BURN_ADDRESS
               ELSE event.topics[3])

decodeBurnEvent(event, store) ==
  IF Len(event.topics) # 2 THEN <<>> ELSE Decoded(event, store, event.topics[2], BURN_ADDRESS)

decodeMintEvent(event, store) ==
  IF Len(event.topics) # 2 THEN <<>> ELSE Decoded(event, store, MINT_ADDRESS, event.topics[2])

decodeBNBFreezeEvent(event, store) ==
  IF event.contract # "BNB" \/ Len(event.topics) # 2 THEN <<>>
  ELSE Decoded(event, store, event.topics[2], FREEZE_ADDRESS)

decodeBNBUnfreezeEvent(event, store) ==
  IF event.contract # "BNB" \/ Len(event.topics) # 2 THEN <<>>
  ELSE Decoded(event, store, FREEZE_ADDRESS, event.topics[2])

decodeWETHDepositEvent(event, store) ==
  IF event.contract # "WETH" \/ Len(event.topics) # 2 THEN <<>>
  ELSE Decoded(event, store, MINT_ADDRESS, event.topics[2])

decodeWETHWithdrawalEvent(event, store) ==
  IF event.contract # "WETH" \/ Len(event.topics) # 2 THEN <<>>
  ELSE Decoded(event, store, event.topics[2], BURN_ADDRESS)

(* decodeFunctionsMap *)
DecodeFunction(event, store) ==
  CASE event.topics[1] = "Transfer"            -> decodeTransferEvent(event, store)
    [] event.topics[1] = "Burn"                -> decodeBurnEvent(event, store)
    [] event.topics[1] \in {"Mint", "CreateBAT"} -> decodeMintEvent(event, store)
    [] event.topics[1] = "Freeze"              -> decodeBNBFreezeEvent(event, store)
    [] event.topics[1] = "Unfreeze"            -> decodeBNBUnfreezeEvent(event, store)
    [] event.topics[1] = "Deposit"             -> decodeWETHDepositEvent(event, store)
    [] event.topics[1] = "Withdrawal"          -> decodeWETHWithdrawalEvent(event, store)
    [] OTHER                                   -> <<>>

(* matic/lib/fetch_events.ts: LogTransfer of the native token; the contract  *)
(* is not part of the transfer.                                              *)
decodeLogTransfer(event, store) ==
  IF event.topics[1] # "LogTransfer" \/ Len(event.topics) # 4 THEN <<>>
  ELSE <<[Decoded(event, store, event.topics[3], event.topics[4])[1] EXCEPT !.contract = "none"]>>

decodeEvents(events, store) ==
  FlattenSeq([i \in 1..Len(events) |->
    IF events[i].topics = <<>> THEN <<>> ELSE DecodeFunction(events[i], store)])

decodeLogTransfers(events, store) ==
  FlattenSeq([i \in 1..Len(events) |->
    IF events[i].topics = <<>> THEN <<>> ELSE decodeLogTransfer(events[i], store)])

-----------------------------------------------------------------------------
(* fetch_events.ts: transfers that a mint or burn event reports again.      *)

getEventsByTransaction(events, i) ==
  {events[j] : j \in {k \in DOMAIN events : events[k].transactionHash = events[i].transactionHash
                                            /\ events[k].blockNumber = events[i].blockNumber}}

(* Mutant: any mint or burn of the transaction will do. *)
MutantAnyMint(event, others) ==
  \/ event.from = ZERO_ADDRESS /\ \E e \in others : e.from = MINT_ADDRESS
  \/ event.to = ZERO_ADDRESS /\ \E e \in others : e.to = BURN_ADDRESS

(* filterTransactionEvents *)
ReportedAgain(event, others) ==
  \/ /\ event.from = ZERO_ADDRESS
     /\ \E e \in others : /\ e.from = MINT_ADDRESS
                          /\ e.contract = event.contract /\ e.to = event.to /\ e.value = event.value
  \/ /\ event.from # ZERO_ADDRESS /\ event.to = ZERO_ADDRESS
     /\ \E e \in others : /\ e.from # MINT_ADDRESS /\ e.to = BURN_ADDRESS
                          /\ e.contract = event.contract /\ e.from = event.from /\ e.value = event.value

filterEvents(events) ==
  ElementsAt(events, {i \in DOMAIN events : ~ReportedAgain(events[i], getEventsByTransaction(events, i))})

-----------------------------------------------------------------------------
(* fetch_events.ts: asking the node. contracts is {} when none are given;   *)
(* logs are those of the chain, in order.                                    *)

LogsOfBlocks(logs, fromBlock, toBlock, contracts) ==
  ElementsAt(logs, {i \in DOMAIN logs : /\ fromBlock <= logs[i].block /\ logs[i].block <= toBlock
                                        /\ contracts = {} \/ logs[i].contract \in contracts})

(* From receipts, for which there is no limit; filtered here. *)
getRawEventsFromReceipts(logs, block, contracts) == LogsOfBlocks(logs, block, block, contracts)

Ranges(fromBlock, toBlock) ==
  {range \in (fromBlock..toBlock) \X (fromBlock..toBlock) : range[1] <= range[2]}

(* Mutant: the first half ends before the middle block. *)
MutantMiddleExclusive(logs, fromBlock, toBlock, contracts) ==
  LET raw[range \in (fromBlock..toBlock) \X ((fromBlock - 1)..toBlock)] ==
        LET answer == LogsOfBlocks(logs, range[1], range[2], contracts)
            middle == (range[1] + range[2]) \div 2
        IN IF Len(answer) <= LogsLimit THEN answer
           ELSE IF range[1] = range[2] THEN getRawEventsFromReceipts(logs, range[1], contracts)
           ELSE raw[<<range[1], middle - 1>>] \o raw[<<middle + 1, range[2]>>]
  IN raw[<<fromBlock, toBlock>>]

(* The middle block of a split is part of the first half. *)
getRawEvents(logs, fromBlock, toBlock, contracts) ==
  LET raw[range \in Ranges(fromBlock, toBlock)] ==
        LET answer == LogsOfBlocks(logs, range[1], range[2], contracts)
            middle == (range[1] + range[2]) \div 2
        IN IF Len(answer) <= LogsLimit THEN answer
           ELSE IF range[1] = range[2] THEN getRawEventsFromReceipts(logs, range[1], contracts)
           ELSE raw[<<range[1], middle>>] \o raw[<<middle + 1, range[2]>>]
  IN raw[<<fromBlock, toBlock>>]

-----------------------------------------------------------------------------
(* custom_token_distribution.ts: the presale of SAN                         *)

getLastRealLogIndexForBlock(transfers, block) ==
  Max({0} \cup {transfers[i].logIndex : i \in {j \in DOMAIN transfers : transfers[j].blockNumber = block}})

(* san_presale.csv: what is minted and burnt; these have no transaction. *)
CustomTransfer(from, to, value, logIndex) ==
  [blockNumber |-> CustomBlock, timestamp |-> CustomBlock, transactionHash |-> -1, logIndex |-> logIndex,
   transactionIndex |-> -1, contract |-> "SAN", from |-> from, to |-> to, value |-> value]

addTransfers(transfers) ==
  LET reached == getLastRealLogIndexForBlock(transfers, CustomBlock)
  IN transfers \o <<CustomTransfer(MINT_ADDRESS, "a", 7, reached + 1),
                    CustomTransfer("a", BURN_ADDRESS, 2, reached + 2)>>

(* Not when all contracts are exported. *)
addCustomTokenDistribution(transfers, fromBlock, toBlock, contracts) ==
  IF "SAN" \in contracts /\ fromBlock <= CustomBlock /\ CustomBlock <= toBlock
  THEN addTransfers(transfers) ELSE transfers

getPastEvents(logs, fromBlock, toBlock, contracts, store) ==
  addCustomTokenDistribution(
    filterEvents(decodeEvents(getRawEvents(logs, fromBlock, toBlock, contracts), store)),
    fromBlock, toBlock, contracts)

(* matic: no filter, no limit on the answer, one contract *)
getPastMaticEvents(logs, fromBlock, toBlock, store) ==
  decodeLogTransfers(LogsOfBlocks(logs, fromBlock, toBlock, {"MATIC"}), store)

chunkOrder(c, d) == c.from < d.from

(* erc20_worker.ts: one request for each chunk, the answers in their order *)
fetchPastEvents(logs, fromBlock, toBlock, contracts, store) ==
  LET chunks == stableSort(SetToSeq(ParallelChunks(fromBlock, toBlock, Concurrency)), chunkOrder)
  IN FlattenSeq([i \in 1..Len(chunks) |->
       getPastEvents(logs, chunks[i].from, chunks[i].to, contracts, store)])

-----------------------------------------------------------------------------
(* contract_overwrite.ts                                                   *)

(* The multiplier is an integer here: the rounding of a product with a       *)
(* fraction is left out.                                                     *)
editAddressAndAmount(event) ==
  [event EXCEPT !.contract = "NEW", !.value = @ * Multiplier]

changeContractAddresses(events) ==
  [i \in 1..Len(events) |->
     IF events[i].contract \in OldContracts THEN editAddressAndAmount(events[i]) ELSE events[i]]

extractChangedContractAddresses(events) ==
  changeContractAddresses(ElementsAt(events, {i \in DOMAIN events : events[i].contract \in OldContracts}))

-----------------------------------------------------------------------------
(* extend_events_key.ts                                                    *)

(* erc20's transactionOrder *)
logOrder(a, b) ==
  \/ a.blockNumber < b.blockNumber
  \/ /\ a.blockNumber = b.blockNumber
     /\ \/ a.transactionIndex < b.transactionIndex
        \/ a.transactionIndex = b.transactionIndex /\ a.logIndex < b.logIndex

primaryKeyOrderComparator(a, b) ==
  \/ logOrder(a, b)
  \/ ~logOrder(b, a) /\ a.primaryKey < b.primaryKey

KeyOf(event) == event.blockNumber * PRIMARY_KEY_MULTIPLIER + event.logIndex

(* The k-th copy of the block comes k places after its last log. *)
CopyKey(events, copies, i) ==
  LET block   == copies[i].blockNumber
      indices == {events[j].logIndex : j \in {k \in DOMAIN events : events[k].blockNumber = block}}
      before  == {j \in 1..i : copies[j].blockNumber = block}
  IN block * PRIMARY_KEY_MULTIPLIER + Max(indices \cup {-1}) + Cardinality(before)

(* Mutant: a copy has the key of the event it is a copy of. *)
MutantSameKey(events, copies) ==
  [i \in 1..Len(copies) |-> Extend(copies[i], [primaryKey |-> KeyOf(copies[i])])]

CopiesWithPrimaryKey(events, copies) ==
  [i \in 1..Len(copies) |-> Extend(copies[i], [primaryKey |-> CopyKey(events, copies, i)])]

SortedEvents(events) == stableSort(events, logOrder)

extendEventsWithPrimaryKey(events) ==
  LET sorted == SortedEvents(events)
  IN [i \in 1..Len(sorted) |-> Extend(sorted[i], [primaryKey |-> KeyOf(sorted[i])])]

(* What work() returns for the events and the copies it made of them *)
MergedEvents(events, copies) ==
  LET keyed == extendEventsWithPrimaryKey(events)
  IN IF copies = <<>> THEN keyed
     ELSE stableSort(keyed \o CopiesWithPrimaryKey(events, copies), primaryKeyOrderComparator)

=============================================================================
