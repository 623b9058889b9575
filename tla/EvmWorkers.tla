----------------------------- MODULE EvmWorkers ------------------------------
(***************************************************************************)
(* The workers of the Ethereum family on a chain that grows                 *)
(* (src/src/blockchains/{eth,erc20,matic,receipts,eth_blocks,               *)
(* eth_contracts}): what work() makes of the answers of the node, and what  *)
(* is in Kafka after any number of batches, crashes and repetitions.        *)
(*                                                                         *)
(* The answers are of confirmed blocks, which do not change, so asking and  *)
(* transforming are one step. The node may refuse, leave something out of   *)
(* an answer, and answer a bulk request out of order (not to the ETH         *)
(* worker, which depends on the order). Lagging replicas are left to         *)
(* Exporter, as is the transaction of Kafka. The time of a block is its      *)
(* number. The ETH worker runs with IS_ETH, a verification node and          *)
(* ASSIGN_PRIMARY_KEY.                                                       *)
(***************************************************************************)
EXTENDS EthTransfers, TokenEvents, IntervalCalculator

CONSTANTS
  Modes,               \* a subset of AllModes
  BLOCK_INTERVAL,
  MaxBlock,            \* bound on the confirmed chain
  MaxFailures,         \* bound on answers with something missing
  MaxCrashes           \* bound

(* The ERC20 worker in its contract modes, and the Matic worker *)
TokenModes == {"vanilla", "exact", "append", "matic"}

(* The workers without keys *)
RecordModes == {"receipts", "eth_blocks", "eth_contracts"}

AllModes == {"eth"} \cup TokenModes \cup RecordModes

ASSUME EvmWorkersAssumption ==
  /\ Modes \subseteq AllModes
  /\ BLOCK_INTERVAL \in Nat \ {0} /\ MaxBlock \in Nat \ {0}
  /\ MaxFailures \in Nat /\ MaxCrashes \in Nat

(* The keys have room for the logs of a block, at most 20 here, and a copy    *)
(* of each: otherwise isPrimaryKeyOverflow is logged.                        *)
ASSUME KeysFit == PRIMARY_KEY_MULTIPLIER >= 40

VARIABLES
  mode,                \* the worker, and for ERC20 its CONTRACT_MODE
  confirmed, chain,    \* node: the confirmed height, and what each block holds
  pc,                  \* "init", "work", "store" or "save"
  lastConfirmedBlock, lastExportedBlock, lastPrimaryKey,
  events,              \* what work() returned
  topic,               \* Kafka: the committed events
  saved,               \* ZooKeeper: the position
  failures, crashes

nodeVars   == <<mode, confirmed, chain>>
workerVars == <<lastConfirmedBlock, lastExportedBlock, lastPrimaryKey, events>>
vars       == <<nodeVars, workerVars, pc, topic, saved, failures, crashes>>

Block == 1..MaxBlock

-----------------------------------------------------------------------------
(* The chain (external): transactions with what they really move, and the   *)
(* traces and logs by which a node reports it.                               *)

Trace(traceAddress, type, from, to, value, error) ==
  [traceAddress |-> traceAddress, type |-> IF type = "delegatecall" THEN "call" ELSE type,
   callType |-> type, from |-> from, to |-> to, value |-> value, error |-> error]

(* moves and creates say what really happens: values that move, and          *)
(* contracts that come to be, with the contract that made them.              *)
EthTx(from, gasPrice, moves, creates, traces) ==
  [from |-> from, gasPrice |-> gasPrice, gasUsed |-> 2, moves |-> moves, creates |-> creates,
   traces |-> traces]

Plain == EthTx("a", 3, <<<<"a", "b", 4>>>>, {}, <<Trace(<<>>, "call", "a", "b", 4, FALSE)>>)

(* A contract that creates another and destroys itself *)
Creating ==
  EthTx("b", 2, <<<<"b", "c", 3>>, <<"c", "a", 3>>>>, {<<"c", "none">>, <<"d", "c">>},
        <<Trace(<<>>, "create", "b", "c", 3, FALSE), Trace(<<0>>, "create", "c", "d", 0, FALSE),
          Trace(<<1>>, "suicide", "c", "a", 3, FALSE)>>)

(* An inner call fails and takes the two below it with it. *)
PartlyReverted ==
  EthTx("a", 4, <<<<"a", "c", 5>>>>, {},
        <<Trace(<<>>, "call", "a", "c", 5, FALSE), Trace(<<0>>, "call", "c", "b", 2, TRUE),
          Trace(<<0, 0>>, "call", "b", "a", 1, FALSE), Trace(<<0, 0, 0>>, "create", "a", "b", 1, FALSE),
          Trace(<<1>>, "delegatecall", "a", "c", 5, FALSE)>>)

(* A failed transaction pays for its gas only. *)
Failed == EthTx("a", 3, <<>>, {}, <<Trace(<<>>, "call", "a", "b", 9, TRUE), Trace(<<0>>, "call", "b", "c", 1, FALSE)>>)

EthContents == <<<<>>, <<Plain>>, <<PartlyReverted, Creating>>, <<Plain, Failed, Creating>>>>

(* A node lists a reward after the merge too. *)
EthBlock(content, b) ==
  [number |-> b, miner |-> "m", baseFeePerGas |-> 2,
   transactions |-> [i \in 1..Len(EthContents[content]) |->
                       Extend(EthContents[content][i], [position |-> i - 1])],
   rewards      |-> IF b = 0 \/ (b >= THE_MERGE /\ content = 2) THEN <<>>
                    ELSE <<Trace(<<>>, "reward", "none", "m", 6, FALSE)>>,
   withdrawals  |-> IF b < THE_MERGE \/ content = 2 THEN <<>>
                    ELSE <<[address |-> "a", amount |-> 1], [address |-> "b", amount |-> 2]>>]

Log(contract, topics, value) == [contract |-> contract, topics |-> topics, value |-> value]

TokenTx(moves, logs) == [moves |-> moves, logs |-> logs]

(* Mints and burns, reported by one event or by two *)
Supply ==
  TokenTx(<<<<"SAN", "a", 5>>, <<"SAN", "b", 4>>, <<"OLD", "a", -2>>, <<"OLD", "b", -1>>>>,
          <<Log("SAN", <<"Transfer", "zero", "a">>, 5), Log("SAN", <<"Mint", "a">>, 5),
            Log("SAN", <<"Transfer", "zero", "b">>, 4),
            Log("OLD", <<"Burn", "a">>, 2), Log("OLD", <<"Transfer", "a", "zero">>, 2),
            Log("OLD", <<"Transfer", "b", "zero">>, 1)>>)

Moving ==
  TokenTx(<<<<"OLD", "a", -3>>, <<"OLD", "b", 3>>, <<"QNT", "a", -2>>, <<"none", "a", -4>>, <<"none", "b", 4>>>>,
          <<Log("OLD", <<"Transfer", "a", "b">>, 3), Log("NFT", <<"Transfer", "a", "b", "id">>, 9),
            Log("QNT", <<"Transfer", "a", "QNT">>, 2), Log("MATIC", <<"LogTransfer", "MATIC", "a", "b">>, 4)>>)

(* The events of one contract; another one that emits the same means        *)
(* something else by it.                                                     *)
Special ==
  TokenTx(<<<<"WETH", "a", 6>>, <<"WETH", "b", -2>>, <<"BNB", "a", -3>>, <<"BNB", "b", 1>>, <<"BAT", "a", 8>>>>,
          <<Log("WETH", <<"Deposit", "a">>, 6), Log("OLD", <<"Deposit", "a">>, 6),
            Log("WETH", <<"Withdrawal", "b">>, 2), Log("SAN", <<"Withdrawal", "b">>, 2),
            Log("BNB", <<"Freeze", "a">>, 3), Log("BNB", <<"Unfreeze", "b">>, 1),
            Log("OLD", <<"Freeze", "a">>, 3), Log("OLD", <<"Unfreeze", "b">>, 1),
            Log("BAT", <<"CreateBAT", "a">>, 8), Log("BAT", <<>>, 8)>>)

TokenContents == <<<<>>, <<Moving>>, <<Supply, Moving>>, <<Special, Supply>>>>

BlockLogs(content, b) ==
  LET txs == TokenContents[content]
      Before(t) == Len(FlattenSeq([i \in 1..(t - 1) |-> txs[i].logs]))
  IN FlattenSeq([t \in 1..Len(txs) |-> [i \in 1..Len(txs[t].logs) |->
       Extend(txs[t].logs[i], [block |-> b, tx |-> t - 1, logIndex |-> Before(t) + i - 1])]])

AllLogs == FlattenSeq([b \in Block |-> BlockLogs(chain[b], b)])

-----------------------------------------------------------------------------
(* The process. *)

Fresh ==
  /\ pc' = "init"
  /\ lastExportedBlock' = saved.block
  /\ lastPrimaryKey' = saved.key
  /\ lastConfirmedBlock' = -1
  /\ events' = <<>>

(* work() throws, the process exits and is started again. *)
Throw == Fresh /\ UNCHANGED <<nodeVars, topic, saved, crashes>>

InitWorker ==
  /\ pc = "init"
  /\ pc' = "work"
  /\ lastConfirmedBlock' = confirmed
  /\ UNCHANGED <<nodeVars, lastExportedBlock, lastPrimaryKey, events, topic, saved, failures, crashes>>

Context == analyzeWorkerContext(lastExportedBlock, lastConfirmedBlock, confirmed)

HasWork == pc = "work" /\ Context.context # NO_WORK_SLEEP

Interval == nextIntervalCalculator(lastExportedBlock, BLOCK_INTERVAL, Context.confirmed)

(* No events, but the position is saved all the same. *)
WorkIdle ==
  /\ pc = "work" /\ Context.context = NO_WORK_SLEEP
  /\ events' = <<>>
  /\ pc' = "save"
  /\ UNCHANGED <<nodeVars, lastConfirmedBlock, lastExportedBlock, lastPrimaryKey, topic, saved, failures, crashes>>

(* The end of work(): result is what it returns. *)
Return(result, primaryKey) ==
  /\ events' = result
  /\ lastConfirmedBlock' = Context.confirmed
  /\ lastExportedBlock' = Interval.toBlock
  /\ lastPrimaryKey' = primaryKey
  /\ pc' = IF result = <<>> THEN "save" ELSE "store"
  /\ UNCHANGED <<nodeVars, topic, saved, crashes>>

(* A request fails, or an answer without what was asked for is noticed, as it *)
(* is by all but the receipts worker that asks by block.                     *)
WorkThrows ==
  /\ HasWork
  /\ failures < MaxFailures
  /\ failures' = failures + 1
  /\ Throw

-----------------------------------------------------------------------------
(* The ETH worker *)

TrueBlock(b) == EthBlock(IF b = 0 THEN 1 ELSE chain[b], b)

(* fetchData when the node leaves transactions out of the block lossy: one   *)
(* in the middle, or the only ones.                                          *)
AnsweredBlock(b, lossy) ==
  IF b = lossy
  THEN [TrueBlock(b) EXCEPT !.transactions =
          ElementsAt(@, {i \in DOMAIN @ : Len(@) = 3 /\ @[i].position # 1})]
  ELSE TrueBlock(b)

fetchData(lossy) ==
  [i \in 1..(Interval.toBlock - Interval.fromBlock + 1) |->
     AnsweredBlock(Interval.fromBlock + i - 1, lossy)]

SortedTransfers(blocks) ==
  stableSort(transformPastEvents(Interval.fromBlock, Interval.toBlock, blocks), transactionOrder)

(* work() with a verification node, assigning keys: these count the ends of  *)
(* the blocks, the stored last key does not.                                 *)
WorkOnBlocks(transfers) ==
  \E merged \in {mergeSortedArrays(transfers, collectEndOfBlocks(Interval.fromBlock, Interval.toBlock))} :
    LET numbered == assignInternalTransactionPosition(merged)
        verified == [b \in Interval.fromBlock..Interval.toBlock |-> TrueBlock(b)]
    IN IF checkETHTransfersQuality(transfers, Interval.fromBlock, Interval.toBlock, verified)
       THEN Return([i \in 1..Len(numbered) |-> Extend(numbered[i], [primaryKey |-> lastPrimaryKey + i])],
                   lastPrimaryKey + Len(transfers))
       ELSE Throw

WorkEth ==
  /\ HasWork /\ mode = "eth"
  /\ WorkOnBlocks(SortedTransfers(fetchData(-1)))
  /\ UNCHANGED failures

(* A loss that the check can see: it takes the block for complete when it    *)
(* has a transfer at every position up to some place.                        *)
WorkEthLossy ==
  /\ HasWork /\ mode = "eth"
  /\ failures < MaxFailures
  /\ failures' = failures + 1
  /\ \E b \in Interval.fromBlock..Interval.toBlock \ {0} :
       /\ \/ Len(TrueBlock(b).transactions) = 3
          \/ /\ TrueBlock(b).transactions # <<>>
             /\ TrueBlock(b).rewards = <<>> /\ TrueBlock(b).withdrawals = <<>>
       /\ WorkOnBlocks(SortedTransfers(fetchData(b)))

-----------------------------------------------------------------------------
(* The ERC20 and Matic workers *)

(* The answers to the bulk request for the blocks *)
BlockAnswers(reversed) ==
  LET answers == [i \in 1..(Interval.toBlock - Interval.fromBlock + 1) |->
                    [number |-> Interval.fromBlock + i - 1, timestamp |-> Interval.fromBlock + i - 1]]
  IN IF reversed THEN Reverse(answers) ELSE answers

(* The contracts that are asked for; {} for all *)
Fetched(contracts, store) ==
  fetchPastEvents(AllLogs, Interval.fromBlock, Interval.toBlock, contracts, store)

(* No request when the mapping file lists none *)
FetchedOf(contracts, store) ==
  IF contracts = {} THEN <<>> ELSE Fetched(contracts, store)

(* The old contracts and the others are fetched side by side. *)
FetchedEvents(store) ==
  CASE mode = "exact" -> changeContractAddresses(FetchedOf(OldContracts, store))
                           \o FetchedOf(ContractsUnmodified, store)
    [] mode = "matic" -> getPastMaticEvents(AllLogs, Interval.fromBlock, Interval.toBlock, store)
    [] OTHER          -> Fetched({}, store)

(* work() over the bulk answers: what it returns, and the new last key *)
TokenWork(answers) ==
  LET fetched == FetchedEvents(TimestampStore(answers, Interval.fromBlock))
      copies  == IF mode = "append" THEN extractChangedContractAddresses(fetched) ELSE <<>>
  IN [events |-> MergedEvents(fetched, copies),
      key    |-> IF fetched = <<>> THEN lastPrimaryKey
                 ELSE Max({KeyOf(event) : event \in ToSet(fetched)})]

WorkTokens ==
  /\ HasWork /\ mode \in TokenModes
  /\ \E work \in {TokenWork(BlockAnswers(reversed)) : reversed \in BOOLEAN} :
       Return(work.events, work.key)
  /\ UNCHANGED failures

-----------------------------------------------------------------------------
(* The receipts, eth_blocks and eth_contracts workers. answers are the bulk  *)
(* answers for the blocks.                                                   *)

prepareBlockTimestampsObject(answers) == TimestampStore(answers, Interval.fromBlock)

decodeReceipt(block, i) ==
  [blockNumber |-> block.number, transactionHash |-> block.transactions[i].position,
   gasUsed |-> block.transactions[i].gasUsed]

(* The receipts of the blocks, or of the transactions that the answers list  *)
getReceiptsForBlocks(answers) ==
  LET timestamps == prepareBlockTimestampsObject(answers)
      Receipts(block) == [i \in 1..Len(block.transactions) |->
        Extend(decodeReceipt(block, i), [timestamp |-> timestamps[block.number]])]
  IN FlattenSeq([i \in 1..Len(answers) |-> Receipts(TrueBlock(answers[i].number))])

decodeBlock(answer) ==
  [blockNumber |-> answer.number, timestamp |-> answer.timestamp,
   transactionCount |-> Len(TrueBlock(answer.number).transactions)]

(* Mutant: the creator is the account that the trace names. *)
MutantCreatorOfTrace(traces, trace) == trace.from

(* The sender of the transaction, which its first trace names *)
Creator(traces, trace) == traces[1].from

(* traces are what filterErrors leaves of one transaction. *)
getCreationOutput(traces, block, position, blockTime) ==
  LET created == ElementsAt(traces, {k \in DOMAIN traces : traces[k].type = "create"})
  IN [i \in 1..Len(created) |->
        [blockNumber |-> block, transactionHash |-> position, address |-> created[i].to,
         address_creator |-> Creator(traces, created[i]),
         address_fabric  |-> IF created[i].traceAddress = <<>> THEN "none" ELSE created[i].from,
         timestamp       |-> blockTime]]

CreatedContracts(answers) ==
  LET timestamps == TimestampStore(answers, Interval.fromBlock)
      OfBlock(b) == FlattenSeq([i \in 1..Len(TrueBlock(b).transactions) |->
        LET tx == TrueBlock(b).transactions[i]
        IN getCreationOutput(filterErrors(tx.traces), b, tx.position, timestamps[b])])
  IN FlattenSeq([i \in 1..Len(answers) |-> OfBlock(Interval.fromBlock + i - 1)])

RecordWork(answers) ==
  CASE mode = "receipts"      -> getReceiptsForBlocks(answers)
    [] mode = "eth_blocks"    -> [i \in 1..Len(answers) |-> decodeBlock(answers[i])]
    [] mode = "eth_contracts" -> CreatedContracts(answers)

WorkRecords ==
  /\ HasWork /\ mode \in RecordModes
  /\ \E records \in {RecordWork(BlockAnswers(reversed)) : reversed \in BOOLEAN} :
       Return(records, lastPrimaryKey)
  /\ UNCHANGED failures

-----------------------------------------------------------------------------
Store ==
  /\ pc = "store"
  /\ topic' = topic \cup ToSet(events)
  /\ pc' = "save"
  /\ UNCHANGED <<nodeVars, workerVars, saved, failures, crashes>>

Save ==
  /\ pc = "save"
  /\ saved' = [block |-> lastExportedBlock, key |-> lastPrimaryKey]
  /\ pc' = "work"
  /\ UNCHANGED <<nodeVars, workerVars, topic, failures, crashes>>

Crash ==
  /\ crashes < MaxCrashes
  /\ crashes' = crashes + 1
  /\ Fresh
  /\ UNCHANGED <<nodeVars, topic, saved, failures>>

GrowChain ==
  /\ confirmed < MaxBlock
  /\ confirmed' = confirmed + 1
  /\ UNCHANGED <<mode, chain, workerVars, pc, topic, saved, failures, crashes>>

Init ==
  /\ mode \in Modes
  /\ confirmed = 0
  /\ chain \in [Block -> DOMAIN EthContents]
  /\ pc = "init"
  /\ lastConfirmedBlock = -1
  /\ lastExportedBlock = -1
  /\ lastPrimaryKey = 0
  /\ events = <<>>
  /\ topic = {}
  /\ saved = [block |-> -1, key |-> 0]
  /\ failures = 0
  /\ crashes = 0

Step == InitWorker \/ WorkIdle \/ WorkEth \/ WorkTokens \/ WorkRecords \/ Store \/ Save

Next == Step \/ WorkThrows \/ WorkEthLossy \/ Crash \/ GrowChain

Spec == Init /\ [][Next]_vars

(* The process goes on, which it can in every state, and the chain grows.     *)
(* Every Step moves pc and leaves the counters of faults alone.              *)
GoesOn ==
  /\ pc' \in {"init", "work", "store", "save"}
  /\ failures' = failures /\ crashes' = crashes

FairSpec == Spec /\ WF_pc(GoesOn) /\ WF_vars(GrowChain)

-----------------------------------------------------------------------------
(* Properties.                                                             *)

(* What a transaction of block b changes on an account: values and gas, of   *)
(* which the base fee is burnt from London on *)
EthTxChange(tx, b, account) ==
  LET value  == [i \in DOMAIN tx.moves |-> tx.moves[i][3]]
      Of(k)  == {i \in DOMAIN tx.moves : tx.moves[i][k] = account}
      mined  == IF b >= LONDON_FORK_BLOCK THEN tx.gasPrice - 2 ELSE tx.gasPrice
      perGas == (IF account = "m" THEN mined ELSE 0) - (IF account = tx.from THEN tx.gasPrice ELSE 0)
  IN SumFunctionOnSet(value, Of(2)) - SumFunctionOnSet(value, Of(1)) + perGas * tx.gasUsed

Listed(pairs, account) ==
  SumFunctionOnSet([i \in DOMAIN pairs |-> pairs[i][2]], {i \in DOMAIN pairs : pairs[i][1] = account})

(* What a block changes on an account: its transactions, issuance, the two   *)
(* irregular changes of state.                                               *)
EthChange(content, b, account) ==
  LET txs == EthContents[content]
  IN SumFunction([i \in DOMAIN txs |-> EthTxChange(txs[i], b, account)])
     + (IF account = "m" /\ 0 < b /\ b < THE_MERGE THEN 6 ELSE 0)
     + (IF b < THE_MERGE \/ content = 2 THEN 0 ELSE Listed(<<<<"a", 1>>, <<"b", 2>>>>, account))
     + (IF b = 0 THEN Listed(GENESIS_TRANSFERS, account) ELSE 0)
     - (IF b = DAO_HACK_FORK_BLOCK THEN Listed(DAO_HACK_ADDRESSES, account) ELSE 0)

EthChanges ==
  [content \in DOMAIN EthContents |->
     [b \in 0..MaxBlock |->
        [account \in {"a", "b", "c", "m"} |-> EthChange(content, b, account)]]]

WithoutKey(event) == [field \in DOMAIN event \ {"primaryKey"} |-> event[field]]

(* The events of the blocks that the saved position claims, with repetitions *)
(* taken together *)
Exported == {WithoutKey(e) : e \in {f \in topic : f.blockNumber <= saved.block}}

Change(transfers, account) ==
  LET value == [e \in transfers |-> e.value]
  IN SumFunctionOnSet(value, {e \in transfers : e.to = account})
     - SumFunctionOnSet(value, {e \in transfers : e.from = account})

(* The exported transfers explain every balance of the chain: values that    *)
(* moved and no reverted ones, gas, rewards up to the merge, withdrawals,    *)
(* and the genesis and DAO changes once, however the blocks were cut into    *)
(* batches and repeated, and whatever the node left out of an answer.        *)
EthBalancesAgree ==
  mode = "eth" =>
    LET exported == Exported
    IN \A account \in {"a", "b", "c", "m"} :
         Change(exported, account) =
           SumFunction([b \in 0..saved.block |->
                          EthChanges[IF b = 0 THEN 1 ELSE chain[b]][b][account]])

TokenChanges ==
  [content \in DOMAIN TokenContents, contract \in {"SAN", "OLD", "QNT", "WETH", "BNB", "BAT", "NFT", "none"},
   account \in {"a", "b"} |->
     LET txs == TokenContents[content]
         Changed(moves) == SumFunctionOnSet([i \in DOMAIN moves |-> moves[i][3]],
                             {i \in DOMAIN moves : moves[i][1] = contract /\ moves[i][2] = account})
     IN SumFunction([t \in DOMAIN txs |-> Changed(txs[t].moves)])]

OnChain(contract, account) ==
  SumFunction([b \in 1..saved.block |-> TokenChanges[chain[b], contract, account]])

(* What a mode exports for a contract *)
Claimed(contract, account) ==
  CASE contract = "NEW"  -> IF mode \in {"exact", "append"} THEN Multiplier * OnChain("OLD", account) ELSE 0
    [] mode = "matic"    -> IF contract = "none" THEN OnChain("none", account) ELSE 0
    [] contract = "none" -> 0
    [] mode = "exact"    -> (IF contract \in ContractsUnmodified THEN OnChain(contract, account) ELSE 0)
                            + (IF contract = "SAN" /\ account = "a" /\ CustomBlock <= saved.block THEN 5 ELSE 0)
    [] OTHER             -> OnChain(contract, account)

(* The exported token transfers explain every balance of every contract that *)
(* the mode covers, renamed ones included, and say nothing of the others:    *)
(* a mint that two events report counts once, an event of another contract   *)
(* with the same name does not, and splitting a request loses nothing.       *)
TokenBalancesAgree ==
  mode \in TokenModes =>
    LET exported == Exported
    IN \A contract \in {"NEW", "SAN", "OLD", "QNT", "WETH", "BNB", "BAT", "NFT", "none"}, account \in {"a", "b"} :
         Change({e \in exported : e.contract = contract}, account) = Claimed(contract, account)

(* A consumer that waits for the end of a block has all of the block then:   *)
(* every block of the interval is ended, by its last event, and the events   *)
(* of a batch go up in their position.                                       *)
BlocksAreClosed ==
  mode = "eth" /\ pc = "store" =>
    /\ \A i \in 1..(Len(events) - 1) : transactionOrder(events[i], events[i + 1])
    /\ \A b \in (saved.block + 1)..lastExportedBlock :
         LET ofBlock == {i \in DOMAIN events : events[i].blockNumber = b}
         IN {i \in ofBlock : events[i].type = "EOB"} = {Max(ofBlock)}

(* The positions of a transaction's transfers count from 0 and tell them      *)
(* apart, over all repetitions.                                              *)
PositionsIdentify ==
  mode = "eth" =>
    \A b \in 0..saved.block :
      LET transfers == {e \in Exported : e.blockNumber = b}
      IN \A e \in transfers :
           LET together == {f \in transfers : f.transactionPosition = e.transactionPosition}
           IN {f.internalTxPosition : f \in together} = 0..(Cardinality(together) - 1)

(* Token transfers keep their key when they are exported again, and no two    *)
(* share one, the copies under the new contract included. The presale is     *)
(* counted on from the logs of the contracts it was fetched with, so in its  *)
(* block it may share a key with a log of an old contract.                   *)
KeysIdentify ==
  mode \in TokenModes =>
    \A e, f \in {g \in topic : mode # "exact" \/ g.blockNumber # CustomBlock} :
      e.primaryKey = f.primaryKey => e = f

(* Whatever the order in which the node answers for the blocks, a token       *)
(* transfer, a receipt, a block or a created contract has its block's time.  *)
TimestampsRight == mode # "eth" => \A e \in topic : e.timestamp = e.blockNumber

(* What the chain holds for the workers without keys *)
ChainRecords(b) ==
  LET txs == EthContents[IF b = 0 THEN 1 ELSE chain[b]]
  IN CASE mode = "receipts" ->
            {[blockNumber |-> b, transactionHash |-> i - 1, gasUsed |-> txs[i].gasUsed, timestamp |-> b] :
               i \in DOMAIN txs}
       [] mode = "eth_blocks" ->
            {[blockNumber |-> b, timestamp |-> b, transactionCount |-> Len(txs)]}
       [] mode = "eth_contracts" ->
            UNION {{[blockNumber |-> b, transactionHash |-> i - 1, address |-> made[1],
                     address_creator |-> txs[i].from, address_fabric |-> made[2], timestamp |-> b] :
                      made \in txs[i].creates} : i \in DOMAIN txs}

(* The receipts, blocks and created contracts in Kafka are those of the       *)
(* chain, none made in a reverted call among them, and complete up to the     *)
(* saved position, over all repetitions.                                      *)
RecordsAgree ==
  mode \in RecordModes =>
    /\ \A b \in 0..saved.block : ChainRecords(b) \subseteq topic
    /\ topic \subseteq UNION {ChainRecords(b) : b \in 0..confirmed}

(* Every confirmed block is exported in the end: no block of the chain is     *)
(* refused for ever by the checks.                                           *)
EventuallyExported == \A b \in Block : (b <= confirmed) ~> (saved.block >= b)

(* The key identifies an event of the ETH worker. *)
EthKeysIdentify ==
  mode = "eth" =>
    \A e, f \in topic : e.primaryKey = f.primaryKey => WithoutKey(e) = WithoutKey(f)

=============================================================================
