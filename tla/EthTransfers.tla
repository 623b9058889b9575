---------------------------- MODULE EthTransfers -----------------------------
(***************************************************************************)
(* How the ETH worker makes transfers of traces, fees and withdrawals and   *)
(* puts them in order (src/src/blockchains/eth/eth_worker.ts and lib).      *)
(*                                                                         *)
(* A block has a miner, a base fee, transactions and withdrawals. A         *)
(* transaction has its place in the block, a sender, a gas price, the gas   *)
(* it used and its traces, each with a traceAddress, a type, two accounts,  *)
(* a value and whether it failed. A failed contract creation has no         *)
(* address, and is dropped before one is asked for. Values are integers;    *)
(* their conversion from hexadecimal is left out.                           *)
(***************************************************************************)
EXTENDS Integers, Sorting, FiniteSetsExt, SequencesExt

CONSTANTS
  LONDON_FORK_BLOCK, THE_MERGE, DAO_HACK_FORK_BLOCK

(* The forks as constants.ts and dao_hack.ts have them *)
ASSUME ForksInOrder ==
  /\ LONDON_FORK_BLOCK \in Nat /\ THE_MERGE \in Nat /\ DAO_HACK_FORK_BLOCK \in Nat
  /\ DAO_HACK_FORK_BLOCK < LONDON_FORK_BLOCK /\ LONDON_FORK_BLOCK < THE_MERGE

Transfer(from, to, value, block, position, type) ==
  [from |-> from, to |-> to, value |-> value, blockNumber |-> block,
   transactionPosition |-> position, internalTxPosition |-> 0, type |-> type]

-----------------------------------------------------------------------------
(* filter_errors.ts, custom_trie.ts                                        *)

(* A trace belongs to the root trace that comes before it. *)
RootOf(traces, k) == Max({j \in 1..k : traces[j].traceAddress = <<>>})

(* The traces that are stored at a node of the trie; the last one stays. *)
AtNode(traces, root, path) ==
  {j \in DOMAIN traces : RootOf(traces, j) = root /\ traces[j].traceAddress = path}

(* Mutant: only the parent is looked at. *)
MutantParentOnly(traces, k) ==
  LET path == traces[k].traceAddress
  IN path # <<>> /\ \E j \in AtNode(traces, RootOf(traces, k), Front(path)) : traces[j].error

(* markChildrenWithFailedParents: some node above this one holds a failed   *)
(* trace.                                                                   *)
HasFailedParent(traces, k) ==
  LET root     == RootOf(traces, k)
      path     == traces[k].traceAddress
      Above(n) == AtNode(traces, root, SubSeq(path, 1, n))
  IN /\ k = Max(AtNode(traces, root, path))
     /\ \E n \in 0..(Len(path) - 1) : Above(n) # {} /\ traces[Max(Above(n))].error

filterErrors(traces) ==
  ElementsAt(traces, {k \in DOMAIN traces : ~traces[k].error /\ ~HasFailedParent(traces, k)})

-----------------------------------------------------------------------------
(* fetch_data.ts, decode_transfers.ts                                      *)

(* The traces that move something; rewards end with the merge. *)
IsEffective(trace, block) ==
  /\ trace.value # 0
  /\ trace.type = "call" => trace.callType = "call"
  /\ trace.type = "reward" => block < THE_MERGE

parseEthInternalTrx(traces, block) ==
  LET correct == filterErrors(traces)
  IN ElementsAt(correct, {k \in DOMAIN correct : IsEffective(correct[k], block)})

(* A reward has no transaction, and gets the first position. *)
decodeTransferTrace(trace, block, position) ==
  IF trace.type = "reward"
  THEN Transfer("mining_block", trace.to, trace.value, block, 0, "reward")
  ELSE Transfer(trace.from, trace.to, trace.value, block, position, trace.type)

TraceTransfers(traces, block, position) ==
  LET effective == parseEthInternalTrx(traces, block)
  IN [i \in 1..Len(effective) |-> decodeTransferTrace(effective[i], block, position)]

(* The node lists the rewards of a block after its transactions. *)
transformPastTransferEvents(block) ==
  FlattenSeq([i \in 1..Len(block.transactions) |->
    TraceTransfers(block.transactions[i].traces, block.number, block.transactions[i].position)])
  \o TraceTransfers(block.rewards, block.number, 0)

-----------------------------------------------------------------------------
(* fees_decoder.ts, withdrawals_decoder.ts                                 *)

getPreLondonForkFees(tx, block) ==
  <<Transfer(tx.from, block.miner, tx.gasPrice * tx.gasUsed, block.number, tx.position, "fee")>>

getBurntFee(tx, block) ==
  Transfer(tx.from, "burn", block.baseFeePerGas * tx.gasUsed, block.number, tx.position, "fee_burnt")

getMinerFee(tx, block) ==
  LET tipMinerPerGas == tx.gasPrice - block.baseFeePerGas
  IN IF tipMinerPerGas > 0
     THEN <<Transfer(tx.from, block.miner, tipMinerPerGas * tx.gasUsed, block.number, tx.position, "fee")>>
     ELSE <<>>

getPostLondonForkFees(tx, block) == <<getBurntFee(tx, block)>> \o getMinerFee(tx, block)

getFeesFromTransactionsInBlock(block) ==
  FlattenSeq([i \in 1..Len(block.transactions) |->
    IF block.number >= LONDON_FORK_BLOCK
    THEN getPostLondonForkFees(block.transactions[i], block)
    ELSE getPreLondonForkFees(block.transactions[i], block)])

(* All at the first position, with their own index. *)
getBeaconChainWithdrawals(block) ==
  [i \in 1..Len(block.withdrawals) |->
     [Transfer("withdrawal", block.withdrawals[i].address, block.withdrawals[i].amount,
               block.number, 0, "beacon_withdrawal") EXCEPT !.internalTxPosition = i - 1]]

transformPastTransactionEvents(block) ==
  getFeesFromTransactionsInBlock(block) \o getBeaconChainWithdrawals(block)

-----------------------------------------------------------------------------
(* genesis_transfers.ts, dao_hack.ts                                       *)

(* ethereum_genesis.csv: accounts and amounts *)
GENESIS_TRANSFERS == <<<<"a", 50>>, <<"b", 20>>>>

(* accounts and balances *)
DAO_HACK_ADDRESSES == <<<<"a", 1>>, <<"b", 2>>>>

getGenesisTransfers ==
  [i \in 1..Len(GENESIS_TRANSFERS) |->
     Transfer("GENESIS", GENESIS_TRANSFERS[i][1], GENESIS_TRANSFERS[i][2], 0, 0, "genesis")]
  \o <<Transfer("mining_block", "zero", 5, 0, 0, "reward")>>

daoHackTransfers ==
  [i \in 1..Len(DAO_HACK_ADDRESSES) |->
     Transfer(DAO_HACK_ADDRESSES[i][1], "refund", DAO_HACK_ADDRESSES[i][2],
              DAO_HACK_FORK_BLOCK, 0, "dao_hack")]

(* Before the first transfer of the fork block; before the last of all when  *)
(* findIndex finds none and answers -1.                                      *)
injectDAOHackTransfers(transfers) ==
  LET ofBlock == {i \in DOMAIN transfers : transfers[i].blockNumber = DAO_HACK_FORK_BLOCK}
      before  == IF ofBlock # {} THEN Min(ofBlock) - 1
                 ELSE IF transfers = <<>> THEN 0 ELSE Len(transfers) - 1
  IN SubSeq(transfers, 1, before) \o daoHackTransfers
       \o SubSeq(transfers, before + 1, Len(transfers))

(* blocks: the blocks of the interval, in order. *)
transformPastEvents(fromBlock, toBlock, blocks) ==
  LET events == (IF fromBlock = 0 THEN getGenesisTransfers ELSE <<>>)
                  \o FlattenSeq([i \in 1..Len(blocks) |-> transformPastTransferEvents(blocks[i])])
                  \o FlattenSeq([i \in 1..Len(blocks) |-> transformPastTransactionEvents(blocks[i])])
  IN IF fromBlock <= DAO_HACK_FORK_BLOCK /\ DAO_HACK_FORK_BLOCK <= toBlock
     THEN injectDAOHackTransfers(events) ELSE events

-----------------------------------------------------------------------------
(* util.ts, end_of_block.ts                                                *)

transactionOrder(a, b) ==
  \/ a.blockNumber < b.blockNumber
  \/ /\ a.blockNumber = b.blockNumber
     /\ \/ a.transactionPosition < b.transactionPosition
        \/ /\ a.transactionPosition = b.transactionPosition
           /\ a.internalTxPosition < b.internalTxPosition

(* Math.pow(2, 31) - 1 *)
maxTxPosition == 2147483647

(* Mutant: the last block is left out, as the comment on range has it. *)
MutantExclusive(fromBlock, toBlock) ==
  [i \in 1..(toBlock - fromBlock) |->
     Transfer("zero", "zero", 0, fromBlock + i - 1, maxTxPosition, "EOB")]

(* Both ends included. *)
collectEndOfBlocks(fromBlock, toBlock) ==
  [i \in 1..(toBlock - fromBlock + 1) |->
     Transfer("zero", "zero", 0, fromBlock + i - 1, maxTxPosition, "EOB")]

(* Two sorted arrays into one; of equals the second array's come first. *)
mergeSortedArrays(first, second) == stableSort(second \o first, transactionOrder)

(* Mutant: positions count over the block. *)
MutantPositionInBlock(transfers) ==
  [i \in DOMAIN transfers |-> [transfers[i] EXCEPT !.internalTxPosition =
     Cardinality({j \in 1..(i - 1) : transfers[j].transactionPosition = transfers[i].transactionPosition})]]

(* The place within the transaction, from 0. *)
assignInternalTransactionPosition(transfers) ==
  [i \in DOMAIN transfers |-> [transfers[i] EXCEPT !.internalTxPosition =
     Cardinality({j \in 1..(i - 1) : /\ transfers[j].blockNumber = transfers[i].blockNumber
                                     /\ transfers[j].transactionPosition = transfers[i].transactionPosition})]]

(* A block without transfers has no transactions on the other node either.   *)
(* verified: what that node answers for each block                           *)
assertBlocksMatch(transfers, fromBlock, toBlock, verified) ==
  \A b \in fromBlock..toBlock :
    (\E i \in DOMAIN transfers : transfers[i].blockNumber = b) \/ verified[b].transactions = <<>>

(* Mutant: positions are taken to start at 1. *)
MutantFirstPosition(transfers, b) ==
  LET positions == {transfers[i].transactionPosition :
                      i \in {j \in DOMAIN transfers : transfers[j].blockNumber = b}}
  IN \A p \in positions : p = 1 \/ p - 1 \in positions

(* Mutant: positions are not looked at. *)
MutantAnyPosition(transfers, b) == TRUE

(* Positions start at 0 or 1 and leave none out. *)
assertTransfersWithinBlock(transfers, b) ==
  LET positions == {transfers[i].transactionPosition :
                      i \in {j \in DOMAIN transfers : transfers[j].blockNumber = b}}
  IN \A p \in positions : p \in {0, 1} \/ p - 1 \in positions

checkETHTransfersQuality(transfers, fromBlock, toBlock, verified) ==
  /\ assertBlocksMatch(transfers, fromBlock, toBlock, verified)
  /\ \A b \in fromBlock..toBlock : assertTransfersWithinBlock(transfers, b)

=============================================================================
