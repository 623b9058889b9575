------------------------- MODULE IntervalCalculator -------------------------
(***************************************************************************)
(* The block-interval arithmetic that the ETH, ERC20, Matic, receipts,     *)
(* eth_blocks, eth_contracts and UTXO workers share                        *)
(* (src/src/blockchains/eth/lib/next_interval_calculator.ts), and the one  *)
(* that XRP, ICP and ICRC use in its place.                                *)
(*                                                                         *)
(* The operators are pure: a caller passes the fields of its worker and    *)
(* assigns the results back.                                               *)
(***************************************************************************)
EXTENDS Integers

WORK_NO_SLEEP == 0
WORK_SLEEP    == 1
NO_WORK_SLEEP == 2

(* Only a worker that has caught up with its cached confirmed block asks   *)
(* the node (line 20 returns before the await).                            *)
NeedsNode(lastExportedBlock, lastConfirmedBlock) ==
  lastExportedBlock >= lastConfirmedBlock

(* Mutant: one new block is not enough to work. *)
MutantContextOffByOne(lastExportedBlock, lastConfirmedBlock, newConfirmedBlock) ==
  IF ~NeedsNode(lastExportedBlock, lastConfirmedBlock)
  THEN [context |-> WORK_NO_SLEEP, confirmed |-> lastConfirmedBlock]
  ELSE IF newConfirmedBlock > lastConfirmedBlock + 1
  THEN [context |-> WORK_SLEEP, confirmed |-> newConfirmedBlock]
  ELSE [context |-> NO_WORK_SLEEP, confirmed |-> lastConfirmedBlock]

(* The context and the new lastConfirmedBlock, given the height that the   *)
(* node confirms; newConfirmedBlock is not looked at while catching up.    *)
analyzeWorkerContext(lastExportedBlock, lastConfirmedBlock, newConfirmedBlock) ==
  IF ~NeedsNode(lastExportedBlock, lastConfirmedBlock)
  THEN [context |-> WORK_NO_SLEEP, confirmed |-> lastConfirmedBlock]
  ELSE IF newConfirmedBlock > lastConfirmedBlock
  THEN [context |-> WORK_SLEEP, confirmed |-> newConfirmedBlock]
  ELSE [context |-> NO_WORK_SLEEP, confirmed |-> lastConfirmedBlock]

(* The XRP, ICP and ICRC workers decide for themselves: they ask the node   *)
(* only while lastConfirmedBlock equals lastExportedBlock, and then take     *)
(* any other height for work, a lower one too.                               *)
equalityContext(lastExportedBlock, lastConfirmedBlock, newConfirmedBlock) ==
  IF lastConfirmedBlock # lastExportedBlock
  THEN [context |-> WORK_NO_SLEEP, confirmed |-> lastConfirmedBlock]
  ELSE IF newConfirmedBlock = lastConfirmedBlock
  THEN [context |-> NO_WORK_SLEEP, confirmed |-> lastConfirmedBlock]
  ELSE [context |-> WORK_SLEEP, confirmed |-> newConfirmedBlock]

Minimum(a, b) == IF a < b THEN a ELSE b

(* Mutant: the interval starts at the block that was exported last. *)
MutantIntervalOverlaps(lastExportedBlock, blockInterval, lastConfirmedBlock) ==
  [fromBlock |-> lastExportedBlock,
   toBlock   |-> Minimum(lastExportedBlock + blockInterval, lastConfirmedBlock)]

(* Mutant: the interval skips one block. *)
MutantIntervalSkips(lastExportedBlock, blockInterval, lastConfirmedBlock) ==
  [fromBlock |-> lastExportedBlock + 2,
   toBlock   |-> Minimum(lastExportedBlock + blockInterval, lastConfirmedBlock)]

(* The next inclusive interval; empty, with toBlock below lastExportedBlock, *)
(* when the confirmed block is behind what was exported.                     *)
nextIntervalCalculator(lastExportedBlock, blockInterval, lastConfirmedBlock) ==
  [fromBlock |-> lastExportedBlock + 1,
   toBlock   |-> Minimum(lastExportedBlock + blockInterval, lastConfirmedBlock)]

=============================================================================
