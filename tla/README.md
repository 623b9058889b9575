# Verification of san-chain-exporter

TLA+ models of the exporter that reads blockchains and writes their events to
Kafka, keeping its position in ZooKeeper. Paths are relative to the repository
root, which is `src/` here (so the code is under `src/src/`).

## The system

A process runs one worker. `index.ts` builds `Main`, which connects the
`Exporter` (Kafka producer and ZooKeeper client), initialises the worker,
restores its position and loops: `work()` asks the node for the next events,
`storeEvents` writes them in one Kafka transaction, `savePosition` writes the
position to a znode. Exceptions end the process and a supervisor starts it
again; SIGINT and SIGTERM end the loop after the current iteration.

| Component | State | Operations | What is hard | What makes it correct |
|---|---|---|---|---|
| Main loop (`main.ts`, `index.ts`, `lib/worker_base.ts`) | `shouldWork`, last processed position | init, workLoop, stop, disconnect | signals and kills at any await | nothing lost, stop is clean, stop terminates |
| Storage (`lib/kafka_storage.ts`, `lib/zookeeper_client_async.js`) | open transaction, znode | begin, sendData, commit, abort, getLastPosition, savePosition | partial failures, a commit whose outcome is unknown, overlapping processes | whole batches, position never ahead of the data |
| Interval workers (ETH, ERC20, receipts, eth_blocks, eth_contracts, matic, UTXO, XRP, ICP, ICRC) | `lastConfirmedBlock`, `lastExportedBlock`, `lastPrimaryKey` | init, work | a cached height, a node that lags, reorganisations | contiguous intervals, only final data, progress |
| Requests of UTXO, XRP, ICP, ICRC | requests in flight, retries, a recorded connection error | request, retry, give up, error event | parallel requests, errors by callback, answers without data | every claimed block exported with its own contents, errors surface |
| Decoders and keys (ETH, ERC20, Matic, ICP, ICRC, receipts, eth_blocks, eth_contracts) | none, or per call | fetch, decode, filter, sort, number | reverted calls, events reported twice, forks, split requests, batches cut anywhere | what is exported explains the balances of the chain; positions and keys identify transfers over repetitions |
| ERC20 balances (`erc20/lib/add_balances.ts`, `multicall_blacklist.ts`) | failure counter per contract | chunks of batch or single requests | chunks in parallel over one blacklist, outages | each balance resolved once, broken contracts dropped, nothing held against anyone when a request is refused as a whole |
| Cardano worker | position, key | work | answers cut anywhere | whole blocks, stable keys |
| Beacon worker | last balances, pending batches, current day | work | a day spans several iterations and crashes | complete days, records that chain |
| Blocks list, HTTP client, logging, metrics, health check | none or per call | input and output | time | not modelled, see below |

Components share nothing but the worker's fields (read by `Main` after `work()`),
the Kafka topic and the znode. The two latter are also shared by processes that
overlap during a rolling restart.

## Modules

`IntervalCalculator` - `analyzeWorkerContext`, `nextIntervalCalculator`
(`eth/lib/next_interval_calculator.ts`) and the `===` variant of XRP, ICP and
ICRC, as operators. No state.

`Exporter` - the core. Every await of the code is a value of `pc[i]`:
`connect`, `initWorker`, `getLastPosition`, `exists`/`setData`/`mkdirp` (the
requests of savePosition), `loop`, `analyze` and `fetch` (the two halves of
work), `begin`/`sendData`/`commit`/`abort` (storeEvents), `disconnect`, and
`down`. Each action is what the code does from one await to the next. `Crash`,
`Stop`, `SendDataFails` and `CommitTransactionFails` interrupt it; `GrowChain`
and `Reorganise` are the chain. A block yields at most one event, tagged with
the fork it was read from. Constants select the worker: `Tracking` (how it
notices new blocks) and `Advance` (how it moves its position: `assign` ERC20,
XRP and others, `count` UTXO, ICP, ICRC, `strict` ETH, which throws on an
interval of negative length).

`ExportStream` - the promise to readers: a set of delivered blocks that only
grows, contiguous from the start, and a position that never claims more.
`Exporter!ImplementsStream` is the refinement (`topic` is the set of delivered
event blocks, `saved` the znode).

`MCExporter` instantiates `Exporter` (two processes, START_BLOCK -1).
`ExporterProofs` holds the proofs about any number of processes,
`ExporterSoloProofs` those about one. `BalancesProofs`, `BeaconProofs`,
`CardanoProofs`, `BlockWorkersProofs` and `EvmWorkersProofs` hold the proofs
about the module of that name; `ArrayProofs` has the lemmas that the last two
rest on: concatenating, filtering and sorting sequences of any length,
`buildInclusiveChunks`, and sums over finite sets.

`Chunks` - `buildInclusiveChunks` and its callers' choice of the size.
`Balances` - one `work()` after the other asking for the same batches, each
chunk a process that splits by the blacklist, waits for the batch answer or
until all single calls are settled, and records the outcome or throws.
`refused` is the set of calls that `Promise.allSettled` reports as rejected;
`asked` counts a batch and the single calls that repeat it as one request.
`MCBalances` gives the batches.

`Beacon` - the beacon worker with `work()` in three actions (pending batch,
nothing to do, next day), followed by store and save. Balances per day are
chosen at the beginning. `ToExport` is the set of slots that are due: the last
epoch boundary of every day after the start's day, and of the genesis day if
the start is slot 0. START_BLOCK is the variable's value less one, so the
default is -1, which is not slot 0: the genesis day is then left out.

`Cardano` - the Cardano worker. The API answers with any prefix of the
interval's transactions, possibly without one of the middle; genesis is read to
its end. `Throw` is an exception of `work()`.

`InternetComputer` - how ICP and ICRC pair the operations of a transaction and
turn them into transfers, as operators. `BlockWorkers` - the four workers that
ask for blocks one by one: `work()` is `StartRequests`, then one `Answer`,
`Retry`, `EmptyLedger`, `UnvalidatedLedger` or `GiveUp` per block and await, in
any order, then `FinishWork` or `BatchThrows`. `recordConnectionError` is the
callback of an XRP connection. The variable `worker` says which of the four
runs; the blocks of ICP and ICRC are operations, of XRP and UTXO only whether
there are transactions is kept.

`Sorting` - the stable sort. `EthTransfers` - what the ETH worker makes of a
block: failed traces and all below them (`custom_trie.ts`), rewards, fees
before and after London, withdrawals, genesis, the DAO fork, order, ends of
blocks, the quality check. `TokenEvents` - the ERC20 and Matic logs: requests
that are split when the node has too many logs, decoding, mints and burns that
two events report, the presale, renamed contracts, keys. Both are operators
without state. `EvmWorkers` composes them: `mode` selects ETH, one of the
three contract modes of ERC20 (`vanilla`, `exact` for extract_exact_overwrite,
`append` for extract_all_append), Matic, receipts, eth_blocks or
eth_contracts; the blocks of the chain are chosen at the beginning among four
contents, each written twice: as what really happens (`moves`, `creates`) and
as the traces and logs in which a node reports it. `WorkEth`, `WorkTokens` and
`WorkRecords` are `work()`; `WorkEthLossy` is `work()` with a node that leaves
transactions out, and `WorkThrows` with one that refuses or is noticed to
leave something out. The ETH worker runs with IS_ETH, a verification node and
ASSIGN_PRIMARY_KEY (the default).

`Beacon`, `Cardano`, `BlockWorkers` and `EvmWorkers` keep storing as one atomic
step that may be preceded or followed by a crash; that this is a faithful view
of storeEvents is what `WholeBatches` and `SavedPositionCovered` show for
`Exporter`.

Definitions named `Mutant...` are wrong variants of the definition that follows
them, used to test the properties; no specification uses them.

## Runs

| Run | Question | Result |
|---|---|---|
| `exporter_single` | one ETH process, lagging node, failures, kills, signals, reorganisations: loss, gaps, non-final data, duplicates, unclean stops, position; progress, termination of stop | holds |
| `exporter_overlap` | two ICP or ICRC processes at once, lagging node, refused reads: refinement of `ExportStream`, `IInv`, whole batches | holds |
| `lag_erc20` | can a lagging node move the position of ERC20 back? | **violated**: an empty interval sets the position to an older block |
| `read_error` | does a restart resume? | **violated**: an error while the position is read counts as a first start |
| `live_icp` | do ICP and ICRC resume with a lagging node? | **violated**: `===` never asks again after a restart behind the position |
| `balances_safe` | balances resolved once; broken contracts cost a bounded number of requests; a request refused as a whole blames no contract and fails no balance, a contract that works is blamed only beside one that was answered | holds |
| `beacon_days` | complete days, counted keys, chained records, day order; progress while every day needs two batches or more | holds |
| `beacon_one_batch` | does work() update the position? | **violated** on a day of one batch, which the worker then repeats for ever |
| `cardano_blocks` | whole, confirmed blocks, stable keys; progress | holds |
| `block_workers` | ICP, ICRC, XRP, UTXO: exported transfers add up to the ledger's balances, ledgers have their own contents, keys identify transfers over repetitions (ICRC: grow within a batch), positions go back only for XRP and by no more than the lag, connection errors surface, progress unless `Stuck` | holds |
| `evm_workers` | ETH, ERC20, Matic: exported transfers explain all balances; blocks are closed once and last; positions, token keys and times are right over repetitions; lost transactions are noticed, or the balances would not agree; receipts, blocks and created contracts are those of the chain; no block is refused for ever | holds |
| `eth_keys` | do the keys of the ETH worker identify events? | **violated**: the ends of blocks get keys that the saved last key does not count |

The violated properties are sentences of the repository's own README, comments
or tests; `findings` in `PROJECT.json` quotes them.

What the passing properties leave out on purpose, because the code does not
promise it: `Stuck` in `BlockWorkers` names two ways in which ICP and ICRC stop
for good (a height behind the position, see `live_icp`, and an ICRC batch of
more than 100 transfers, which fails an assertion at every restart). The keys
of ICRC are the block number plus the place in the batch and collide across
batches. The losses of `EvmWorkers` are those that the check of the ETH worker
can see: a transaction between others, or all of a block that yields nothing
else; the last ones of a block can be lost unnoticed, and so can traces. The
presale of SAN may share a key with a log of an old contract of its block in
the exact mode. Receipts asked for by block are lost if the node answers null.
The comment at `end_of_block.ts:19` says
that the end of the range is excluded; it is included, and `BlocksAreClosed`
needs that. `multicall_blacklist.ts:8` says that a blacklisted contract stays
so for the lifetime of the process; a clean answer to an earlier request takes
it off again. Multipliers of renamed contracts are integers in `TokenEvents`, so
the rounding of `editAddressAndAmount` does not show.

### Bounds

`MaxHead` 3 or 4 with `BlockInterval` 2 gives full and short intervals, blocks
with and without events, block 0 and START_BLOCK -1. `MaxInterruptions` 3
(`exporter_single`) allows a failure during the recovery from a failure, or two
stop signals and a crash; with two processes it is 1, in the violated runs 2 or 3. `MaxLag` 1 to 3 allows a
restart that hears of a height below the saved position. The overlap run needs two processes; a third adds
no new kind of interference as they share only the topic and the znode.
Reorganisations are one block deep with `Confirmations` 1 (`ReorgAssumption`:
never deeper than CONFIRMATIONS). Balances: five batches over three chunks, so
that chunks have different lengths, and a threshold of 2, so that it is reached
with requests in flight. Beacon: a day of 20 seconds, slots of 2, epochs of 3
slots and a genesis time of 7, which do not divide each other; two or three
validators, batches of one or two changes, and two crashes, so that a day is
begun for a third time. Cardano: all distributions of up
to two transactions per block, intervals of three blocks, six blocks.
`BalancesSafe` does not check deadlock because the number of rounds is bounded.
Block workers: three confirmed blocks in batches of two, so that a batch is
full, short or cut elsewhere after a crash; two tries per request and two
failures, so that a request can succeed at its last try or give up; limits of
3 per block and 5 per batch for ICRC, so that batches on both sides of the
limit occur. EVM workers: blocks 0 to 3 with the DAO fork at 1, London at 2 and
the merge at 3, so that each rule change falls inside and between batches. An
interval has up to three blocks over two parallel requests, so there are
batches of one and of two requests, and requests of one block and of two; a
request for blocks 1 and 2 occurs when block 0 was exported alone. A request
gives at most 4 logs, which the fuller blocks exceed alone and two blocks of 4
only together, so `getRawEvents` halves requests, down to the receipts of one
block (`MutantMiddleExclusive` is a wrong middle).

### Fairness

`Exporter!FairSpec`: weak fairness of a process's own steps (an await is
answered or throws) and of `Start` (the supervisor). Nothing is assumed of
failures or chain growth. `FairLagSpec` adds that a process asking again and again
is now and then answered by an up-to-date replica (strong fairness of
`AnalyzeAt(i, head)`); a node that always lags by the same amount would only
delay the export. `Beacon` and `Cardano` assume the loop runs and the chain
grows; `Cardano` also that a complete answer comes now and then, without which
the worker may see the same partial block for ever. `BlockWorkers!FairSpec`
assumes the same of heights as `FairLagSpec`. `EvmWorkers!FairSpec` is weak
fairness of the process's steps, written as `GoesOn` (some step that moves
`pc` and is no fault), which is enabled in every state; so is that of
`Beacon`. `exporter_single`
checks liveness under `FairLagSpec`.

## Proofs

The proofs hold for every value of the constants that satisfies the named
assumptions of the modules: any number of processes, blocks, validators,
batches, crashes and failures, any lag and any interval. The bounds (`Max...`)
are constants too, so they bound no proof. Each theorem below states the
property of the same line, which a run checks on a small instance.

| Module | Theorem | Property |
|---|---|---|
| `ExporterProofs` | `TypeCorrect`, `InvAlways` | `TypeOK`, `IInv` |
| | `NoLoss`, `NoGaps`, `Finality` | `SavedPositionCovered`, `CommittedWithoutGaps`, `ExportedIsFinal` |
| | `Atomicity` | `WholeBatches` |
| | `Refinement` | `ImplementsStream` |
| `ExporterSoloProofs` | `GracefulStop` | `GracefulStopIsClean` |
| | `PositionGrows`, `NoResend`, `BoundedDuplicates` | `PositionNeverBackwards`, `NothingSavedIsResent`, `DuplicatesBounded` |
| `BalancesProofs` | `OneBalanceEach`, `BrokenDropped`, `NobodyBlamed` | `EveryPairResolvedOnce`, `BrokenContractIsDropped`, `OutageBlamesNobody` |
| `BeaconProofs` | `DayByDay`, `Chained`, `CompleteDays`, `KeysCount` | `DaysInOrder`, `RecordsChain`, `SavedDayIsComplete`, `SavedKeyCounts` |
| `CardanoProofs` | `StableKeys`, `NoLoss`, `WholeBlocks`, `ConfirmedOnly` | `KeysAreRanks`, `SavedIsExported`, `BlocksAreWhole`, `OnlyConfirmed` |
| `BlockWorkersProofs` | `Rewinds`, `OwnContents`, `TransferKeys` | `RewindsOnlyByLag`, `LedgersAgree`, `KeysIdentify` |
| | `TransfersExplainBalances` | `BalancesAgree` |
| `EvmWorkersProofs` | `TokenKeysIdentify`, `EventTimestampsRight` | `KeysIdentify`, `TimestampsRight` |
| | `TransferPositionsIdentify`, `EveryBlockIsClosed` | `PositionsIdentify`, `BlocksAreClosed` |
| | `TransfersExplainEthBalances` | `EthBalancesAgree` |
| | `ReceiptsBlocksAndContractsAgree` | `RecordsAgree` |

None of the properties is inductive. What each inductive invariant adds:

* `Exporter`. That the saved position is covered follows from what the process
  that saves knows. `IInv` adds, per process (`ProcessInv`), that all blocks up
  to `lastExportedBlock` are delivered or in the batch it is about to commit,
  that the open transaction equals the batch when it is committed, and that its
  batch and its cached height are confirmed. The other processes can only add
  to the log (`DeliveredGrows`, `ProcessFrame`), which is why overlapping
  processes do no harm. `ChainFrame` covers growth and reorganisation, where
  `ReorgAssumption` is needed.
* One process (`Instance = {self}`). Two overlapping processes refute all four
  theorems, as one may save an older position than the other. `SoloInv` says
  where the znode equals the process's position and where no transaction is
  open; that is all `GracefulStop` needs. The three others also assume that
  the znode can be read and that the worker does not take the end of an empty
  interval for its position (`~ReadMayFail`, `Advance # "assign"`): the runs
  `read_error` and `lag_erc20` show what happens otherwise. `AheadInv` keeps
  the position between the saved one and one interval above it.
  `BoundedDuplicates` needs an account of duplicates to come (`PaidInv`): a
  commit whose acknowledgement was lost has already made its batch visible, so
  the interruption that lost it pays for the batch before it is sent again.
* `Balances`. `Accounted`: a pair of address and contract has no balance while
  it is pending in its chunk, and exactly one afterwards. That a pair is in one
  chunk only is the lemma `ChunksPartition`: `buildInclusiveChunks` cuts every
  range into disjoint chunks that cover it, at most `concurrency` of them.
  `Tally`: a broken contract was asked as often as it failed, plus the requests
  in flight; as a chunk has one request in flight, and starts one only below
  the threshold, the bound follows although the blacklist is read before the
  await and written after it. `FinishHasCause`: a contract gets a failure only
  if it was asked for and none of its calls has a balance; when it never
  reverts, all of its calls were then refused, and as answers are taken only
  when some call was not refused, that call was to another contract.
* `Beacon`. The calendar lemmas (`LastSlotOfDay`, `OneSlotPerDay`, `NextDay`)
  show that `getLastUtcDaySlot` gives the last epoch of a day and
  `nextDayIndex` the day after the position's, for lengths that do not divide
  each other. `DayInv`: between days the worker knows the balances at its
  position (or nothing yet, and preloads them); within a day it knows that
  day's, and every change of the day is in Kafka, returned or pending.
  `PositionInv`: positions stand for complete days and keys for the number of
  their changes. `SlicesFacts` shows that the slices hold all changes.
* `Cardano`. The key is the number of transactions up to the position, and a
  batch holds exactly the transactions after the saved position: so a batch
  that is cut elsewhere after a crash numbers them the same. `AcceptedIsComplete`
  shows that what `discardNotCompletedBlock` and `verifyAllBlocksComplete`
  leave of an answer is whole blocks.
* `BlockWorkers`. `Heights`: every position is confirmed, and the cached
  height is behind the saved position by no more than the lag. `Requests`:
  the requests are those of the interval, and one that is done has the
  contents of its own block or is marked. `Ledgers`: what is committed or
  about to be is what the chain holds. `Operations` is for
  ICP and ICRC: what is in Kafka, or returned, for a block are the transfers that
  `TransfersOf` makes of the chain's block, each at its place; an ICP key is
  that place plus the transfers of all earlier blocks (`Before`), and the
  worker's counter and the saved one are `Before` of their positions. So the
  key does not mention where batches were cut or what was thrown away.
  `BatchTransactions` shows it of a batch, whose transfers are laid out in it as
  they are in the chain (`LayoutFrom`). The theorem
  `TransfersAreThoseOfTheChain`, which no run states by itself, says that the
  topic is complete up to the saved position and holds nothing else.
  `TransfersExplainBalances` adds up what it says: `BlocksExplained` evaluates
  the two parsers on every content that a block of the model has (which
  contents those are is data of the model, not a constant) and finds that the
  transfers net to the operations, `BlockNet` and `ClaimedOfBlock` are the two
  sums of one block, and `SumByBlock` adds the blocks up to the saved position,
  of which there can be any number.
* `EvmWorkers`. For every chain made of the contents that `EthContents` and
  `TokenContents` list (which transactions can be in a block is data of the
  model, not a constant), any length, interval and forks, any limit of logs and
  any number of connections. `Heights` bounds the positions. The three
  strengthenings say what may be in Kafka by naming it without the way it was
  fetched:
  `TokensExported`: every event is one that the mode makes of a log of the chain,
  with the key of its place in its block. That needs `RawEventsList` (splitting
  a request in halves, at any limit, loses, repeats and reorders nothing),
  `FetchedList` (nor do the chunks), and `KeyedEventsApart` (the keys of two
  events differ, copies under the new contract included).
  `RecordsExported`: what is stored for a block are its records.
  `BlocksExported`: what is stored for a block is `BlockTransfers` of it, a set
  that does not mention the interval. `WorkSendsBlocks` gets there through the
  injection of the DAO transfers, the stable sort, the merge with the ends of
  blocks and the numbering: a transfer's number is how many come before it in
  its transaction, which none of these steps and no cut of the interval
  changes (`PartNumbered`, `BatchIsNumbered`). `LossNoticed` shows that
  `checkETHTransfersQuality` refuses a batch for which the node left
  out transactions in one of the two ways of `WorkEthLossy`, so `BlocksExported`
  is about whole blocks.
  `WorkClosesBlocks` does the same for the order of a batch.
  `TransfersExplainEthBalances` then only needs one block at a time:
  `ChangeOfBlock` weighs every transfer that the decoding makes of a block by
  what it gives an account (`Gains`) and finds what the block changes: traces
  that no failed parent takes back against the values the transactions move
  (`MovedByTraces`), fees before and after London against the gas
  (`WeightOfFees`), rewards before the merge and withdrawals after it, genesis
  and the DAO refunds. `NumberedApart` shows that the numbering keeps all of
  them apart in a set of events, and `SumByBlock` adds the blocks up to the
  saved position.

Assumptions on the constants that are more than types: `ReorgAssumption`
(reorganisations are not deeper than CONFIRMATIONS); `CalendarAssumption` (an
epoch is no longer than a day, and the genesis day has more than one epoch:
6.4 minutes, and a genesis at noon, on the real chain); in `BlockWorkers` the
chain is initially as long as the confirmations and the lag together;
`ForksInOrder` (DAO fork before London before the merge: 1920000, 12965000 and
15537393 in `dao_hack.ts:272` and `constants.ts:5-7`); `TokenEventsAssumption`
(at least one connection, and no contract both renamed and kept); `KeysFit`
(`PRIMARY_KEY_MULTIPLIER` is at least twice the number of logs in a block of the
model; `extend_events_key.ts:52` logs an error when it is not).

Model-checked only:

* liveness and what rests on fairness (`ENABLED` is out of the provers' reach):
  progress, termination of a stop, `ConnectionErrorSurfaces`;
* `TokenBalancesAgree`, the sums of the token transfers. What the topic holds is
  proved (`TokensExported`) and so is how sums go together by blocks
  (`ArrayProofs`); it would still need every content of a block evaluated in
  every mode, with the contracts that are renamed, copied or left out, which
  TLC does.

The library's induction theorems take an operator, which the provers cannot
instantiate. `ArrayProofs!Induction` says the same of a set of numbers, and is
what the proofs about sequences, splitting and sums use.

What `OutageBlamesNobody` has to allow: a single call that the node refuses
while others of the same request are answered is recorded like a revert
(`add_balances.ts:134`), so a contract that works can be blacklisted by
repeated partial refusals, if all of its own calls are among them. The comment at `multicall_blacklist.ts:19` speaks of
"clean on-chain reverts" only.

## Not modelled

Partitioners and signal records of `sendData`, which decide only where in the
topic a record goes; the HTTP server, health check and disconnect timeout (time
is not modelled; the time of the last export, which the health check compares,
is refreshed by every `work()` that returns, also when it exported nothing); the reading of the legacy position format; the blocks list
mode of ERC20, in which `work()` throws at every call because the list is a
Promise that nobody awaits (`erc20_worker.ts:82`); the counting of requests for the
metrics; hexadecimal and decimal conversions, hashes, symbols and the columns
that logs of receipts are put in; answers of another shape than the APIs
document. The timestamps cache allows a second `waitResponse()` after a failed
one (`timestamps_cache.ts:61`), which awaits the same rejected request; `work()`
throws either way. After a restart the beacon worker gives every validator the
time of the last saved day (`eth_beacon_worker.ts:119`), so a record exported
again can differ in its old timestamp; `RecordsChain` asks only that the balance
was true at that time.

## Plan

1. Done: all modules above; every worker is modelled.
2. Done: the proofs of the table above.
3. Proofs next: a weaker statement about two overlapping processes that also
   covers duplicates; the sums over the token transfers.
4. Partitions and signal records, if consumers come to depend on them.
