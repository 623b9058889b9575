------------------------------ MODULE Exporter ------------------------------
(***************************************************************************)
(* One exporter process from start to exit, or several that overlap:       *)
(* index.ts and main.ts (initialisation, work loop, stop, disconnect), the *)
(* Exporter of lib/kafka_storage.ts (Kafka transaction, position kept in   *)
(* ZooKeeper) and a worker that advances over confirmed block intervals    *)
(* (eth, erc20, matic, receipts, eth_blocks, eth_contracts, utxo, and xrp, *)
(* icp, icrc with Tracking = "equality").                                  *)
(*                                                                         *)
(* Every await of the code is a value of pc, so a process can be signalled *)
(* or killed, and the chain can grow or reorganise, at every await.        *)
(* An exception that reaches index.ts kills the process (the handler of    *)
(* 'unhandledRejection' rethrows); the supervisor starts it again.         *)
(*                                                                         *)
(* Data abstraction: a block in EventBlocks yields one event, identified   *)
(* by its height and by the fork it was read from; other blocks yield      *)
(* none. The sleep between iterations is part of waiting in "loop".        *)
(***************************************************************************)
EXTENDS IntervalCalculator, Sequences, FiniteSets

CONSTANTS
  Instance,          \* exporter processes that share the topic and the znode
  StartBlock,        \* START_BLOCK: the position before the first block
  BlockInterval,     \* BLOCK_INTERVAL (MAX_CONCURRENT_REQUESTS for UTXO)
  Confirmations,     \* CONFIRMATIONS
  EventBlocks,       \* heights of the blocks that contain events
  InitHead,          \* height of the chain at the beginning
  MaxHead,           \* bound: height the chain grows to
  MaxReorg,          \* deepest reorganisation of the chain
  MaxVersion,        \* bound: times one block is replaced
  MaxLag,            \* how far behind its head the node may answer
  Tracking,          \* how work() finds out that there is work, see WorkerContext
  Advance,           \* how work() moves lastExportedBlock, see AdvancePosition
  ReadMayFail,       \* whether reading the znode's data may be refused
  MaxInterruptions,  \* bound: failures, kills and stop signals together
  NoPosition         \* the znode does not exist / getLastPosition gave null

ASSUME ConstantsAssumption ==
  /\ StartBlock \in Int /\ StartBlock >= -1
  /\ BlockInterval \in Nat \ {0}
  /\ Confirmations \in Nat
  /\ InitHead \in Nat /\ MaxHead \in Nat /\ InitHead <= MaxHead
  /\ MaxVersion \in Nat /\ MaxLag \in Nat /\ MaxInterruptions \in Nat
  /\ EventBlocks \subseteq 0..MaxHead
  /\ Tracking \in {"interval", "equality"}
  /\ Advance \in {"assign", "count", "strict"}
  /\ ReadMayFail \in BOOLEAN
  /\ NoPosition \notin Int

(* What CONFIRMATIONS is for: a block that deep is never replaced. *)
ASSUME ReorgAssumption == MaxReorg \in Nat /\ MaxReorg <= Confirmations

VARIABLES
  head,           \* node: height of the chain
  fork,           \* node: for each height, how often its block was replaced
  pc,             \* the await (or loop point) each process is at
  shouldWork,     \* Main.shouldWork
  confirmed,      \* worker.lastConfirmedBlock
  exported,       \* worker.lastExportedBlock, also Main.lastProcessedPosition
  batch,          \* events that work() returned and that are not stored yet
  txn,            \* records in the producer's open transaction
  log,            \* Kafka: committed transactions, in commit order
  position,       \* ZooKeeper: blockNumber kept in the position znode
  interruptions   \* how many failures, kills and signals there have been

chainVars   == <<head, fork>>
workerVars  == <<confirmed, exported, batch>>
processVars == <<pc, shouldWork, workerVars, txn>>
vars        == <<chainVars, processVars, log, position, interruptions>>

-----------------------------------------------------------------------------
(* The blockchain node (external).                                         *)

BlockHeight == 0..MaxHead

Event == [block : BlockHeight, version : 0..MaxVersion]

(* What getBlockNumber / getblockchaininfo may answer: behind a load        *)
(* balancer a replica may be up to MaxLag blocks behind.                    *)
ReportedHead == {h \in BlockHeight : head - MaxLag <= h /\ h <= head}

EventsIn(from, to) ==
  {[block |-> b, version |-> fork[b]] : b \in {c \in EventBlocks : from <= c /\ c <= to}}

GrowChain ==
  /\ head < MaxHead
  /\ head' = head + 1
  /\ UNCHANGED <<fork, processVars, log, position, interruptions>>

(* The depth newest blocks are replaced by others. *)
Reorganise(depth) ==
  LET replaced == {b \in BlockHeight : head - depth < b /\ b <= head}
  IN /\ replaced # {}
     /\ \A b \in replaced : fork[b] < MaxVersion
     /\ fork' = [b \in BlockHeight |-> IF b \in replaced THEN fork[b] + 1 ELSE fork[b]]
     /\ UNCHANGED <<head, processVars, log, position, interruptions>>

-----------------------------------------------------------------------------
(* Process start and end.                                                  *)

(* The process is gone: its memory with it, and the broker aborts the       *)
(* transaction it left open. The next process has a random transactional.id *)
(* and starts from the values of the BaseWorker constructor.                *)
Exit(i) ==
  /\ pc' = [pc EXCEPT ![i] = "down"]
  /\ shouldWork' = [shouldWork EXCEPT ![i] = TRUE]
  /\ confirmed' = [confirmed EXCEPT ![i] = -1]
  /\ exported' = [exported EXCEPT ![i] = -1]
  /\ batch' = [batch EXCEPT ![i] = {}]
  /\ txn' = [txn EXCEPT ![i] = {}]

Interrupt ==
  /\ interruptions < MaxInterruptions
  /\ interruptions' = interruptions + 1

(* index.ts main(): new Main(). *)
Start(i) ==
  /\ pc[i] = "down"
  /\ pc' = [pc EXCEPT ![i] = "connect"]
  /\ UNCHANGED <<chainVars, shouldWork, workerVars, txn, log, position, interruptions>>

(* An exception out of an await, an 'unhandledRejection', or a kill. *)
Crash(i) ==
  /\ pc[i] # "down"
  /\ Interrupt
  /\ Exit(i)
  /\ UNCHANGED <<chainVars, log, position>>

(* Main.stop(): the first signal lets the current iteration finish, the     *)
(* second one exits at once. A failing monitoring server calls it too.      *)
Stop(i) ==
  /\ pc[i] # "down"
  /\ Interrupt
  /\ \/ /\ shouldWork[i]
        /\ shouldWork' = [shouldWork EXCEPT ![i] = FALSE]
        /\ UNCHANGED <<pc, workerVars, txn>>
     \/ /\ ~shouldWork[i]
        /\ Exit(i)
  /\ UNCHANGED <<chainVars, log, position>>

-----------------------------------------------------------------------------
(* Initialisation.                                                         *)

(* Main.initExporter: ZooKeeper, Kafka, initTransactions. *)
Connect(i) ==
  /\ pc[i] = "connect"
  /\ pc' = [pc EXCEPT ![i] = "initWorker"]
  /\ UNCHANGED <<chainVars, shouldWork, workerVars, txn, log, position, interruptions>>

(* Mutant: init() forgets to subtract CONFIRMATIONS. *)
MutantInitUnconfirmed(i) ==
  /\ pc[i] = "initWorker"
  /\ \E h \in ReportedHead : confirmed' = [confirmed EXCEPT ![i] = h]
  /\ pc' = [pc EXCEPT ![i] = "getLastPosition"]
  /\ UNCHANGED <<chainVars, shouldWork, exported, batch, txn, log, position, interruptions>>

(* worker.init(): the first confirmed height. *)
InitWorker(i) ==
  /\ pc[i] = "initWorker"
  /\ \E h \in ReportedHead : confirmed' = [confirmed EXCEPT ![i] = h - Confirmations]
  /\ pc' = [pc EXCEPT ![i] = "getLastPosition"]
  /\ UNCHANGED <<chainVars, shouldWork, exported, batch, txn, log, position, interruptions>>

(* Mutant: the saved position is not used. *)
MutantAlwaysFromStart(recovered) == StartBlock

(* Mutant: a missing position is not replaced by START_BLOCK. *)
MutantNoDefaultPosition(recovered) == recovered

(* BaseWorker.initPosition *)
initPosition(recovered) == IF recovered = NoPosition THEN StartBlock ELSE recovered

(* Exporter.getLastPosition and worker.initPosition. An error while the     *)
(* data is read or parsed is logged and null is returned.                   *)
GetLastPosition(i) ==
  /\ pc[i] = "getLastPosition"
  /\ \E recovered \in {position} \cup (IF ReadMayFail THEN {NoPosition} ELSE {}) :
       exported' = [exported EXCEPT ![i] = initPosition(recovered)]
  /\ pc' = [pc EXCEPT ![i] = "exists"]
  /\ UNCHANGED <<chainVars, shouldWork, confirmed, batch, txn, log, position, interruptions>>

-----------------------------------------------------------------------------
(* Exporter.savePosition, called at the end of initialisation and of every  *)
(* iteration with the position the worker is at.                            *)

PositionExists(i) ==
  /\ pc[i] = "exists"
  /\ pc' = [pc EXCEPT ![i] = IF position # NoPosition THEN "setData" ELSE "mkdirp"]
  /\ UNCHANGED <<chainVars, shouldWork, workerVars, txn, log, position, interruptions>>

(* setData with version -1: overwrites whatever is there. *)
SetData(i) ==
  /\ pc[i] = "setData"
  /\ position' = exported[i]
  /\ pc' = [pc EXCEPT ![i] = "loop"]
  /\ UNCHANGED <<chainVars, shouldWork, workerVars, txn, log, interruptions>>

(* mkdirp (external) does not touch a node that exists by now. *)
Mkdirp(i) ==
  /\ pc[i] = "mkdirp"
  /\ position' = IF position = NoPosition THEN exported[i] ELSE position
  /\ pc' = [pc EXCEPT ![i] = "loop"]
  /\ UNCHANGED <<chainVars, shouldWork, workerVars, txn, log, interruptions>>

-----------------------------------------------------------------------------
(* Main.workLoop and the worker.                                           *)

(* Mutant: a stop request skips to the end of the process at any point of  *)
(* the loop where a batch may be waiting.                                  *)
MutantLeaveLoopEarly(i) ==
  /\ pc[i] = "loop" \/ (pc[i] = "begin" /\ ~shouldWork[i])
  /\ pc' = [pc EXCEPT ![i] = IF shouldWork[i] THEN "analyze" ELSE "disconnect"]
  /\ UNCHANGED <<chainVars, shouldWork, workerVars, txn, log, position, interruptions>>

(* Mutant: the loop does not look at shouldWork. *)
MutantStopIgnored(i) ==
  /\ pc[i] = "loop"
  /\ pc' = [pc EXCEPT ![i] = "analyze"]
  /\ UNCHANGED <<chainVars, shouldWork, workerVars, txn, log, position, interruptions>>

(* while (this.shouldWork), after the sleep. *)
Iterate(i) ==
  /\ pc[i] = "loop"
  /\ pc' = [pc EXCEPT ![i] = IF shouldWork[i] THEN "analyze" ELSE "disconnect"]
  /\ UNCHANGED <<chainVars, shouldWork, workerVars, txn, log, position, interruptions>>

WorkerContext(lastExportedBlock, lastConfirmedBlock, newConfirmedBlock) ==
  IF Tracking = "interval"
  THEN analyzeWorkerContext(lastExportedBlock, lastConfirmedBlock, newConfirmedBlock)
  ELSE equalityContext(lastExportedBlock, lastConfirmedBlock, newConfirmedBlock)

(* work() up to the interval, when the node reports height h: with nothing  *)
(* to do it returns [], and the loop saves the position again.              *)
AnalyzeAt(i, h) ==
  LET result == WorkerContext(exported[i], confirmed[i], h - Confirmations)
  IN /\ pc[i] = "analyze"
     /\ confirmed' = [confirmed EXCEPT ![i] = result.confirmed]
     /\ pc' = [pc EXCEPT ![i] = IF result.context = NO_WORK_SLEEP THEN "exists" ELSE "fetch"]
     /\ UNCHANGED <<chainVars, shouldWork, exported, batch, txn, log, position, interruptions>>

Analyze(i) == \E h \in ReportedHead : AnalyzeAt(i, h)

Interval(i) == nextIntervalCalculator(exported[i], BlockInterval, confirmed[i])

(* The end of work(). On an empty interval (toBlock < fromBlock):           *)
(*   "assign"  ERC20 and XRP fetch nothing and still set lastExportedBlock  *)
(*             to toBlock (the others do if the node accepts the request);  *)
(*   "count"   UTXO, ICP and ICRC add the number of blocks they fetched,    *)
(*             that is none;                                                *)
(*   "strict"  ETH throws before it gets there (see EmptyIntervalThrows).   *)
(* On every other interval all three arrive at toBlock.                     *)
AdvancePosition(lastExportedBlock, interval) ==
  IF Advance = "count" /\ interval.toBlock < interval.fromBlock
  THEN lastExportedBlock
  ELSE interval.toBlock

(* Mutant: collectEndOfBlocks returns an empty list for an empty interval. *)
MutantNoRangeError(interval) == FALSE

(* ETH: collectEndOfBlocks builds an array of toBlock - fromBlock + 1       *)
(* elements, and a negative length throws.                                  *)
RangeError(interval) ==
  Advance = "strict" /\ interval.toBlock - interval.fromBlock + 1 < 0

(* Mutant: the loop saves the position before the events are stored. *)
MutantSaveBeforeStore(i) ==
  /\ pc[i] = "fetch"
  /\ batch' = [batch EXCEPT ![i] = EventsIn(Interval(i).fromBlock, Interval(i).toBlock)]
  /\ exported' = [exported EXCEPT ![i] = AdvancePosition(exported[i], Interval(i))]
  /\ pc' = [pc EXCEPT ![i] = IF batch'[i] = {} THEN "exists" ELSE "begin"]
  /\ position' = AdvancePosition(exported[i], Interval(i))
  /\ UNCHANGED <<chainVars, shouldWork, confirmed, txn, log, interruptions>>

(* The node answers for the interval, work() returns and the loop goes on   *)
(* to storeEvents, or to savePosition when there are no events.             *)
Fetch(i) ==
  /\ pc[i] = "fetch"
  /\ ~RangeError(Interval(i))
  /\ batch' = [batch EXCEPT ![i] = EventsIn(Interval(i).fromBlock, Interval(i).toBlock)]
  /\ exported' = [exported EXCEPT ![i] = AdvancePosition(exported[i], Interval(i))]
  /\ pc' = [pc EXCEPT ![i] = IF batch'[i] = {} THEN "exists" ELSE "begin"]
  /\ UNCHANGED <<chainVars, shouldWork, confirmed, txn, log, position, interruptions>>

(* The RangeError of ETH ends the process. *)
EmptyIntervalThrows(i) ==
  /\ pc[i] = "fetch"
  /\ RangeError(Interval(i))
  /\ Exit(i)
  /\ UNCHANGED <<chainVars, log, position, interruptions>>

-----------------------------------------------------------------------------
(* Exporter.storeEvents                                                    *)

BeginTransaction(i) ==
  /\ pc[i] = "begin"
  /\ txn' = [txn EXCEPT ![i] = {}]
  /\ pc' = [pc EXCEPT ![i] = "sendData"]
  /\ UNCHANGED <<chainVars, shouldWork, workerVars, log, position, interruptions>>

SendData(i) ==
  /\ pc[i] = "sendData"
  /\ txn' = [txn EXCEPT ![i] = batch[i]]
  /\ pc' = [pc EXCEPT ![i] = "commit"]
  /\ UNCHANGED <<chainVars, shouldWork, workerVars, log, position, interruptions>>

(* Mutant: an error of sendData is logged and the commit follows. *)
MutantSendErrorIgnored(i) ==
  /\ pc[i] = "sendData"
  /\ Interrupt
  /\ \E produced \in SUBSET batch[i] : txn' = [txn EXCEPT ![i] = produced]
  /\ pc' = [pc EXCEPT ![i] = "commit"]
  /\ UNCHANGED <<chainVars, shouldWork, workerVars, log, position>>

(* produce() throws part of the way, or the flush times out. *)
SendDataFails(i) ==
  /\ pc[i] = "sendData"
  /\ Interrupt
  /\ \E produced \in SUBSET batch[i] : txn' = [txn EXCEPT ![i] = produced]
  /\ pc' = [pc EXCEPT ![i] = "abort"]
  /\ UNCHANGED <<chainVars, shouldWork, workerVars, log, position>>

CommitTransaction(i) ==
  /\ pc[i] = "commit"
  /\ log' = Append(log, txn[i])
  /\ txn' = [txn EXCEPT ![i] = {}]
  /\ batch' = [batch EXCEPT ![i] = {}]
  /\ pc' = [pc EXCEPT ![i] = "exists"]
  /\ UNCHANGED <<chainVars, shouldWork, confirmed, exported, position, interruptions>>

(* Mutant: a failed commit is not told from a successful one. *)
MutantCommitErrorIgnored(i) ==
  /\ pc[i] = "commit"
  /\ Interrupt
  /\ txn' = [txn EXCEPT ![i] = {}]
  /\ batch' = [batch EXCEPT ![i] = {}]
  /\ pc' = [pc EXCEPT ![i] = "exists"]
  /\ UNCHANGED <<chainVars, shouldWork, confirmed, exported, log, position>>

(* commitTransaction reports an error, which does not say whether the       *)
(* broker committed.                                                        *)
CommitTransactionFails(i) ==
  /\ pc[i] = "commit"
  /\ Interrupt
  /\ \/ /\ log' = Append(log, txn[i])
        /\ txn' = [txn EXCEPT ![i] = {}]
     \/ UNCHANGED <<log, txn>>
  /\ pc' = [pc EXCEPT ![i] = "abort"]
  /\ UNCHANGED <<chainVars, shouldWork, workerVars, position>>

(* abortTransaction, successful or not, and the rethrown exception. *)
AbortTransaction(i) ==
  /\ pc[i] = "abort"
  /\ Exit(i)
  /\ UNCHANGED <<chainVars, log, position, interruptions>>

(* Main.disconnect: both connections close, or the timeout or an error       *)
(* exits the process.                                                        *)
Disconnect(i) ==
  /\ pc[i] = "disconnect"
  /\ Exit(i)
  /\ UNCHANGED <<chainVars, log, position, interruptions>>

-----------------------------------------------------------------------------
Init ==
  /\ head = InitHead
  /\ fork = [b \in BlockHeight |-> 0]
  /\ pc = [i \in Instance |-> "down"]
  /\ shouldWork = [i \in Instance |-> TRUE]
  /\ confirmed = [i \in Instance |-> -1]
  /\ exported = [i \in Instance |-> -1]
  /\ batch = [i \in Instance |-> {}]
  /\ txn = [i \in Instance |-> {}]
  /\ log = <<>>
  /\ position = NoPosition
  /\ interruptions = 0

(* What a process does by itself once it runs and nothing fails. *)
Step(i) ==
  \/ Connect(i) \/ InitWorker(i) \/ GetLastPosition(i)
  \/ PositionExists(i) \/ SetData(i) \/ Mkdirp(i)
  \/ Iterate(i) \/ Analyze(i) \/ Fetch(i) \/ EmptyIntervalThrows(i)
  \/ BeginTransaction(i) \/ SendData(i) \/ CommitTransaction(i)
  \/ AbortTransaction(i) \/ Disconnect(i)

Disturb(i) ==
  Crash(i) \/ Stop(i) \/ SendDataFails(i) \/ CommitTransactionFails(i)

Chain == GrowChain \/ \E depth \in 1..MaxReorg : Reorganise(depth)

Next == Chain \/ \E i \in Instance : Start(i) \/ Step(i) \/ Disturb(i)

Spec == Init /\ [][Next]_vars

(* The supervisor restarts an exited process, awaits are answered or time    *)
(* out, and node, Kafka and ZooKeeper answer once the interruptions are      *)
(* over. Nothing makes the chain grow or a failure happen.                   *)
Fairness == \A i \in Instance : WF_vars(Start(i)) /\ WF_vars(Step(i))

FairSpec == Spec /\ Fairness

(* With a lagging node: a process that keeps asking is answered by an        *)
(* up-to-date replica again and again.                                       *)
FairLagSpec == FairSpec /\ \A i \in Instance : SF_vars(AnalyzeAt(i, head))

-----------------------------------------------------------------------------
(* Properties.                                                             *)

PC == {"down", "connect", "initWorker", "getLastPosition", "exists", "setData",
       "mkdirp", "loop", "analyze", "fetch", "begin", "sendData", "commit",
       "abort", "disconnect"}

(* Every variable holds a value of the kind its code counterpart holds.    *)
TypeOK ==
  /\ head \in BlockHeight
  /\ fork \in [BlockHeight -> 0..MaxVersion]
  /\ pc \in [Instance -> PC]
  /\ shouldWork \in [Instance -> BOOLEAN]
  /\ confirmed \in [Instance -> Int]
  /\ exported \in [Instance -> Int]
  /\ batch \in [Instance -> SUBSET Event]
  /\ txn \in [Instance -> SUBSET Event]
  /\ log \in Seq(SUBSET Event)
  /\ position \in Int \cup {NoPosition}
  /\ interruptions \in 0..MaxInterruptions

(* Block b is in one of the first n committed transactions. *)
DeliveredBy(n, b) == \E k \in 1..n : \E e \in log[k] : e.block = b

Delivered(b) == DeliveredBy(Len(log), b)

Topic == {b \in EventBlocks : Delivered(b)}

(* All event blocks from StartBlock to p have been committed to Kafka. *)
CoveredUpTo(p) == \A b \in EventBlocks : StartBlock < b /\ b <= p => Delivered(b)

(* No loss: the position in ZooKeeper never claims a block whose events    *)
(* are not committed in Kafka, whatever process saved it, whatever failed  *)
(* in storeEvents or was killed, and however many processes overlap        *)
(* (main.ts workLoop: storeEvents before savePosition).                    *)
SavedPositionCovered == position # NoPosition => CoveredUpTo(position)

(* Readers never see a hole: when the events of a block are committed, the *)
(* events of all earlier blocks have been committed before or with them    *)
(* (intervals are contiguous and a failed batch ends the process).         *)
CommittedWithoutGaps ==
  \A k \in 1..Len(log) : \A e \in log[k] : \A b \in EventBlocks :
    StartBlock < b /\ b < e.block => DeliveredBy(k, b)

(* A batch is visible whole or not at all: whenever a transaction becomes  *)
(* visible, however the commit was acknowledged, it holds every event that *)
(* work() returned (storeEvents aborts when sendData fails part way).      *)
WholeBatches ==
  [][log' # log =>
       /\ Len(log') = Len(log) + 1
       /\ \E i \in Instance : pc[i] = "commit" /\ log'[Len(log')] = batch[i]]_vars

(* What was exported stays true: an event that readers have is of the      *)
(* block the chain has at that height, although the exporter works from a  *)
(* cached lastConfirmedBlock and the chain reorganises up to CONFIRMATIONS *)
(* blocks between its requests.                                            *)
ExportedIsFinal ==
  \A k \in 1..Len(log) : \A e \in log[k] :
    e.block <= head - Confirmations /\ fork[e.block] = e.version

(* What one process knows: past getLastPosition every block up to          *)
(* lastExportedBlock is delivered, except for the batch it is about to     *)
(* store; a transaction holds the whole batch when it is committed; and    *)
(* everything taken from the node is of confirmed blocks.                  *)
ProcessInv(i) ==
  /\ pc[i] \in {"exists", "setData", "mkdirp", "loop", "analyze", "fetch", "disconnect"}
       => CoveredUpTo(exported[i])
  /\ pc[i] \in {"begin", "sendData", "commit"}
       => \A b \in EventBlocks : StartBlock < b /\ b <= exported[i] =>
            Delivered(b) \/ \E e \in batch[i] : e.block = b
  /\ pc[i] \notin {"begin", "sendData", "commit", "abort"} => batch[i] = {}
  /\ pc[i] = "commit" => txn[i] = batch[i]
  /\ pc[i] \notin {"down", "connect", "initWorker"}
       => confirmed[i] <= head - Confirmations
  /\ \A e \in batch[i] :
       /\ e.block <= exported[i]
       /\ e.block <= head - Confirmations
       /\ fork[e.block] = e.version

(* The inductive invariant behind SavedPositionCovered,                    *)
(* CommittedWithoutGaps and ExportedIsFinal: none of them is inductive     *)
(* without what the running processes know.                                *)
IInv ==
  /\ SavedPositionCovered
  /\ CommittedWithoutGaps
  /\ ExportedIsFinal
  /\ \A i \in Instance : ProcessInv(i)

(* Block deliveries: one pair for each block in each committed transaction. *)
Deliveries == UNION {{<<k, e.block>> : e \in log[k]} : k \in 1..Len(log)}

(* Duplicates are paid for: what readers receive more than once is at most *)
(* one batch for every interruption, the batch that was committed and      *)
(* whose position was not saved yet (one process at a time).               *)
DuplicatesBounded ==
  Cardinality(Deliveries) - Cardinality(Topic) <= BlockInterval * interruptions

(* A stop request loses nothing: the process that leaves the work loop     *)
(* after Main.stop() has stored every event it took from the node, and the *)
(* znode holds its position (one process at a time).                       *)
GracefulStopIsClean ==
  \A i \in Instance : pc[i] = "disconnect" =>
    batch[i] = {} /\ txn[i] = {} /\ position = exported[i] /\ CoveredUpTo(exported[i])

(* A commit that becomes visible holds only blocks above the position. *)
CommitsAbovePosition ==
  \A i \in Instance :
    pc[i] = "commit" /\ Len(log') > Len(log) =>
      \A e \in log'[Len(log')] : position = NoPosition \/ e.block > position

(* Nothing at or below the saved position is exported again: what a crash  *)
(* can duplicate is only the batch whose position was not saved yet.       *)
NothingSavedIsResent == [][CommitsAbovePosition]_vars

(* The position in ZooKeeper never goes backwards (nor does the interval   *)
(* that is fetched from it), also when the node lags behind.               *)
PositionNeverBackwards ==
  [][position # NoPosition => position' # NoPosition /\ position' >= position]_vars

(* A process that starts continues from the saved position. *)
ResumesWhereInterrupted ==
  [][\A i \in Instance :
       pc[i] = "getLastPosition" /\ pc'[i] = "exists" /\ position # NoPosition =>
         exported'[i] = position]_vars

(* Every event block that the chain has confirmed is eventually delivered, *)
(* and the position moves past every block that can be confirmed, once     *)
(* interruptions stop.                                                     *)
ConfirmedIsEventuallyExported ==
  \A b \in BlockHeight :
    (StartBlock < b /\ b <= head - Confirmations) ~>
       (/\ position # NoPosition /\ position >= b
        /\ b \in EventBlocks => Delivered(b))

(* A restarted exporter continues from the saved position: when there is a *)
(* confirmed block after it, that block is eventually exported, whatever    *)
(* height a lagging replica reported first.                                 *)
ContinuesAfterRestart ==
  \A i \in Instance, b \in BlockHeight :
    (pc[i] = "getLastPosition" /\ position = b - 1 /\ b <= head - Confirmations) ~>
       (position # NoPosition /\ position >= b)

(* Main.stop() ends the process: from every await of the loop or of the    *)
(* initialisation it reaches its exit.                                     *)
StopTerminates == \A i \in Instance : ~shouldWork[i] ~> pc[i] = "down"

(* The readers' view: the exporter implements the ExportStream promise.    *)
Stream == INSTANCE ExportStream WITH topic <- Topic, saved <- position

ImplementsStream == Stream!Spec

=============================================================================
