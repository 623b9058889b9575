---------------------------- MODULE BlockWorkers -----------------------------
(***************************************************************************)
(* The workers that ask for blocks one by one and in parallel: ICP, ICRC,   *)
(* XRP and UTXO (src/src/blockchains/{icp,icrc,xrp,utxo}). work() starts    *)
(* one request for each block of the interval; every request retries on     *)
(* its own, answers arrive in any order, and the first request that gives   *)
(* up ends the process (Promise.all rejects, main.ts exits).                *)
(*                                                                         *)
(* One worker runs in a behaviour; the constants give its settings. A       *)
(* refused request, an XRP answer without the ledger's transactions and an  *)
(* error event of an XRP connection each use up one of MaxFailures. The     *)
(* loop of main.ts is kept as work, store (one atomic transaction, see      *)
(* Exporter) and save.                                                      *)
(***************************************************************************)
EXTENDS InternetComputer, IntervalCalculator

CONSTANTS
  Workers,             \* a subset of {"icp", "icrc", "xrp", "utxo"}
  Batch,               \* MAX_CONCURRENT_REQUESTS, SEND_BATCH_SIZE
  Confirmations,       \* CONFIRMATIONS
  Attempts,            \* tries of one request: retries + 1, MAX_RETRIES, XRP_ENDPOINT_RETRIES
  TransactionsLimit,   \* what ICRC accepts in one batch (100)
  BlockLimit,          \* what ICRC accepts in one block (3)
  MaxTip,              \* bound on the chain
  MaxLag,              \* how far behind the tip a replica may answer (chains are longer)
  MaxFailures,         \* bound
  MaxCrashes           \* bound

ASSUME BlockWorkersAssumption ==
  /\ Workers \subseteq {"icp", "icrc", "xrp", "utxo"}
  /\ Batch \in Nat \ {0} /\ Confirmations \in Nat /\ Attempts \in Nat \ {0}
  /\ TransactionsLimit \in Nat /\ BlockLimit \in Nat /\ MaxTip \in Nat
  /\ MaxLag \in Nat /\ MaxFailures \in Nat /\ MaxCrashes \in Nat

VARIABLES
  worker,              \* which of the four runs
  tip, chain,          \* node: height, and what each block holds
  pc,                  \* "init", "work", "fetch", "store" or "save"
  lastConfirmedBlock, lastExportedBlock, lastPrimaryKey,
  requests,            \* the requests of work(), by block
  connectionError,     \* XRP: an error event was recorded
  events,              \* what work() returned
  topic,               \* Kafka: the committed events
  saved,               \* ZooKeeper: the position
  failures, crashes

nodeVars   == <<worker, tip, chain>>
workerVars == <<lastConfirmedBlock, lastExportedBlock, lastPrimaryKey, requests,
                connectionError, events>>
vars       == <<nodeVars, workerVars, pc, topic, saved, failures, crashes>>

-----------------------------------------------------------------------------
(* The nodes (external).                                                   *)

(* The blocks that can come to be confirmed. *)
Block == 1..(MaxTip - Confirmations)

Op(type, account, value, index) ==
  [type |-> type, account |-> account, value |-> value, index |-> index, spender |-> "c"]

(* Blocks of a ledger: a transfer with its fee, a refund listed credit       *)
(* first, a mint, an approval with its fee, no transaction at all.          *)
IcpBlocks ==
  {<< <<Op("TRANSACTION", "a", -3, 0), Op("TRANSACTION", "b", 3, 1), Op("FEE", "a", -1, 2)>> >>,
   << <<Op("TRANSACTION", "a", 2, 0), Op("TRANSACTION", "b", -2, 1), Op("FEE", "b", -1, 2)>>,
      <<Op("MINT", "a", 4, 0)>> >>,
   << <<Op("APPROVE", "b", 5, 0), Op("FEE", "b", -1, 1)>> >>,
   << >>}

(* The ICRC ledger also burns, has a fee collector, names spenders and      *)
(* lists transfers of nothing.                                              *)
IcrcBlocks ==
  {<< <<Op("TRANSFER", "a", -3, 0), Op("TRANSFER", "b", 3, 1),
        Op("FEE", "a", -1, 2), Op("FEE_COLLECTOR", "c", 1, 3)>> >>,
   << <<Op("SPENDER", "c", 0, 0), Op("TRANSFER", "b", 0, 1), Op("TRANSFER", "a", 0, 2),
        Op("FEE", "b", -1, 3)>> >>,
   << <<Op("BURN", "b", -2, 0)>>, <<Op("MINT", "a", 4, 0)>> >>}

(* Of an XRP ledger or a UTXO block only whether it has transactions. *)
Contents ==
  CASE worker = "icp"  -> IcpBlocks
    [] worker = "icrc" -> IcrcBlocks
    [] OTHER           -> {"empty", "transactions"}

ReportedTip == {h \in 0..MaxTip : tip - MaxLag <= h /\ h <= tip}

Fail ==
  /\ failures < MaxFailures
  /\ failures' = failures + 1

-----------------------------------------------------------------------------
(* A new process: the constructor's values, then the saved position. *)
Fresh ==
  /\ pc' = "init"
  /\ lastConfirmedBlock' = -1
  /\ lastExportedBlock' = saved.block
  /\ lastPrimaryKey' = saved.key
  /\ requests' = <<>>
  /\ connectionError' = FALSE
  /\ events' = <<>>

(* An exception ends the process. *)
Throw ==
  /\ Fresh
  /\ UNCHANGED <<nodeVars, topic, saved, failures, crashes>>

(* Mutant: a recorded error is only logged. *)
MutantErrorIgnored == FALSE

(* throwConnectionErrorIfAny; only the XRP worker records errors. *)
ConnectionBroken == connectionError

(* An error event can come at any time, while nothing is asked for too. *)
recordConnectionError ==
  /\ worker = "xrp" /\ pc # "init" /\ ~connectionError
  /\ Fail
  /\ connectionError' = TRUE
  /\ UNCHANGED <<nodeVars, lastConfirmedBlock, lastExportedBlock, lastPrimaryKey, requests,
                 events, pc, topic, saved, crashes>>

(* The heights that getBlockNumber, the validated ledger or getblockchaininfo *)
(* may give, less the confirmations.                                         *)
ReportedHeights == {h - Confirmations : h \in ReportedTip}

InitWorker ==
  /\ pc = "init"
  /\ lastConfirmedBlock' \in ReportedHeights
  /\ pc' = "work"
  /\ UNCHANGED <<nodeVars, lastExportedBlock, lastPrimaryKey, requests, connectionError,
                 events, topic, saved, failures, crashes>>

-----------------------------------------------------------------------------
(* work(), up to Promise.all                                               *)

Context(newConfirmedBlock) ==
  IF worker = "utxo"
  THEN analyzeWorkerContext(lastExportedBlock, lastConfirmedBlock, newConfirmedBlock)
  ELSE equalityContext(lastExportedBlock, lastConfirmedBlock, newConfirmedBlock)

AsksForHeight ==
  IF worker = "utxo" THEN NeedsNode(lastExportedBlock, lastConfirmedBlock)
  ELSE lastConfirmedBlock = lastExportedBlock

(* The request for the height gives up; the XRP worker does not repeat it. *)
HeightRefused ==
  /\ pc = "init" \/ (pc = "work" /\ ~ConnectionBroken /\ AsksForHeight)
  /\ Fail
  /\ Fresh
  /\ UNCHANGED <<nodeVars, topic, saved, crashes>>

WorkThrows == pc = "work" /\ ConnectionBroken /\ Throw

WorkIdle ==
  /\ pc = "work" /\ ~ConnectionBroken
  /\ \E h \in ReportedHeights : Context(h).context = NO_WORK_SLEEP
  /\ events' = <<>>
  /\ pc' = "save"
  /\ UNCHANGED <<nodeVars, lastConfirmedBlock, lastExportedBlock, lastPrimaryKey, requests,
                 connectionError, topic, saved, failures, crashes>>

(* Mutant: the batch is cut at its size alone. *)
MutantToBlock(confirmed) == Minimum(Batch, confirmed)

(* The last block that is asked for; below lastExportedBlock when the       *)
(* height is behind the position, and the interval is then empty.           *)
ToBlock(confirmed) == nextIntervalCalculator(lastExportedBlock, Batch, confirmed).toBlock

(* A UTXO block is asked for by its hash, which is asked for first. *)
FirstStage == IF worker = "utxo" THEN "getblockhash" ELSE "block"

StartRequests ==
  /\ pc = "work" /\ ~ConnectionBroken
  /\ \E h \in ReportedHeights :
       LET analysis == Context(h)
       IN /\ analysis.context # NO_WORK_SLEEP
          /\ lastConfirmedBlock' = analysis.confirmed
          /\ requests' = [b \in (lastExportedBlock + 1)..ToBlock(analysis.confirmed) |->
                            [stage |-> FirstStage, failed |-> 0, answer |-> "none"]]
  /\ pc' = "fetch"
  /\ UNCHANGED <<nodeVars, lastExportedBlock, lastPrimaryKey, connectionError, events, topic,
                 saved, failures, crashes>>

-----------------------------------------------------------------------------
(* The requests                                                            *)

Pending == {b \in DOMAIN requests : requests[b].stage # "done"}

fetchUnchanged ==
  UNCHANGED <<nodeVars, lastConfirmedBlock, lastExportedBlock, lastPrimaryKey, connectionError,
              events, pc, topic, saved, crashes>>

(* The node answers; the XRP worker looks for an error of the connection     *)
(* before and after.                                                        *)
Answer(b) ==
  /\ pc = "fetch" /\ b \in Pending /\ ~ConnectionBroken
  /\ requests' = [requests EXCEPT ![b] =
       IF @.stage = "getblockhash" THEN [@ EXCEPT !.stage = "block", !.failed = 0]
       ELSE [@ EXCEPT !.stage = "done", !.answer = chain[b]]]
  /\ UNCHANGED failures
  /\ fetchUnchanged

AnswerOverBrokenConnection == pc = "fetch" /\ Pending # {} /\ ConnectionBroken /\ Throw

(* A refused request is repeated, except by XRP. *)
Retry(b) ==
  /\ pc = "fetch" /\ b \in Pending /\ worker # "xrp"
  /\ requests[b].failed + 1 < Attempts
  /\ Fail
  /\ requests' = [requests EXCEPT ![b].failed = @ + 1]
  /\ fetchUnchanged

(* Mutant: an answer without transactions is believed. *)
MutantEmptyLedgerAccepted(b) ==
  /\ pc = "fetch" /\ b \in Pending /\ worker = "xrp" /\ ~ConnectionBroken
  /\ chain[b] = "transactions"
  /\ Fail
  /\ requests' = [requests EXCEPT ![b].stage = "done", ![b].answer = "empty"]
  /\ fetchUnchanged

(* An XRP answer without transactions, although the ledger's hash of them    *)
(* is not zero, is asked for again.                                         *)
EmptyLedger(b) ==
  /\ pc = "fetch" /\ b \in Pending /\ worker = "xrp" /\ ~ConnectionBroken
  /\ chain[b] = "transactions"
  /\ requests[b].failed + 1 < Attempts
  /\ Fail
  /\ requests' = [requests EXCEPT ![b].failed = @ + 1]
  /\ fetchUnchanged

(* An XRP ledger comes with a transaction that is not validated, or that has *)
(* no meta field.                                                            *)
UnvalidatedLedger(b) ==
  /\ pc = "fetch" /\ b \in Pending /\ worker = "xrp" /\ ~ConnectionBroken
  /\ chain[b] = "transactions"
  /\ Fail
  /\ requests' = [requests EXCEPT ![b].stage = "done", ![b].answer = "unvalidated"]
  /\ fetchUnchanged

(* The last try fails, an XRP request is refused, or an XRP ledger is not    *)
(* closed.                                                                   *)
GiveUp(b) ==
  /\ pc = "fetch" /\ b \in Pending
  /\ worker = "xrp" \/ requests[b].failed + 1 = Attempts
  /\ Fail
  /\ Fresh
  /\ UNCHANGED <<nodeVars, topic, saved, crashes>>

-----------------------------------------------------------------------------
(* work(), after Promise.all                                               *)

(* getTransactions of a single block *)
IcpTransfers ==
  [content \in IcpBlocks |->
     FlattenSeq([i \in 1..Len(content) |-> parseICPBlockTransaction(content[i])])]

IcrcTransfers ==
  [content \in IcrcBlocks |->
     FlattenSeq([i \in 1..Len(content) |-> parseICRCTransaction(content[i])])]

TransfersOf(content) == IF worker = "icp" THEN IcpTransfers[content] ELSE IcrcTransfers[content]

validateXRPTransaction(content) == content # "unvalidated"

(* The asserts of getTransactions, checkAllTransactionsValid. *)
Parses(content) ==
  CASE worker = "icp"  -> \A i \in DOMAIN content : IcpParses(content[i])
    [] worker = "icrc" -> /\ \A i \in DOMAIN content : IcrcParses(content[i])
                          /\ Len(TransfersOf(content)) <= BlockLimit
    [] OTHER           -> validateXRPTransaction(content)

BlockEvents(b) ==
  LET transfers == TransfersOf(requests[b].answer)
  IN [i \in 1..Len(transfers) |-> [block |-> b, index |-> i, transfer |-> transfers[i]]]

(* An XRP ledger or a UTXO block is exported as one event. *)
LedgerEvent(b) == [block |-> b, index |-> 1, transfer |-> requests[b].answer]

(* The transfers in the order of the blocks. The comparator of stableSort is *)
(* undefined for two transfers of one block, which have no position yet, and *)
(* leaves them as they are.                                                  *)
Transactions ==
  IF worker \in {"icp", "icrc"}
  THEN FlattenSeq([i \in 1..Cardinality(DOMAIN requests) |-> BlockEvents(lastExportedBlock + i)])
  ELSE [i \in 1..Cardinality(DOMAIN requests) |-> LedgerEvent(lastExportedBlock + i)]

(* Mutant: every batch counts from the start. *)
MutantKeys(i) == i

(* ICP counts on. *)
IcpKey(i) == lastPrimaryKey + i

(* ICRC adds the place in the batch to the block. *)
IcrcKey(block, i) == block + i

(* An XRP ledger and a UTXO block are told apart by their number. *)
extendTransactionsWithPrimaryKey(transactions) ==
  [i \in 1..Len(transactions) |->
     [block |-> transactions[i].block, index |-> transactions[i].index,
      transfer |-> transactions[i].transfer,
      primaryKey |-> CASE worker = "icp"  -> IcpKey(i)
                       [] worker = "icrc" -> IcrcKey(transactions[i].block, i)
                       [] OTHER           -> transactions[i].block]]

BatchAccepted ==
  /\ \A b \in DOMAIN requests : Parses(requests[b].answer)
  /\ worker = "icrc" => Len(Transactions) <= TransactionsLimit

(* Mutant: every worker takes the end of the interval. *)
MutantPositionOfInterval == ToBlock(lastConfirmedBlock)

(* ICP, ICRC and UTXO count the blocks they got; XRP takes the end of the    *)
(* interval, which may be behind.                                            *)
NewPosition ==
  IF worker = "xrp" THEN ToBlock(lastConfirmedBlock)
  ELSE lastExportedBlock + Cardinality(DOMAIN requests)

NewPrimaryKey ==
  CASE worker \in {"icp", "icrc"} -> lastPrimaryKey + Len(Transactions)
    [] worker = "xrp" /\ DOMAIN requests # {} -> NewPosition
    [] OTHER -> lastPrimaryKey

FinishWork ==
  /\ pc = "fetch" /\ Pending = {} /\ ~ConnectionBroken /\ BatchAccepted
  /\ events' = extendTransactionsWithPrimaryKey(Transactions)
  /\ lastExportedBlock' = NewPosition
  /\ lastPrimaryKey' = NewPrimaryKey
  /\ requests' = <<>>
  /\ pc' = IF events' = <<>> THEN "save" ELSE "store"
  /\ UNCHANGED <<nodeVars, lastConfirmedBlock, connectionError, topic, saved, failures, crashes>>

BatchThrows == pc = "fetch" /\ Pending = {} /\ (ConnectionBroken \/ ~BatchAccepted) /\ Throw

-----------------------------------------------------------------------------
Store ==
  /\ pc = "store"
  /\ topic' = topic \cup {events[i] : i \in DOMAIN events}
  /\ pc' = "save"
  /\ UNCHANGED <<nodeVars, workerVars, saved, failures, crashes>>

Save ==
  /\ pc = "save"
  /\ saved' = [block |-> lastExportedBlock, key |-> lastPrimaryKey]
  /\ pc' = "work"
  /\ UNCHANGED <<nodeVars, workerVars, topic, failures, crashes>>

Crash ==
  /\ crashes < MaxCrashes
  /\ crashes' = crashes + 1
  /\ Fresh
  /\ UNCHANGED <<nodeVars, topic, saved, failures>>

GrowChain ==
  /\ tip < MaxTip
  /\ tip' = tip + 1
  /\ UNCHANGED <<worker, chain, workerVars, pc, topic, saved, failures, crashes>>

Init ==
  /\ worker \in Workers
  /\ tip = Confirmations + MaxLag
  /\ chain \in [Block -> Contents]
  /\ pc = "init"
  /\ lastConfirmedBlock = -1
  /\ lastExportedBlock = 0
  /\ lastPrimaryKey = 0
  /\ requests = <<>>
  /\ connectionError = FALSE
  /\ events = <<>>
  /\ topic = {}
  /\ saved = [block |-> 0, key |-> 0]
  /\ failures = 0
  /\ crashes = 0

Step ==
  \/ InitWorker \/ WorkThrows \/ WorkIdle \/ StartRequests
  \/ \E b \in Pending : Answer(b)
  \/ AnswerOverBrokenConnection \/ FinishWork \/ BatchThrows \/ Store \/ Save

Fault ==
  \/ Crash \/ HeightRefused \/ recordConnectionError
  \/ \E b \in Pending : Retry(b) \/ EmptyLedger(b) \/ UnvalidatedLedger(b) \/ GiveUp(b)

Next == Step \/ Fault \/ GrowChain

Spec == Init /\ [][Next]_vars

(* The process goes on and the chain grows; a replica that is asked again    *)
(* and again reports the tip in the end.                                     *)
FairSpec ==
  /\ Spec
  /\ WF_vars(Step)
  /\ WF_vars(GrowChain)
  /\ SF_vars(StartRequests /\ lastConfirmedBlock' = tip - Confirmations)

-----------------------------------------------------------------------------
(* Properties.                                                             *)

(* What the operations of a block move, by account. *)
Moved ==
  [content \in IcpBlocks \cup IcrcBlocks |-> [account \in {"a", "b", "c"} |->
     LET ops == FlattenSeq(content)
     IN SumFunctionOnSet([k \in DOMAIN ops |-> ops[k].value],
                         {k \in DOMAIN ops : ops[k].account = account
                                             /\ ops[k].type \notin {"APPROVE", "SPENDER"}})]]

LedgerBalance(account) == SumFunction([b \in 1..saved.block |-> Moved[chain[b]][account]])

ExportedBalance(account) ==
  LET transfers == {[block |-> e.block, index |-> e.index, transfer |-> e.transfer] :
                      e \in {f \in topic : f.block <= saved.block /\ f.transfer.type # "APPROVE"}}
      value == [e \in transfers |-> e.transfer.value]
      In  == {e \in transfers : e.transfer.to = account}
      Out == {e \in transfers : e.transfer.from = account}
  IN SumFunctionOnSet(value, In) - SumFunctionOnSet(value, Out)

(* The transfers that the ICP and ICRC workers made of the operations move   *)
(* what the ledger moved: for every account they add up to its operations,   *)
(* over all blocks that the saved position claims, whatever was retried,     *)
(* thrown away with a process, or exported twice.                            *)
BalancesAgree ==
  worker \in {"icp", "icrc"} =>
    \A account \in {"a", "b", "c"} : ExportedBalance(account) = LedgerBalance(account)

(* The XRP and UTXO workers export every block that the saved position       *)
(* claims, and each with its own transactions: an answer that came without   *)
(* them is never exported.                                                   *)
LedgersAgree ==
  worker \in {"xrp", "utxo"} =>
    /\ \A e \in topic : e.transfer = chain[e.block]
    /\ 1..saved.block \subseteq {e.block : e \in topic}

(* A transfer keeps its key when it is exported again, in a batch that may    *)
(* be cut elsewhere, and two transfers never share a key. Not so for ICRC,   *)
(* whose keys count from the start of the batch: they only grow within it.   *)
KeysIdentify ==
  /\ worker # "icrc" =>
       \A e, f \in topic :
         (e.primaryKey = f.primaryKey) <=> (e.block = f.block /\ e.index = f.index)
  /\ \A i, j \in DOMAIN events : i < j => events[i].primaryKey < events[j].primaryKey

StaysWithinLag == saved'.block >= saved.block - (IF worker = "xrp" THEN MaxLag ELSE 0)

(* A replica that lags takes only the XRP position back, and by no more than  *)
(* the lag.                                                                  *)
RewindsOnlyByLag == [][StaysWithinLag]_vars

(* An error event of an XRP connection ends the process, which then opens     *)
(* new connections, wherever in work() or between two calls it comes.        *)
ConnectionErrorSurfaces == connectionError ~> ~connectionError

(* ICP and ICRC look for no new height once the confirmed block is behind    *)
(* the position, and ICRC cannot get past a batch that is over its limit.    *)
Stuck ==
  \/ worker \in {"icp", "icrc"} /\ pc # "init" /\ lastConfirmedBlock < lastExportedBlock
  \/ /\ worker = "icrc"
     /\ MapThenSumSet(LAMBDA b : Len(TransfersOf(chain[b])),
                      Block \cap ((saved.block + 1)..(saved.block + Batch))) > TransactionsLimit

(* Every confirmed block is exported although requests fail and replicas lag, *)
(* unless the worker is stuck in one of the two ways above.                  *)
EventuallyExported ==
  \A b \in Block : (b <= tip - Confirmations) ~> (saved.block >= b \/ Stuck)

=============================================================================
