------------------------------ MODULE Cardano -------------------------------
(***************************************************************************)
(* The Cardano worker (src/src/blockchains/cardano). The GraphQL API       *)
(* answers a query for an interval with the first transactions of it: the  *)
(* answer may stop anywhere, so the last block of an answer may be         *)
(* partial and later blocks may be missing; other blocks may lack a        *)
(* transaction too. The worker exports whole blocks only and numbers the   *)
(* transactions with consecutive primary keys, which it resumes from the   *)
(* saved position after a restart. A block whose transactions are all      *)
(* missing before the answer's end cannot be told from an empty one; the   *)
(* model, like the worker, takes the API not to do that, and to list the   *)
(* transactions of a block always in the same order.                       *)
(*                                                                         *)
(* Main.workLoop is kept as its three steps: work, store (one atomic       *)
(* transaction, see Exporter), save. Retried requests (p-retry) and the    *)
(* pages of the genesis query are part of the answer.                      *)
(***************************************************************************)
EXTENDS Integers, FiniteSets

CONSTANTS
  BlockInterval,   \* BLOCK_INTERVAL
  Confirmations,   \* CONFIRMATIONS
  GenesisCount,    \* transactions of the genesis block
  StartKey,        \* START_PRIMARY_KEY
  InitTip, MaxTip, \* the chain's height at the beginning; bound on it
  MaxLag,          \* how far behind the tip the API may answer
  MaxTxPerBlock,   \* bound
  MaxCrashes       \* bound

ASSUME CardanoAssumption ==
  /\ BlockInterval \in Nat \ {0} /\ Confirmations \in Nat
  /\ GenesisCount \in Nat \ {0} /\ StartKey \in Int
  /\ InitTip \in Nat /\ MaxTip \in Nat /\ InitTip <= MaxTip
  /\ MaxLag \in Nat /\ MaxTxPerBlock \in Nat /\ MaxCrashes \in Nat

VARIABLES
  tip,                 \* node: height of the chain
  transactionsCount,   \* node: transactions in each block
  pc,                  \* "init", "work", "store" or "save"
  lastConfirmedBlock, lastExportedBlock, lastPrimaryKey,
  events,              \* what work() returned
  topic,               \* Kafka: committed transactions with their keys
  saved,               \* ZooKeeper: the position
  crashes

nodeVars   == <<tip, transactionsCount>>
workerVars == <<lastConfirmedBlock, lastExportedBlock, lastPrimaryKey, events>>
vars       == <<nodeVars, workerVars, pc, topic, saved, crashes>>

-----------------------------------------------------------------------------
(* The API (external).                                                     *)

Block == 0..MaxTip

Transactions(blocks) ==
  UNION {{[block |-> b, index |-> k] : k \in 1..transactionsCount[b]} : b \in blocks}

(* The order of the answers. *)
Before(s, t) == s.block < t.block \/ (s.block = t.block /\ s.index < t.index)

(* An answer for some blocks: everything up to one of their transactions,   *)
(* or all of that but one transaction of a block with others in the answer. *)
Answers(blocks) ==
  LET all      == Transactions(blocks)
      prefixes == {{t \in all : ~Before(last, t)} : last \in all}
  IN IF all = {} THEN {{}}
     ELSE prefixes \cup
          UNION {{prefix \ {t} : t \in {u \in prefix :
                   \E s \in prefix \ {u} : s.block = u.block}} : prefix \in prefixes}

ReportedTip == {h \in Block : tip - MaxLag <= h /\ h <= tip}

-----------------------------------------------------------------------------
(* util.js                                                                 *)

BlocksOf(transactions) == {t.block : t \in transactions}

Seen(transactions, b) == Cardinality({t \in transactions : t.block = b})

LastBlock(transactions) ==
  CHOOSE b \in BlocksOf(transactions) : \A c \in BlocksOf(transactions) : c <= b

(* The last block goes if it is partial; the caller has checked that it is  *)
(* not the only one.                                                        *)
discardNotCompletedBlock(transactions) ==
  LET last == LastBlock(transactions)
  IN IF Seen(transactions, last) = transactionsCount[last]
     THEN transactions
     ELSE {t \in transactions : t.block # last}

SingleBlockIsPartial(transactions) ==
  LET last == LastBlock(transactions)
  IN BlocksOf(transactions) = {last} /\ Seen(transactions, last) # transactionsCount[last]

(* Mutant: blocks are not verified. *)
MutantAllComplete(transactions) == TRUE

verifyAllBlocksComplete(transactions) ==
  \A b \in BlocksOf(transactions) : Seen(transactions, b) = transactionsCount[b]

-----------------------------------------------------------------------------
(* work()                                                                  *)

(* Mutant: the tip itself counts as confirmed. *)
MutantTipIsConfirmed(h) == h

(* setLastConfirmedBlock *)
ConfirmedAt(h) == h - Confirmations

FromBlock == lastExportedBlock + 1

(* Current mode: the height is asked for again. *)
CaughtUp == FromBlock >= lastConfirmedBlock - 2

(* The height work() goes on with; it gives up when the node has not       *)
(* progressed enough.                                                      *)
Confirmed == IF CaughtUp THEN {ConfirmedAt(h) : h \in ReportedTip} ELSE {lastConfirmedBlock}

WorkIdle ==
  /\ pc = "work"
  /\ CaughtUp
  /\ \E confirmed \in Confirmed :
       /\ confirmed < FromBlock + 2
       /\ lastConfirmedBlock' = confirmed
  /\ events' = {}
  /\ pc' = "save"
  /\ UNCHANGED <<nodeVars, lastExportedBlock, lastPrimaryKey, topic, saved, crashes>>

(* The blocks that are asked for: genesis alone, or the next interval. *)
Asked(confirmed) ==
  IF lastExportedBlock < 0 THEN {0}
  ELSE {b \in Block : FromBlock <= b /\ b <= confirmed /\ b <= FromBlock + BlockInterval - 1}

(* Genesis is read page by page to the end. *)
Answered(confirmed) ==
  IF lastExportedBlock < 0 THEN {Transactions({0})} ELSE Answers(Asked(confirmed))

(* Mutant: the same interval is asked for again. *)
MutantNoSkip(confirmed) ==
  /\ lastConfirmedBlock' = confirmed
  /\ events' = {}
  /\ pc' = "save"
  /\ UNCHANGED <<nodeVars, lastExportedBlock, lastPrimaryKey, topic, saved, crashes>>

(* No transactions: the interval moves by one block. *)
SkipBlock(confirmed) ==
  /\ lastConfirmedBlock' = confirmed
  /\ lastExportedBlock' = FromBlock
  /\ events' = {}
  /\ pc' = "save"
  /\ UNCHANGED <<nodeVars, lastPrimaryKey, topic, saved, crashes>>

Rank(transactions, t) == Cardinality({s \in transactions : ~Before(t, s)})

(* Mutant: the keys of the discarded transactions are skipped. *)
MutantKeysOfAnswer(confirmed, answer) ==
  LET transactions == discardNotCompletedBlock(answer)
  IN /\ lastConfirmedBlock' = confirmed
     /\ events' = {[transaction |-> t, primaryKey |-> lastPrimaryKey + Rank(transactions, t)] :
                     t \in transactions}
     /\ lastExportedBlock' = LastBlock(transactions)
     /\ lastPrimaryKey' = lastPrimaryKey + Cardinality(answer)
     /\ pc' = "store"
     /\ UNCHANGED <<nodeVars, topic, saved, crashes>>

(* Mutant: the position moves to the last block of the answer, discarded or not. *)
MutantPositionOfAnswer(confirmed, answer) ==
  LET transactions == discardNotCompletedBlock(answer)
  IN /\ lastConfirmedBlock' = confirmed
     /\ events' = {[transaction |-> t, primaryKey |-> lastPrimaryKey + Rank(transactions, t)] :
                     t \in transactions}
     /\ lastExportedBlock' = LastBlock(answer)
     /\ lastPrimaryKey' = lastPrimaryKey + Cardinality(transactions)
     /\ pc' = "store"
     /\ UNCHANGED <<nodeVars, topic, saved, crashes>>

(* Whole blocks are exported, with consecutive primary keys. *)
ExportBlocks(confirmed, answer) ==
  LET transactions == discardNotCompletedBlock(answer)
  IN /\ lastConfirmedBlock' = confirmed
     /\ events' = {[transaction |-> t, primaryKey |-> lastPrimaryKey + Rank(transactions, t)] :
                     t \in transactions}
     /\ lastExportedBlock' = LastBlock(transactions)
     /\ lastPrimaryKey' = lastPrimaryKey + Cardinality(transactions)
     /\ pc' = "store"
     /\ UNCHANGED <<nodeVars, topic, saved, crashes>>

(* A new process: the constructor's values, then the saved position. *)
Fresh ==
  /\ pc' = "init"
  /\ lastConfirmedBlock' = -1
  /\ lastExportedBlock' = saved.block
  /\ lastPrimaryKey' = saved.key
  /\ events' = {}

(* An exception of work() ends the process. *)
Throw ==
  /\ Fresh
  /\ UNCHANGED <<nodeVars, topic, saved, crashes>>

(* work() with a given answer of the API. *)
WorkWith(confirmed, answer) ==
  /\ pc = "work"
  /\ CaughtUp => confirmed >= FromBlock + 2
  /\ \/ answer = {} /\ SkipBlock(confirmed)
     \/ answer # {} /\ SingleBlockIsPartial(answer) /\ Throw
     \/ /\ answer # {} /\ ~SingleBlockIsPartial(answer)
        /\ ~verifyAllBlocksComplete(discardNotCompletedBlock(answer))
        /\ Throw
     \/ /\ answer # {} /\ ~SingleBlockIsPartial(answer)
        /\ verifyAllBlocksComplete(discardNotCompletedBlock(answer))
        /\ ExportBlocks(confirmed, answer)

WorkFetch ==
  \E confirmed \in Confirmed : \E answer \in Answered(confirmed) : WorkWith(confirmed, answer)

-----------------------------------------------------------------------------
(* init() *)
InitWorker ==
  /\ pc = "init"
  /\ \E h \in ReportedTip : lastConfirmedBlock' = ConfirmedAt(h)
  /\ pc' = "work"
  /\ UNCHANGED <<nodeVars, lastExportedBlock, lastPrimaryKey, events, topic, saved, crashes>>

Store ==
  /\ pc = "store"
  /\ topic' = topic \cup events
  /\ pc' = "save"
  /\ UNCHANGED <<nodeVars, workerVars, saved, crashes>>

Save ==
  /\ pc = "save"
  /\ saved' = [block |-> lastExportedBlock, key |-> lastPrimaryKey]
  /\ pc' = "work"
  /\ UNCHANGED <<nodeVars, workerVars, topic, crashes>>

Crash ==
  /\ crashes < MaxCrashes
  /\ crashes' = crashes + 1
  /\ Fresh
  /\ UNCHANGED <<nodeVars, topic, saved>>

GrowChain ==
  /\ tip < MaxTip
  /\ tip' = tip + 1
  /\ UNCHANGED <<transactionsCount, workerVars, pc, topic, saved, crashes>>

Init ==
  /\ tip = InitTip
  /\ transactionsCount \in [Block -> 0..MaxTxPerBlock \cup {GenesisCount}]
  /\ \A b \in Block : IF b = 0 THEN transactionsCount[b] = GenesisCount
                               ELSE transactionsCount[b] <= MaxTxPerBlock
  /\ pc = "init"
  /\ lastConfirmedBlock = -1
  /\ lastExportedBlock = -1
  /\ lastPrimaryKey = StartKey
  /\ events = {}
  /\ topic = {}
  /\ saved = [block |-> -1, key |-> StartKey]
  /\ crashes = 0

Step == InitWorker \/ WorkIdle \/ WorkFetch \/ Store \/ Save

Next == Step \/ Crash \/ GrowChain

Spec == Init /\ [][Next]_vars

(* The loop goes on, the chain grows, and an API that is asked again and    *)
(* again gives a complete answer for the current height now and then.       *)
FairSpec ==
  /\ Spec
  /\ WF_vars(Step)
  /\ WF_vars(GrowChain)
  /\ SF_vars(\E confirmed \in Confirmed :
               /\ CaughtUp => confirmed = ConfirmedAt(tip)
               /\ WorkWith(confirmed, Transactions(Asked(confirmed))))

-----------------------------------------------------------------------------
(* Properties.                                                             *)

AllTransactions == Transactions(Block)

(* Keys are stable: a transaction's primary key is its place in the chain,  *)
(* however the answers cut the intervals, whatever was discarded, and       *)
(* however often the transaction is exported again after a crash. So keys   *)
(* are unique and without gaps.                                             *)
KeysAreRanks ==
  \A e \in topic : e.primaryKey = StartKey + Rank(AllTransactions, e.transaction)

(* A saved position claims only what is exported, with the matching key:    *)
(* all transactions of all blocks up to it.                                 *)
SavedIsExported ==
  /\ \A t \in AllTransactions : t.block <= saved.block => \E e \in topic : e.transaction = t
  /\ saved.key = StartKey + Cardinality({t \in AllTransactions : t.block <= saved.block})

(* Blocks arrive whole, although the API cuts its answers anywhere.        *)
BlocksAreWhole ==
  \A e \in topic : \A t \in AllTransactions :
    t.block = e.transaction.block => \E f \in topic : f.transaction = t

(* Only confirmed blocks are exported, although the confirmed height is     *)
(* cached over many intervals and may be reported with a lag.               *)
OnlyConfirmed == \A e \in topic : e.transaction.block <= tip - Confirmations

(* The export reaches every block up to two below the confirmed one, past   *)
(* blocks without transactions.                                             *)
EventuallyExported ==
  \A b \in {c \in Block : c <= MaxTip - Confirmations - 2} :
    (b <= tip - Confirmations - 2) ~> (saved.block >= b)

=============================================================================
