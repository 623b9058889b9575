-------------------------- MODULE EvmWorkersProofs ---------------------------
(***************************************************************************)
(* What holds of the workers of the Ethereum family for any chain of the    *)
(* contents in EvmWorkers, any batch size and any number of failures,        *)
(* crashes and repetitions.                                                *)
(***************************************************************************)
EXTENDS EvmWorkers, ArrayProofs

-----------------------------------------------------------------------------
(* Types and heights                                                       *)

Types ==
  /\ mode \in Modes
  /\ confirmed \in 0..MaxBlock
  /\ chain \in [Block -> 1..4]
  /\ pc \in {"init", "work", "store", "save"}
  /\ lastConfirmedBlock \in Int /\ lastExportedBlock \in Int
  /\ saved.block \in Int

(* What is saved was exported, and what is exported is confirmed; while a    *)
(* batch is not stored, only its own blocks are between the two positions.    *)
Heights ==
  /\ -1 <= saved.block /\ saved.block <= lastExportedBlock /\ lastExportedBlock <= confirmed
  /\ lastConfirmedBlock <= confirmed
  /\ pc # "init" => lastExportedBlock <= lastConfirmedBlock
  /\ pc \in {"init", "work"} => lastExportedBlock = saved.block

(* The interval of a batch begins after the last exported block, is not      *)
(* empty and ends with a confirmed one.                                     *)
LEMMA IntervalBounds ==
  ASSUME Types, Heights, HasWork
  PROVE  /\ Interval.fromBlock = saved.block + 1 /\ lastExportedBlock = saved.block
         /\ Interval.fromBlock \in Nat /\ Interval.toBlock \in Nat
         /\ Interval.fromBlock <= Interval.toBlock
         /\ Interval.toBlock <= Context.confirmed /\ Context.confirmed <= confirmed
         /\ confirmed \in Nat /\ confirmed <= MaxBlock /\ Context.confirmed \in Int
  <1>1. /\ pc = "work" /\ lastExportedBlock = saved.block /\ saved.block \in Int
        /\ lastConfirmedBlock \in Int /\ -1 <= saved.block
        /\ lastConfirmedBlock <= confirmed /\ lastExportedBlock <= lastConfirmedBlock
        /\ confirmed \in Int /\ 0 <= confirmed /\ confirmed <= MaxBlock /\ MaxBlock \in Nat
    BY EvmWorkersAssumption DEF HasWork, Types, Heights
  <1>2. /\ Context.confirmed \in Int /\ lastExportedBlock < Context.confirmed
        /\ Context.confirmed <= confirmed
    <2>1. CASE lastExportedBlock < lastConfirmedBlock
      BY <1>1, <2>1 DEF Context, analyzeWorkerContext, NeedsNode
    <2>2. CASE ~(lastExportedBlock < lastConfirmedBlock)
      <3>1. CASE confirmed > lastConfirmedBlock
        BY <1>1, <2>2, <3>1 DEF Context, analyzeWorkerContext, NeedsNode
      <3>2. CASE ~(confirmed > lastConfirmedBlock)
        <4>1. Context.context = NO_WORK_SLEEP
          BY <1>1, <2>2, <3>2 DEF Context, analyzeWorkerContext, NeedsNode
        <4> QED
          BY <4>1 DEF HasWork
      <3> QED
        BY <3>1, <3>2
    <2> QED
      BY <2>1, <2>2
  <1>3. /\ Interval.fromBlock = lastExportedBlock + 1
        /\ Interval.toBlock = IF lastExportedBlock + BLOCK_INTERVAL < Context.confirmed
                              THEN lastExportedBlock + BLOCK_INTERVAL ELSE Context.confirmed
    BY DEF Interval, nextIntervalCalculator, Minimum
  <1>4. BLOCK_INTERVAL \in Nat /\ 1 <= BLOCK_INTERVAL
    BY EvmWorkersAssumption
  <1> QED
    BY <1>1, <1>2, <1>3, <1>4

(* What Return and Throw do to the heights *)
LEMMA ReturnHeights ==
  ASSUME Types, Heights, HasWork, NEW result, NEW key, Return(result, key)
  PROVE  Types' /\ Heights'
  <1>1. /\ Interval.fromBlock = saved.block + 1 /\ lastExportedBlock = saved.block
        /\ Interval.fromBlock \in Nat /\ Interval.toBlock \in Nat
        /\ Interval.fromBlock <= Interval.toBlock
        /\ Interval.toBlock <= Context.confirmed /\ Context.confirmed <= confirmed
        /\ Context.confirmed \in Int
    BY IntervalBounds
  <1>2. /\ lastConfirmedBlock' = Context.confirmed /\ lastExportedBlock' = Interval.toBlock
        /\ pc' \in {"save", "store"} /\ mode' = mode /\ confirmed' = confirmed
        /\ chain' = chain /\ saved' = saved
    BY DEF Return, nodeVars
  <1>3. Types'
    BY <1>1, <1>2 DEF Types
  <1>4. Heights'
    BY <1>1, <1>2 DEF Heights, Types
  <1> QED
    BY <1>3, <1>4

(* A step that throws keeps the types and the heights. *)
LEMMA ThrowHeights ==
  ASSUME Types, Heights, Fresh, UNCHANGED <<nodeVars, saved>>
  PROVE  Types' /\ Heights'
  <1>1. /\ pc' = "init" /\ lastExportedBlock' = saved.block /\ lastConfirmedBlock' = -1
        /\ mode' = mode /\ confirmed' = confirmed /\ chain' = chain /\ saved' = saved
    BY DEF Fresh, nodeVars
  <1>2. Types'
    BY <1>1 DEF Types
  <1>3. Heights'
    BY <1>1 DEF Types, Heights
  <1> QED
    BY <1>2, <1>3

(* A batch of blocks throws or returns. *)
LEMMA WorkOnBlocksCases ==
  ASSUME NEW transfers, WorkOnBlocks(transfers)
  PROVE  Throw \/ \E result, key : Return(result, key)
  BY DEF WorkOnBlocks

(* The types and heights hold at the start. *)
LEMMA HeightsInitially ==
  ASSUME Init
  PROVE  Types /\ Heights
  <1>1. chain \in [Block -> 1..4]
    BY DEF Init, EthContents
  <1> QED
    BY <1>1, EvmWorkersAssumption DEF Init, Types, Heights

(* Every step keeps the types and the heights. *)
LEMMA HeightsStep ==
  ASSUME Types, Heights, [Next]_vars
  PROVE  Types' /\ Heights'
  <1>1. CASE WorkEth
    <2>1. HasWork /\ WorkOnBlocks(SortedTransfers(fetchData(-1)))
      BY <1>1 DEF WorkEth
    <2>2. CASE Throw
      BY <2>2, ThrowHeights DEF Throw
    <2>3. CASE \E result, key : Return(result, key)
      BY <2>1, <2>3, ReturnHeights
    <2> QED
      BY <2>1, <2>2, <2>3, WorkOnBlocksCases
  <1>2. CASE WorkEthLossy
    <2>1. HasWork /\ \E b : WorkOnBlocks(SortedTransfers(fetchData(b)))
      BY <1>2 DEF WorkEthLossy
    <2>2. CASE Throw
      BY <2>2, ThrowHeights DEF Throw
    <2>3. CASE \E result, key : Return(result, key)
      BY <2>1, <2>3, ReturnHeights
    <2> QED
      BY <2>1, <2>2, <2>3, WorkOnBlocksCases
  <1>3. CASE WorkTokens
    BY <1>3, ReturnHeights DEF WorkTokens
  <1>4. CASE WorkRecords
    BY <1>4, ReturnHeights DEF WorkRecords
  <1>5. CASE InitWorker
    BY <1>5 DEF InitWorker, Types, Heights, nodeVars
  <1>6. CASE WorkIdle
    <2>1. /\ pc = "work" /\ pc' = "save" /\ mode' = mode /\ confirmed' = confirmed
          /\ chain' = chain /\ saved' = saved /\ lastConfirmedBlock' = lastConfirmedBlock
          /\ lastExportedBlock' = lastExportedBlock
      BY <1>6 DEF WorkIdle, nodeVars
    <2> QED
      BY <2>1 DEF Types, Heights
  <1>7. CASE Store
    BY <1>7 DEF Store, Types, Heights, nodeVars, workerVars
  <1>8. CASE Save
    <2>1. /\ pc = "save" /\ pc' = "work" /\ mode' = mode /\ confirmed' = confirmed
          /\ chain' = chain /\ saved'.block = lastExportedBlock
          /\ lastConfirmedBlock' = lastConfirmedBlock /\ lastExportedBlock' = lastExportedBlock
      BY <1>8 DEF Save, nodeVars, workerVars
    <2> QED
      BY <2>1 DEF Types, Heights
  <1>9. CASE WorkThrows
    BY <1>9, ThrowHeights DEF WorkThrows, Throw
  <1>10. CASE Crash
    BY <1>10, ThrowHeights DEF Crash
  <1>11. CASE GrowChain
    <2>1. /\ confirmed < MaxBlock /\ confirmed' = confirmed + 1 /\ mode' = mode /\ pc' = pc
          /\ chain' = chain /\ saved' = saved /\ lastConfirmedBlock' = lastConfirmedBlock
          /\ lastExportedBlock' = lastExportedBlock
      BY <1>11 DEF GrowChain, workerVars
    <2> QED
      BY <2>1, EvmWorkersAssumption DEF Types, Heights
  <1>12. CASE UNCHANGED vars
    BY <1>12 DEF vars, nodeVars, workerVars, Types, Heights
  <1> QED
    BY <1>1, <1>2, <1>3, <1>4, <1>5, <1>6, <1>7, <1>8, <1>9, <1>10, <1>11, <1>12 DEF Next, Step

(* The types and heights hold in every state. *)
LEMMA TypesAndHeights == Spec => [](Types /\ Heights)
  <1>1. Init => Types /\ Heights
    BY HeightsInitially
  <1>2. Types /\ Heights /\ [Next]_vars => (Types /\ Heights)'
    BY HeightsStep
  <1> QED
    BY <1>1, <1>2, PTL DEF Spec

-----------------------------------------------------------------------------
(* The bulk answers and their times                                        *)

(* Answers for the blocks of an interval, each with its number for its time  *)
AreAnswers(B, f, t, n) ==
  /\ n = t - f + 1 /\ Len(B) = n /\ DOMAIN B = 1..n
  /\ B \in Seq([number : f..t, timestamp : f..t])
  /\ \A i \in 1..n : B[i].number \in f..t /\ B[i].timestamp = B[i].number
  /\ \A b \in f..t : \E i \in 1..n : B[i].number = b

(* That is what the node answers, in either order. *)
LEMMA Answers ==
  ASSUME NEW f \in Nat, NEW t \in Nat, f <= t, Interval.fromBlock = f, Interval.toBlock = t,
         NEW reversed \in BOOLEAN
  PROVE  AreAnswers(BlockAnswers(reversed), f, t, t - f + 1)
  <1> DEFINE n == t - f + 1
             A == [i \in 1..n |-> [number |-> f + i - 1, timestamp |-> f + i - 1]]
             B == BlockAnswers(reversed)
             E == [number : f..t, timestamp : f..t]
  <1>1. n \in Nat
    OBVIOUS
  <1>2. A \in Seq(E) /\ Len(A) = n /\ DOMAIN A = 1..n
    <2>1. \A i \in 1..n : f + i - 1 \in f..t
      OBVIOUS
    <2>2. A \in [1..n -> E]
      BY <2>1
    <2> HIDE DEF n, E
    <2> QED
      BY <1>1, <2>2
  <1>3. \A i \in 1..n : A[i].number = f + i - 1 /\ A[i].timestamp = f + i - 1
    OBVIOUS
  <1>4. B = IF reversed THEN [i \in 1..n |-> A[n - i + 1]] ELSE A
    <2>1. B = IF reversed THEN Reverse(A) ELSE A
      BY DEF BlockAnswers
    <2>2. Reverse(A) = [i \in 1..Len(A) |-> A[Len(A) - i + 1]]
      BY DEF Reverse
    <2> HIDE DEF A, n, B
    <2> QED
      BY <1>2, <2>1, <2>2
  <1> HIDE DEF A, B, E
  <1>5. CASE ~reversed
    <2>1. B = A
      BY <1>4, <1>5
    <2>2. \A b \in f..t : b - f + 1 \in 1..n /\ A[b - f + 1].number = b
      BY <1>3
    <2>3. \A i \in 1..n : A[i].number \in f..t /\ A[i].timestamp = A[i].number
      BY <1>3
    <2>4. \A b \in f..t : \E i \in 1..n : A[i].number = b
      BY <2>2
    <2> QED
      BY <1>2, <2>1, <2>3, <2>4 DEF AreAnswers, B, E
  <1>6. CASE reversed
    <2>1. B = [i \in 1..n |-> A[n - i + 1]]
      BY <1>4, <1>6
    <2>2. \A i \in 1..n : n - i + 1 \in 1..n
      OBVIOUS
    <2>3. \A i \in 1..n : A[i] \in E
      <3> HIDE DEF n
      <3> QED
        BY <1>1, <1>2
    <2>4. B \in [1..n -> E]
      BY <2>1, <2>2, <2>3
    <2>5. B \in Seq(E) /\ Len(B) = n /\ DOMAIN B = 1..n
      <3> HIDE DEF n
      <3> QED
        BY <1>1, <2>4
    <2>6. \A i \in 1..n : B[i].number = t - i + 1 /\ B[i].timestamp = t - i + 1
      <3> TAKE i \in 1..n
      <3>1. B[i] = A[n - i + 1] /\ n - i + 1 \in 1..n /\ f + (n - i + 1) - 1 = t - i + 1
        BY <2>1, <2>2
      <3> QED
        BY <1>3, <3>1
    <2>7. \A i \in 1..n : B[i].number \in f..t /\ B[i].timestamp = B[i].number
      BY <2>6
    <2>8. \A b \in f..t : t - b + 1 \in 1..n /\ B[t - b + 1].number = b
      BY <2>6
    <2>9. \A b \in f..t : \E i \in 1..n : B[i].number = b
      BY <2>8
    <2> QED
      BY <2>5, <2>7, <2>9 DEF AreAnswers, B, E
  <1> QED
    BY <1>5, <1>6

(* Whatever their order, the store has the time of every block. *)
LEMMA TimesOfAnswers ==
  ASSUME NEW f \in Nat, NEW t \in Nat, f <= t, Interval.fromBlock = f, Interval.toBlock = t,
         NEW reversed \in BOOLEAN
  PROVE  TimestampStore(BlockAnswers(reversed), Interval.fromBlock) = [b \in f..t |-> b]
  <1> DEFINE B == BlockAnswers(reversed)
             n == t - f + 1
  <1>0. AreAnswers(B, f, t, n)
    BY Answers
  <1> HIDE DEF B, n
  <1>1. /\ DOMAIN B = 1..n
        /\ \A i \in 1..n : B[i].number \in f..t /\ B[i].timestamp = B[i].number
        /\ \A b \in f..t : \E i \in 1..n : B[i].number = b
    BY <1>0 DEF AreAnswers
  <1>2. {B[i].number : i \in DOMAIN B} = f..t
    BY <1>1
  <1>3. ASSUME NEW b \in f..t
        PROVE  (CHOOSE answer \in ToSet(B) : answer.number = b).timestamp = b
    <2>1. \A answer \in ToSet(B) : answer.timestamp = answer.number
      BY <1>1 DEF ToSet
    <2>2. \E answer \in ToSet(B) : answer.number = b
      BY <1>1 DEF ToSet
    <2>3. PICK a : a = CHOOSE answer \in ToSet(B) : answer.number = b
      OBVIOUS
    <2>4. a \in ToSet(B) /\ a.number = b
      BY <2>2, <2>3
    <2> QED
      BY <2>1, <2>3, <2>4
  <1>4. TimestampStore(B, Interval.fromBlock)
          = [b \in f..t |-> (CHOOSE answer \in ToSet(B) : answer.number = b).timestamp]
    BY <1>2 DEF TimestampStore
  <1>5. TimestampStore(B, Interval.fromBlock) = [b \in f..t |-> b]
    BY <1>3, <1>4
  <1> QED
    BY <1>5 DEF B

-----------------------------------------------------------------------------
(* The logs of the chain                                                   *)

TokenTxs == {Supply, Moving, Special}

(* A block has at most two transactions, each with some logs. *)
LEMMA ContentsShape ==
  ASSUME NEW c \in 1..4
  PROVE  /\ Len(TokenContents[c]) \in 0..2
         /\ \A t \in 1..Len(TokenContents[c]) : TokenContents[c][t] \in TokenTxs
         /\ \A t \in 1..Len(TokenContents[c]) : Len(TokenContents[c][t].logs) \in 1..10
  <1>1. /\ TokenContents[1] = <<>> /\ TokenContents[2] = <<Moving>>
        /\ TokenContents[3] = <<Supply, Moving>> /\ TokenContents[4] = <<Special, Supply>>
    BY DEF TokenContents
  <1>2. /\ Len(TokenContents[c]) \in 0..2
        /\ \A t \in 1..Len(TokenContents[c]) : TokenContents[c][t] \in TokenTxs
    <2>1. CASE c = 1
      BY <1>1, <2>1
    <2>2. CASE c = 2
      <3>1. TokenContents[c] = <<Moving>>
        BY <1>1, <2>2
      <3>2. Len(<<Moving>>) = 1 /\ <<Moving>>[1] = Moving /\ \A t \in 1..1 : t = 1
        OBVIOUS
      <3> QED
        BY <3>1, <3>2 DEF TokenTxs
    <2>3. CASE c = 3
      <3>1. TokenContents[c] = <<Supply, Moving>>
        BY <1>1, <2>3
      <3>2. /\ Len(<<Supply, Moving>>) = 2 /\ <<Supply, Moving>>[1] = Supply
            /\ <<Supply, Moving>>[2] = Moving /\ \A t \in 1..2 : t = 1 \/ t = 2
        OBVIOUS
      <3> QED
        BY <3>1, <3>2 DEF TokenTxs
    <2>4. CASE c = 4
      <3>1. TokenContents[c] = <<Special, Supply>>
        BY <1>1, <2>4
      <3>2. /\ Len(<<Special, Supply>>) = 2 /\ <<Special, Supply>>[1] = Special
            /\ <<Special, Supply>>[2] = Supply /\ \A t \in 1..2 : t = 1 \/ t = 2
        OBVIOUS
      <3> QED
        BY <3>1, <3>2 DEF TokenTxs
    <2> QED
      BY <2>1, <2>2, <2>3, <2>4
  <1>3. Len(Supply.logs) = 6 /\ Len(Moving.logs) = 4 /\ Len(Special.logs) = 10
    BY DEF Supply, Moving, Special, TokenTx
  <1>4. \A tx \in TokenTxs : Len(tx.logs) \in 1..10
    BY <1>3 DEF TokenTxs
  <1> QED
    BY <1>2, <1>4

(* The logs of a transaction, as the node reports them *)
TxLogs(c, b, t) ==
  [i \in 1..Len(TokenContents[c][t].logs) |->
     Extend(TokenContents[c][t].logs[i],
            [block |-> b, tx |-> t - 1,
             logIndex |-> Len(FlattenSeq([k \in 1..(t - 1) |-> TokenContents[c][k].logs])) + i - 1])]

TxLogSet(c, b, t) == {TxLogs(c, b, t)[i] : i \in 1..Len(TokenContents[c][t].logs)}

BlockLogSet(c, b) == UNION {TxLogSet(c, b, t) : t \in 1..Len(TokenContents[c])}

(* All logs that a chain can have, and which comes before which *)
LogUniverse == UNION {BlockLogSet(c, b) : c \in 1..4, b \in Block}

LogBefore ==
  {pair \in LogUniverse \X LogUniverse :
     \/ pair[1].block < pair[2].block
     \/ pair[1].block = pair[2].block /\ pair[1].logIndex < pair[2].logIndex}

(* Where the logs of a transaction begin *)
LogsBefore(c, t) == IF t = 1 THEN 0 ELSE Len(TokenContents[c][1].logs)

(* The logs of the transactions before it *)
LEMMA LogsBeforeTx ==
  ASSUME NEW c \in 1..4, NEW t \in 1..Len(TokenContents[c])
  PROVE  /\ Len(FlattenSeq([k \in 1..(t - 1) |-> TokenContents[c][k].logs])) = LogsBefore(c, t)
         /\ LogsBefore(c, t) \in 0..10
  <1> DEFINE ss == [k \in 1..(t - 1) |-> TokenContents[c][k].logs]
  <1>1. t \in {1, 2}
    BY ContentsShape
  <1>2. CASE t = 1
    <2>1. ss = <<>> /\ Len(ss) = 0
      BY <1>2
    <2>2. FlattenSeq(ss) = ss
      BY <2>1 DEF FlattenSeq
    <2> QED
      BY <1>2, <2>1, <2>2 DEF LogsBefore
  <1>3. CASE t = 2
    <2>1. Len(ss) = 1 /\ ss[1] = TokenContents[c][1].logs /\ 1 \in Nat \ {0}
      BY <1>3
    <2> HIDE DEF ss
    <2>2. PICK g : /\ g[1] = ss[1]
                   /\ \A i \in 2..Len(ss) : g[i] = g[i - 1] \o ss[i]
                   /\ FlattenSeq(ss) = g[Len(ss)]
      BY <2>1, FlattenParts
    <2>3. FlattenSeq(ss) = TokenContents[c][1].logs
      BY <2>1, <2>2
    <2>4. 1 \in 1..Len(TokenContents[c])
      BY <1>3, ContentsShape
    <2>5. Len(TokenContents[c][1].logs) \in 1..10
      BY <2>4, ContentsShape
    <2> QED
      BY <1>3, <2>3, <2>5 DEF ss, LogsBefore
  <1> QED
    BY <1>1, <1>2, <1>3

(* What a log says of where it stands *)
LEMMA TxLogFacts ==
  ASSUME NEW c \in 1..4, NEW b \in Block, NEW t \in 1..Len(TokenContents[c]),
         NEW i \in 1..Len(TokenContents[c][t].logs)
  PROVE  /\ TxLogs(c, b, t)[i].block = b /\ TxLogs(c, b, t)[i].tx = t - 1
         /\ TxLogs(c, b, t)[i].logIndex = LogsBefore(c, t) + i - 1
         /\ TxLogs(c, b, t)[i].logIndex \in 0..19
         /\ TxLogs(c, b, t)[i] \in TxLogSet(c, b, t)
  <1> DEFINE before == Len(FlattenSeq([k \in 1..(t - 1) |-> TokenContents[c][k].logs]))
             l == TxLogs(c, b, t)[i]
  <1>1. l = Extend(TokenContents[c][t].logs[i],
                   [block |-> b, tx |-> t - 1, logIndex |-> before + i - 1])
    BY DEF TxLogs
  <1>2. before = LogsBefore(c, t) /\ LogsBefore(c, t) \in 0..10
    BY LogsBeforeTx
  <1>3. l \in TxLogSet(c, b, t)
    BY DEF TxLogSet
  <1> HIDE DEF before, l
  <1>4. l.block = b /\ l.tx = t - 1 /\ l.logIndex = before + i - 1
    BY <1>1 DEF Extend
  <1>5. before \in 0..10 /\ i \in 1..10
    <2> DEFINE m == Len(TokenContents[c][t].logs)
    <2>1. m \in 1..10 /\ i \in 1..m
      BY ContentsShape
    <2> HIDE DEF m
    <2>2. i \in 1..10
      BY <2>1
    <2> QED
      BY <1>2, <2>2
  <1>6. before + i - 1 \in 0..19
    BY <1>5
  <1> QED
    BY <1>2, <1>3, <1>4, <1>6 DEF l

(* The logs of a block are listed in the order of their index. *)
LEMMA BlockLogsList ==
  ASSUME NEW c \in 1..4, NEW b \in Block
  PROVE  Lists(BlockLogs(c, b), BlockLogSet(c, b), LogBefore)
  <1> DEFINE n == Len(TokenContents[c])
             part == [t \in 1..n |-> TxLogSet(c, b, t)]
             ss == [t \in 1..n |-> TxLogs(c, b, t)]
  <1>1. n \in Nat /\ n <= 2
    BY ContentsShape
  <1>2. \A t \in 1..n : TxLogSet(c, b, t) \subseteq LogUniverse
    <2> TAKE t \in 1..n
    <2>1. TxLogSet(c, b, t) \subseteq BlockLogSet(c, b)
      BY DEF BlockLogSet
    <2>2. BlockLogSet(c, b) \subseteq LogUniverse
      BY DEF LogUniverse
    <2> QED
      BY <2>1, <2>2
  <1>3. BlockLogs(c, b) = FlattenSeq(ss)
    BY DEF BlockLogs, TxLogs
  <1>4. ASSUME NEW t \in 1..n PROVE Lists(TxLogs(c, b, t), TxLogSet(c, b, t), LogBefore)
    <2> DEFINE s == TxLogs(c, b, t)
               m == Len(TokenContents[c][t].logs)
    <2>1. m \in Nat
      BY ContentsShape
    <2>2. \A i \in 1..m : s[i] \in TxLogSet(c, b, t)
      BY DEF TxLogSet
    <2>3. s = [i \in 1..m |-> s[i]]
      BY DEF TxLogs
    <2>4. \A i \in 1..m : /\ s[i].block = b
                          /\ s[i].logIndex = LogsBefore(c, t) + i - 1
      BY TxLogFacts
    <2>5. \A x \in TxLogSet(c, b, t) : \E p \in 1..m : s[p] = x
      BY DEF TxLogSet
    <2> HIDE DEF s, m
    <2>6. s \in Seq(TxLogSet(c, b, t)) /\ Len(s) = m
      BY <2>1, <2>2, <2>3
    <2>7. ASSUME NEW p \in 1..m, NEW q \in 1..m, p < q PROVE <<s[p], s[q]>> \in LogBefore
      <3>1. s[p] \in LogUniverse /\ s[q] \in LogUniverse
        BY <1>2, <2>2
      <3>2. LogsBefore(c, t) \in 0..10
        BY LogsBeforeTx, Zenon
      <3>4. s[p].logIndex = LogsBefore(c, t) + p - 1 /\ s[q].logIndex = LogsBefore(c, t) + q - 1
        BY <2>4
      <3>5. p \in Int /\ q \in Int /\ LogsBefore(c, t) \in Int
        BY <2>1, <3>2
      <3>6. s[p].logIndex < s[q].logIndex
        BY <2>7, <3>4, <3>5
      <3>3. s[p].block = s[q].block /\ s[p].logIndex < s[q].logIndex
        BY <2>4, <3>6, Zenon
      <3> QED
        BY <3>1, <3>3 DEF LogBefore
    <2> QED
      BY <2>5, <2>6, <2>7 DEF Lists, s
  <1>5. ASSUME NEW t \in 1..n, NEW u \in 1..n, t < u, NEW x \in TxLogSet(c, b, t),
               NEW y \in TxLogSet(c, b, u)
        PROVE  <<x, y>> \in LogBefore
    <2>1. t = 1 /\ u # 1
      BY <1>1, <1>5
    <2>2. PICK i \in 1..Len(TokenContents[c][t].logs) : x = TxLogs(c, b, t)[i]
      BY DEF TxLogSet
    <2>3. PICK j \in 1..Len(TokenContents[c][u].logs) : y = TxLogs(c, b, u)[j]
      BY DEF TxLogSet
    <2>4. x.block = b /\ x.logIndex = LogsBefore(c, t) + i - 1
      BY <2>2, TxLogFacts
    <2>5. y.block = b /\ y.logIndex = LogsBefore(c, u) + j - 1
      BY <2>3, TxLogFacts
    <2>9. LogsBefore(c, t) = 0 /\ LogsBefore(c, u) = Len(TokenContents[c][1].logs)
      BY <2>1 DEF LogsBefore
    <2>6. Len(TokenContents[c][1].logs) \in Nat /\ i <= Len(TokenContents[c][1].logs)
      BY <2>1, <2>2, ContentsShape
    <2>7. x.logIndex < y.logIndex
      BY <2>4, <2>5, <2>6, <2>9
    <2>8. x \in LogUniverse /\ y \in LogUniverse
      BY <1>2
    <2> QED
      BY <2>4, <2>5, <2>7, <2>8 DEF LogBefore
  <1>6. \A t \in 1..n : ss[t] = TxLogs(c, b, t) /\ part[t] = TxLogSet(c, b, t)
    OBVIOUS
  <1>7. BlockLogSet(c, b) = UNION {part[t] : t \in 1..n}
    BY DEF BlockLogSet
  <1>8. ss = [t \in 1..n |-> ss[t]]
    OBVIOUS
  <1> HIDE DEF ss, part, n
  <1>9. \A t \in 1..n : Lists(ss[t], part[t], LogBefore)
    BY <1>4, <1>6
  <1>10. \A t, u \in 1..n : t < u => \A x \in part[t], y \in part[u] : <<x, y>> \in LogBefore
    BY <1>5, <1>6
  <1>11. Lists(FlattenSeq(ss), UNION {part[t] : t \in 1..n}, LogBefore)
    BY <1>1, <1>8, <1>9, <1>10, FlattenLists
  <1> QED
    BY <1>3, <1>7, <1>11

(* The block and the index tell the logs of a chain apart. *)
LEMMA BlockLogFacts ==
  ASSUME NEW c \in 1..4, NEW b \in Block, NEW x \in BlockLogSet(c, b)
  PROVE  /\ x.block = b /\ x.logIndex \in 0..19 /\ x.tx \in Nat
         /\ x \in LogUniverse
         /\ \A y \in BlockLogSet(c, b) : y.logIndex = x.logIndex => y = x
  <1>1. \A y \in BlockLogSet(c, b) : y.block = b /\ y.logIndex \in 0..19 /\ y.tx \in Nat
    <2> TAKE y \in BlockLogSet(c, b)
    <2>1. PICK t \in 1..Len(TokenContents[c]) : y \in TxLogSet(c, b, t)
      BY DEF BlockLogSet
    <2>2. PICK i \in 1..Len(TokenContents[c][t].logs) : y = TxLogs(c, b, t)[i]
      BY <2>1 DEF TxLogSet
    <2>3. y.block = b /\ y.logIndex \in 0..19 /\ y.tx = t - 1
      BY <2>2, TxLogFacts
    <2> QED
      BY <2>3
  <1>2. x \in LogUniverse
    BY DEF LogUniverse
  <1>3. ASSUME NEW y \in BlockLogSet(c, b), y.logIndex = x.logIndex PROVE y = x
    <2> DEFINE s == BlockLogs(c, b)
    <2>1. Lists(s, BlockLogSet(c, b), LogBefore)
      BY BlockLogsList
    <2> HIDE DEF s
    <2>2. PICK p \in 1..Len(s) : s[p] = x
      BY <2>1 DEF Lists
    <2>3. PICK q \in 1..Len(s) : s[q] = y
      BY <2>1 DEF Lists
    <2>4. x.logIndex \in Int /\ x.block = y.block /\ x.block \in Int
      <3>1. x.logIndex \in 0..19 /\ x.block = b /\ y.block = b
        BY <1>1
      <3>2. b \in Int
        BY DEF Block
      <3> QED
        BY <3>1, <3>2, SMTT(30)
    <2>5. <<x, y>> \notin LogBefore /\ <<y, x>> \notin LogBefore
      BY <1>3, <2>4 DEF LogBefore
    <2>6. ~(p < q) /\ ~(q < p)
      BY <2>1, <2>2, <2>3, <2>5 DEF Lists
    <2>7. p = q
      BY <2>6
    <2> QED
      BY <2>2, <2>3, <2>7
  <1> QED
    BY <1>1, <1>2, <1>3

(* The logs of the chain *)
ChainLogs == UNION {BlockLogSet(chain[b], b) : b \in Block}

(* All logs of the chain, in their order *)
LEMMA AllLogsList ==
  ASSUME chain \in [Block -> 1..4]
  PROVE  Lists(AllLogs, ChainLogs, LogBefore)
  <1> DEFINE ss == [b \in Block |-> BlockLogs(chain[b], b)]
             part == [b \in Block |-> BlockLogSet(chain[b], b)]
  <1>1. MaxBlock \in Nat /\ Block = 1..MaxBlock
    BY EvmWorkersAssumption DEF Block
  <1>2. \A b \in Block : chain[b] \in 1..4
    OBVIOUS
  <1>3. \A b \in Block : Lists(ss[b], part[b], LogBefore)
    BY <1>2, BlockLogsList
  <1>4. ASSUME NEW b \in Block, NEW d \in Block, b < d, NEW x \in part[b], NEW y \in part[d]
        PROVE  <<x, y>> \in LogBefore
    <2>1. x.block = b /\ y.block = d /\ x \in LogUniverse /\ y \in LogUniverse
      BY <1>2, BlockLogFacts
    <2> QED
      BY <1>4, <2>1 DEF LogBefore
  <1>5. AllLogs = FlattenSeq(ss) /\ ss = [b \in Block |-> ss[b]]
    BY DEF AllLogs
  <1>6. ChainLogs = UNION {part[b] : b \in Block}
    BY DEF ChainLogs
  <1> HIDE DEF ss, part
  <1>7. Lists(FlattenSeq(ss), UNION {part[b] : b \in Block}, LogBefore)
    BY <1>1, <1>3, <1>4, <1>5, FlattenLists
  <1> QED
    BY <1>5, <1>6, <1>7

(* A log of the chain is one of its block. *)
LEMMA ChainLogFacts ==
  ASSUME chain \in [Block -> 1..4], NEW x \in ChainLogs
  PROVE  /\ x.block \in Block /\ x.logIndex \in 0..19 /\ x.tx \in Nat /\ x \in LogUniverse
         /\ x \in BlockLogSet(chain[x.block], x.block)
         /\ \A y \in ChainLogs : y.block = x.block /\ y.logIndex = x.logIndex => y = x
  <1>1. \A y \in ChainLogs : y.block \in Block /\ y \in BlockLogSet(chain[y.block], y.block)
    <2> TAKE y \in ChainLogs
    <2>1. PICK b \in Block : y \in BlockLogSet(chain[b], b)
      BY DEF ChainLogs
    <2>2. y.block = b
      BY <2>1, BlockLogFacts
    <2> QED
      BY <2>1, <2>2
  <1>2. x.block \in Block /\ x \in BlockLogSet(chain[x.block], x.block) /\ chain[x.block] \in 1..4
    BY <1>1
  <1>3. /\ x.logIndex \in 0..19 /\ x.tx \in Nat /\ x \in LogUniverse
        /\ \A y \in BlockLogSet(chain[x.block], x.block) : y.logIndex = x.logIndex => y = x
    BY <1>2, BlockLogFacts
  <1>4. ASSUME NEW y \in ChainLogs, y.block = x.block, y.logIndex = x.logIndex PROVE y = x
    <2>1. y \in BlockLogSet(chain[y.block], y.block)
      BY <1>1
    <2>2. y \in BlockLogSet(chain[x.block], x.block)
      BY <1>4, <2>1
    <2> QED
      BY <1>3, <1>4, <2>2
  <1> QED
    BY <1>2, <1>3, <1>4

-----------------------------------------------------------------------------
(* Decoding                                                                *)

(* The time of every block *)
Times == [b \in Block |-> b]

(* What the ERC20 worker, or the Matic worker, makes of a log *)
DecodeOf(matic, l, store) ==
  IF l.topics = <<>> THEN <<>>
  ELSE IF matic THEN decodeLogTransfer(l, store) ELSE DecodeFunction(l, store)

EventFields ==
  {"blockNumber", "timestamp", "transactionHash", "logIndex", "transactionIndex", "contract",
   "from", "to", "value"}

(* A transfer that stands where its log stands, with the time of the block   *)
IsTransferOf(e, l) ==
  /\ DOMAIN e = EventFields /\ e = [field \in EventFields |-> e[field]]
  /\ e.blockNumber = l.block /\ e.timestamp = l.block
  /\ e.transactionHash = l.tx /\ e.transactionIndex = l.tx /\ e.logIndex = l.logIndex

(* The one transfer of a log, whoever it is from and to *)
LEMMA DecodedIsTransfer ==
  ASSUME NEW l, NEW store, store[l.block] = l.block, NEW from, NEW to
  PROVE  \E e : Decoded(l, store, from, to) = <<e>> /\ IsTransferOf(e, l) /\ e.contract = l.contract
  <1> DEFINE e == Extend(decodeEventBasicInfo(l, store), [from |-> from, to |-> to, value |-> l.value])
             r == decodeEventBasicInfo(l, store)
             m == [from |-> from, to |-> to, value |-> l.value]
  <1>1. /\ DOMAIN r = {"blockNumber", "timestamp", "transactionHash", "logIndex",
                       "transactionIndex", "contract"}
        /\ r.blockNumber = l.block /\ r.timestamp = store[l.block] /\ r.transactionHash = l.tx
        /\ r.transactionIndex = l.tx /\ r.logIndex = l.logIndex /\ r.contract = l.contract
    BY DEF decodeEventBasicInfo
  <1>2. DOMAIN m = {"from", "to", "value"}
    OBVIOUS
  <1>3. Decoded(l, store, from, to) = <<e>> /\ e = Extend(r, m)
    BY DEF Decoded
  <1> HIDE DEF e, r, m
  <1>4. /\ DOMAIN Extend(r, m) = EventFields
        /\ Extend(r, m) = [field \in EventFields |-> Extend(r, m)[field]]
    BY <1>1, <1>2 DEF Extend, EventFields
  <1>5. /\ Extend(r, m).blockNumber = l.block /\ Extend(r, m).timestamp = l.block
        /\ Extend(r, m).transactionHash = l.tx /\ Extend(r, m).transactionIndex = l.tx
        /\ Extend(r, m).logIndex = l.logIndex /\ Extend(r, m).contract = l.contract
    BY <1>1, <1>2 DEF Extend
  <1> QED
    BY <1>3, <1>4, <1>5 DEF IsTransferOf

(* A log gives one transfer or none. *)
LEMMA DecodeGives ==
  ASSUME NEW matic \in BOOLEAN, NEW l, NEW store, store[l.block] = l.block
  PROVE  \/ DecodeOf(matic, l, store) = <<>>
         \/ \E e : /\ DecodeOf(matic, l, store) = <<e>> /\ IsTransferOf(e, l)
                   /\ ~matic => e.contract = l.contract
  <1>1. ASSUME NEW d, d = DecodeFunction(l, store)
        PROVE  d = <<>> \/ \E from, to : d = Decoded(l, store, from, to)
    BY <1>1 DEF DecodeFunction, decodeTransferEvent, decodeBurnEvent, decodeMintEvent,
         decodeBNBFreezeEvent, decodeBNBUnfreezeEvent, decodeWETHDepositEvent,
         decodeWETHWithdrawalEvent
  <1>2. CASE ~matic
    <2>1. DecodeOf(matic, l, store) = <<>> \/ \E from, to : DecodeOf(matic, l, store) = Decoded(l, store, from, to)
      BY <1>1, <1>2 DEF DecodeOf
    <2> QED
      BY <2>1, DecodedIsTransfer
  <1>3. CASE matic
    <2> DEFINE first == Decoded(l, store, l.topics[3], l.topics[4])[1]
    <2>1. \/ DecodeOf(matic, l, store) = <<>>
          \/ DecodeOf(matic, l, store) = <<[first EXCEPT !.contract = "none"]>>
      BY <1>3 DEF DecodeOf, decodeLogTransfer
    <2>2. PICK e : Decoded(l, store, l.topics[3], l.topics[4]) = <<e>> /\ IsTransferOf(e, l)
      BY DecodedIsTransfer
    <2>3. first = e
      BY <2>2
    <2> HIDE DEF first
    <2> DEFINE d == [e EXCEPT !.contract = "none"]
    <2>4. IsTransferOf(d, l)
      BY <2>2 DEF IsTransferOf, EventFields
    <2> QED
      BY <1>3, <2>1, <2>3, <2>4
  <1> QED
    BY <1>2, <1>3

(* It depends on the store for the time of its block only. *)
LEMMA DecodeSame ==
  ASSUME NEW matic \in BOOLEAN, NEW l, NEW store, NEW other, store[l.block] = other[l.block]
  PROVE  DecodeOf(matic, l, store) = DecodeOf(matic, l, other)
  <1>1. \A from, to : Decoded(l, store, from, to) = Decoded(l, other, from, to)
    BY DEF Decoded, decodeEventBasicInfo
  <1>2. DecodeFunction(l, store) = DecodeFunction(l, other)
    BY <1>1 DEF DecodeFunction, decodeTransferEvent, decodeBurnEvent, decodeMintEvent,
         decodeBNBFreezeEvent, decodeBNBUnfreezeEvent, decodeWETHDepositEvent,
         decodeWETHWithdrawalEvent
  <1>3. decodeLogTransfer(l, store) = decodeLogTransfer(l, other)
    BY <1>1 DEF decodeLogTransfer
  <1> QED
    BY <1>2, <1>3 DEF DecodeOf

-----------------------------------------------------------------------------
(* Asking the node                                                         *)

LogsOf(contracts) == {l \in ChainLogs : contracts = {} \/ l.contract \in contracts}

LogsBetween(contracts, f, t) == {l \in LogsOf(contracts) : f <= l.block /\ l.block <= t}

(* An answer lists the logs of its blocks and contracts. *)
LEMMA LogsOfBlocksList ==
  ASSUME chain \in [Block -> 1..4], NEW contracts, NEW f \in Int, NEW t \in Int
  PROVE  Lists(LogsOfBlocks(AllLogs, f, t, contracts), LogsBetween(contracts, f, t), LogBefore)
  <1> DEFINE s == AllLogs
             Y == LogsBetween(contracts, f, t)
             places == {i \in DOMAIN s : /\ f <= s[i].block /\ s[i].block <= t
                                         /\ contracts = {} \/ s[i].contract \in contracts}
  <1>1. Lists(s, ChainLogs, LogBefore)
    BY AllLogsList
  <1>2. LogsOfBlocks(AllLogs, f, t, contracts) = ElementsAt(s, places)
    BY DEF LogsOfBlocks
  <1>3. ChainLogs \cap Y = Y
    BY DEF LogsBetween, LogsOf
  <1>4. \A k \in 1..Len(s) : k \in places <=> s[k] \in Y
    <2> HIDE DEF s
    <2>1. DOMAIN s = 1..Len(s) /\ \A k \in 1..Len(s) : s[k] \in ChainLogs
      BY <1>1 DEF Lists
    <2> QED
      BY <2>1 DEF LogsBetween, LogsOf
  <1> HIDE DEF s, Y, places
  <1>5. Lists(ElementsAt(s, places), ChainLogs \cap Y, LogBefore)
    BY <1>1, <1>4, ElementsAtLists
  <1> QED
    BY <1>2, <1>3, <1>5 DEF Y

Middle(range) == (range[1] + range[2]) \div 2

FirstHalf(range) == <<range[1], Middle(range)>>

SecondHalf(range) == <<Middle(range) + 1, range[2]>>

(* Both halves of a range are shorter. *)
LEMMA HalvesAreShorter ==
  ASSUME NEW f \in Int, NEW t \in Int, NEW range \in Ranges(f, t), range[1] # range[2]
  PROVE  /\ FirstHalf(range) \in Ranges(f, t) /\ SecondHalf(range) \in Ranges(f, t)
         /\ FirstHalf(range)[1] = range[1] /\ FirstHalf(range)[2] = Middle(range)
         /\ SecondHalf(range)[1] = Middle(range) + 1 /\ SecondHalf(range)[2] = range[2]
         /\ Middle(range) \in Int /\ range[1] <= Middle(range) /\ Middle(range) < range[2]
  <1>1. /\ range[1] \in f..t /\ range[2] \in f..t /\ range[1] < range[2]
    BY DEF Ranges
  <1>2. Middle(range) \in Int /\ range[1] <= Middle(range) /\ Middle(range) < range[2]
    <2> DEFINE a == range[1]
               b == range[2]
    <2>1. a \in Int /\ b \in Int /\ a < b
      BY <1>1
    <2> HIDE DEF a, b
    <2>2. (a + b) \div 2 \in Int /\ a <= (a + b) \div 2 /\ (a + b) \div 2 < b
      BY <2>1
    <2> QED
      BY <2>2 DEF a, b, Middle
  <1>3. Middle(range) \in f..t /\ Middle(range) + 1 \in f..t
    BY <1>1, <1>2
  <1> QED
    BY <1>1, <1>2, <1>3 DEF FirstHalf, SecondHalf, Ranges

(* One level of getRawEvents: asked is what one request gives. *)
IsSplitting(g, ranges, whole, asked) ==
  g = [range \in ranges |-> IF range \in whole THEN asked[range]
                            ELSE g[FirstHalf(range)] \o g[SecondHalf(range)]]

(* Splitting in halves comes to an end. *)
LEMMA SplittingExists ==
  ASSUME NEW f \in Int, NEW t \in Int, f <= t, NEW whole, NEW asked,
         \A range \in Ranges(f, t) : range[1] = range[2] => range \in whole
  PROVE  \E g : IsSplitting(g, Ranges(f, t), whole, asked)
  <1> DEFINE Short(d) == {range \in Ranges(f, t) : range[2] - range[1] < d}
             T == {d \in Nat : \E g : IsSplitting(g, Short(d), whole, asked)}
  <1>0. \A range \in Ranges(f, t) : /\ range[1] \in Int /\ range[2] \in Int
                                    /\ f <= range[1] /\ range[1] <= range[2] /\ range[2] <= t
    BY DEF Ranges
  <1>1. 0 \in T
    <2>1. Short(0) = {}
      BY <1>0
    <2>2. \A g : g = [range \in {} |-> IF range \in whole THEN asked[range]
                            ELSE g[FirstHalf(range)] \o g[SecondHalf(range)]]
                 <=> g = [range \in {} |-> 0]
      OBVIOUS
    <2>3. \E g : g = [range \in {} |-> IF range \in whole THEN asked[range]
                            ELSE g[FirstHalf(range)] \o g[SecondHalf(range)]]
      BY <2>2
    <2> QED
      BY <2>1, <2>3 DEF IsSplitting
  <1>2. ASSUME NEW d \in Nat, d \in T PROVE d + 1 \in T
    <2>1. PICK g : IsSplitting(g, Short(d), whole, asked)
      BY <1>2
    <2> DEFINE h == [range \in Short(d + 1) |->
                       IF range \in Short(d) THEN g[range]
                       ELSE IF range \in whole THEN asked[range]
                       ELSE g[FirstHalf(range)] \o g[SecondHalf(range)]]
    <2>2. Short(d) \subseteq Short(d + 1)
      BY <1>0
    <2>3. \A range \in Short(d) : h[range] = g[range]
      BY <2>2
    <2>4. ASSUME NEW range \in Short(d + 1), range \notin whole
          PROVE  FirstHalf(range) \in Short(d) /\ SecondHalf(range) \in Short(d)
      <3>1. range \in Ranges(f, t) /\ range[1] # range[2] /\ range[2] - range[1] < d + 1
        BY <2>4
      <3>2. /\ FirstHalf(range) \in Ranges(f, t) /\ SecondHalf(range) \in Ranges(f, t)
            /\ FirstHalf(range)[1] = range[1] /\ FirstHalf(range)[2] = Middle(range)
            /\ SecondHalf(range)[1] = Middle(range) + 1 /\ SecondHalf(range)[2] = range[2]
            /\ Middle(range) \in Int /\ range[1] <= Middle(range) /\ Middle(range) < range[2]
        BY <3>1, HalvesAreShorter
      <3>3. Middle(range) - range[1] < d /\ range[2] - (Middle(range) + 1) < d
        BY <1>0, <3>1, <3>2
      <3> QED
        BY <3>2, <3>3
    <2>5. \A range \in Short(d) : g[range] = IF range \in whole THEN asked[range]
                                            ELSE g[FirstHalf(range)] \o g[SecondHalf(range)]
      BY <2>1 DEF IsSplitting
    <2>6. \A range \in Short(d + 1) : h[range] = IF range \in whole THEN asked[range]
                                                ELSE g[FirstHalf(range)] \o g[SecondHalf(range)]
      BY <2>5
    <2>7. \A range \in Short(d + 1) : h[range] = IF range \in whole THEN asked[range]
                                                ELSE h[FirstHalf(range)] \o h[SecondHalf(range)]
      <3> HIDE DEF h
      <3> QED
        BY <2>3, <2>4, <2>6
    <2>8. h = [range \in Short(d + 1) |-> h[range]]
      OBVIOUS
    <2> HIDE DEF h, Short
    <2>9. IsSplitting(h, Short(d + 1), whole, asked)
      BY <2>7, <2>8 DEF IsSplitting
    <2> QED
      BY <2>9
  <1>3. t - f + 1 \in T
    <2> HIDE DEF T
    <2>1. \A d \in Nat : d \in T
      BY <1>1, <1>2, Induction
    <2> QED
      BY <2>1
  <1>4. Short(t - f + 1) = Ranges(f, t)
    BY <1>0
  <1> HIDE DEF Short
  <1> QED
    BY <1>3, <1>4

(* The split answers list what one answer without a limit would.            *)
LEMMA SplittingLists ==
  ASSUME chain \in [Block -> 1..4], NEW contracts, NEW f \in Int, NEW t \in Int,
         NEW whole, NEW asked, NEW g, IsSplitting(g, Ranges(f, t), whole, asked),
         \A range \in Ranges(f, t) : range[1] = range[2] => range \in whole,
         \A range \in Ranges(f, t) :
           Lists(asked[range], LogsBetween(contracts, range[1], range[2]), LogBefore)
  PROVE  \A range \in Ranges(f, t) :
           Lists(g[range], LogsBetween(contracts, range[1], range[2]), LogBefore)
  <1> DEFINE Short(d) == {range \in Ranges(f, t) : range[2] - range[1] < d}
             T == {d \in Nat : \A range \in Short(d) :
                     Lists(g[range], LogsBetween(contracts, range[1], range[2]), LogBefore)}
  <1>0. \A range \in Ranges(f, t) : /\ range[1] \in Int /\ range[2] \in Int
                                    /\ f <= range[1] /\ range[1] <= range[2] /\ range[2] <= t
    BY DEF Ranges
  <1>1. 0 \in T
    <2>1. Short(0) = {}
      BY <1>0
    <2> QED
      BY <2>1
  <1>2. ASSUME NEW d \in Nat, d \in T PROVE d + 1 \in T
    <2> SUFFICES ASSUME NEW range \in Short(d + 1)
                 PROVE  Lists(g[range], LogsBetween(contracts, range[1], range[2]), LogBefore)
      OBVIOUS
    <2>1. CASE range \in whole
      <3>1. g[range] = asked[range]
        BY <2>1 DEF IsSplitting
      <3> QED
        BY <3>1
    <2>2. CASE range \notin whole
      <3> DEFINE first == FirstHalf(range)
                 second == SecondHalf(range)
                 X == LogsBetween(contracts, range[1], Middle(range))
                 Y == LogsBetween(contracts, Middle(range) + 1, range[2])
      <3>1. range \in Ranges(f, t) /\ range[1] # range[2] /\ range[2] - range[1] < d + 1
        BY <2>2
      <3>2. /\ first \in Ranges(f, t) /\ second \in Ranges(f, t)
            /\ first[1] = range[1] /\ first[2] = Middle(range)
            /\ second[1] = Middle(range) + 1 /\ second[2] = range[2]
            /\ Middle(range) \in Int /\ range[1] <= Middle(range) /\ Middle(range) < range[2]
        BY <3>1, HalvesAreShorter
      <3>3. Middle(range) - range[1] < d /\ range[2] - (Middle(range) + 1) < d
        BY <1>0, <3>1, <3>2
      <3>4. first \in Short(d) /\ second \in Short(d)
        BY <3>2, <3>3
      <3>5. Lists(g[first], X, LogBefore) /\ Lists(g[second], Y, LogBefore)
        BY <1>2, <3>2, <3>4
      <3>6. g[range] = g[first] \o g[second]
        BY <2>2 DEF IsSplitting
      <3>7. \A l \in ChainLogs : l.block \in Int /\ l \in LogUniverse
        <4> TAKE l \in ChainLogs
        <4>1. l.block \in Block /\ l \in LogUniverse
          BY ChainLogFacts
        <4> QED
          BY <4>1 DEF Block
      <3>8. \A x \in X, y \in Y : <<x, y>> \in LogBefore
        <4> TAKE x \in X, y \in Y
        <4>1. /\ x \in ChainLogs /\ y \in ChainLogs
              /\ x.block <= Middle(range) /\ Middle(range) + 1 <= y.block
          BY DEF LogsBetween, LogsOf
        <4>2. x.block < y.block /\ x \in LogUniverse /\ y \in LogUniverse
          BY <3>2, <3>7, <4>1
        <4> QED
          BY <4>2 DEF LogBefore
      <3>9. LogsBetween(contracts, range[1], range[2]) = X \cup Y
        <4>1. range[1] \in Int /\ range[2] \in Int
          BY <1>0, <3>1
        <4>2. ASSUME NEW l \in ChainLogs
              PROVE  (range[1] <= l.block /\ l.block <= range[2])
                       <=> \/ (range[1] <= l.block /\ l.block <= Middle(range))
                           \/ (Middle(range) + 1 <= l.block /\ l.block <= range[2])
          BY <3>2, <3>7, <4>1
        <4> QED
          BY <4>2 DEF LogsBetween, LogsOf
      <3> HIDE DEF first, second, X, Y
      <3>10. Lists(g[first] \o g[second], X \cup Y, LogBefore)
        BY <3>5, <3>8, AppendLists
      <3> QED
        BY <3>6, <3>9, <3>10
    <2> QED
      BY <2>1, <2>2
  <1>3. \A d \in Nat : d \in T
    <2> HIDE DEF T
    <2> QED
      BY <1>1, <1>2, Induction
  <1> SUFFICES ASSUME NEW range \in Ranges(f, t)
               PROVE  Lists(g[range], LogsBetween(contracts, range[1], range[2]), LogBefore)
    OBVIOUS
  <1>4. range \in Short(range[2] - range[1] + 1) /\ range[2] - range[1] + 1 \in Nat
    BY <1>0
  <1> QED
    BY <1>3, <1>4

(* However often a request is split, no log is lost or repeated. *)
LEMMA RawEventsList ==
  ASSUME chain \in [Block -> 1..4], NEW contracts, NEW f \in Int, NEW t \in Int, f <= t
  PROVE  Lists(getRawEvents(AllLogs, f, t, contracts), LogsBetween(contracts, f, t), LogBefore)
  <1> DEFINE Body(raw) == raw = [range \in Ranges(f, t) |->
               IF Len(LogsOfBlocks(AllLogs, range[1], range[2], contracts)) <= LogsLimit
               THEN LogsOfBlocks(AllLogs, range[1], range[2], contracts)
               ELSE IF range[1] = range[2]
               THEN getRawEventsFromReceipts(AllLogs, range[1], contracts)
               ELSE raw[<<range[1], (range[1] + range[2]) \div 2>>]
                      \o raw[<<(range[1] + range[2]) \div 2 + 1, range[2]>>]]
             asked == [range \in Ranges(f, t) |-> LogsOfBlocks(AllLogs, range[1], range[2], contracts)]
             whole == {range \in Ranges(f, t) : Len(asked[range]) <= LogsLimit \/ range[1] = range[2]}
  <1>1. \A range \in Ranges(f, t) : range[1] = range[2] => range \in whole
    OBVIOUS
  <1>2. \A range \in Ranges(f, t) :
          range[1] = range[2] =>
            getRawEventsFromReceipts(AllLogs, range[1], contracts) = asked[range]
    BY DEF getRawEventsFromReceipts
  <1>3. \A raw : Body(raw) <=> IsSplitting(raw, Ranges(f, t), whole, asked)
    <2> TAKE raw
    <2> DEFINE one == [range \in Ranges(f, t) |->
               IF Len(LogsOfBlocks(AllLogs, range[1], range[2], contracts)) <= LogsLimit
               THEN LogsOfBlocks(AllLogs, range[1], range[2], contracts)
               ELSE IF range[1] = range[2]
               THEN getRawEventsFromReceipts(AllLogs, range[1], contracts)
               ELSE raw[<<range[1], (range[1] + range[2]) \div 2>>]
                      \o raw[<<(range[1] + range[2]) \div 2 + 1, range[2]>>]]
               other == [range \in Ranges(f, t) |-> IF range \in whole THEN asked[range]
                            ELSE raw[FirstHalf(range)] \o raw[SecondHalf(range)]]
    <2>1. \A range \in Ranges(f, t) : one[range] = other[range]
      BY <1>2 DEF FirstHalf, SecondHalf, Middle
    <2>2. one = other
      BY <2>1
    <2> QED
      BY <2>2 DEF IsSplitting
  <1>4. \E raw : IsSplitting(raw, Ranges(f, t), whole, asked)
    <2> HIDE DEF whole, asked
    <2> QED
      BY <1>1, SplittingExists
  <1>5. \E raw : Body(raw)
    BY <1>3, <1>4
  <1>6. PICK raw : Body(raw) /\ getRawEvents(AllLogs, f, t, contracts) = raw[<<f, t>>]
    BY <1>5 DEF getRawEvents
  <1>7. \A range \in Ranges(f, t) :
          Lists(asked[range], LogsBetween(contracts, range[1], range[2]), LogBefore)
    <2> TAKE range \in Ranges(f, t)
    <2>1. range[1] \in Int /\ range[2] \in Int
      BY DEF Ranges
    <2> QED
      BY <2>1, LogsOfBlocksList
  <1>8. \A range \in Ranges(f, t) :
          Lists(raw[range], LogsBetween(contracts, range[1], range[2]), LogBefore)
    <2>1. IsSplitting(raw, Ranges(f, t), whole, asked)
      BY <1>3, <1>6
    <2> HIDE DEF whole, asked, Body
    <2> QED
      BY <1>1, <1>7, <2>1, SplittingLists
  <1>9. <<f, t>> \in Ranges(f, t)
    BY DEF Ranges
  <1> QED
    BY <1>6, <1>8, <1>9

-----------------------------------------------------------------------------
(* The transfers of the chain                                              *)

(* What a log becomes *)
Parsed(matic) == [l \in LogUniverse |-> ToSet(DecodeOf(matic, l, Times))]

EventUniverse == UNION {Parsed(matic)[l] : matic \in BOOLEAN, l \in LogUniverse}

EventBefore ==
  {pair \in EventUniverse \X EventUniverse :
     \/ pair[1].blockNumber < pair[2].blockNumber
     \/ pair[1].blockNumber = pair[2].blockNumber /\ pair[1].logIndex < pair[2].logIndex}

EventsOf(matic, contracts) == UNION {Parsed(matic)[l] : l \in LogsOf(contracts)}

Between(E, f, t) == {e \in E : f <= e.blockNumber /\ e.blockNumber <= t}

(* What the logs a chain may have look like *)
LEMMA UniverseFacts ==
  ASSUME NEW l \in LogUniverse
  PROVE  l.block \in Block /\ l.logIndex \in 0..19 /\ l.tx \in Nat
  <1>1. PICK c \in 1..4, b \in Block : l \in BlockLogSet(c, b)
    BY DEF LogUniverse
  <1> QED
    BY <1>1, BlockLogFacts

(* One transfer at most, with the place of its log *)
LEMMA ParsedFacts ==
  ASSUME NEW matic \in BOOLEAN, NEW l \in LogUniverse, NEW e \in Parsed(matic)[l]
  PROVE  /\ IsTransferOf(e, l) /\ e \in EventUniverse
         /\ Parsed(matic)[l] = {e}
         /\ ~matic => e.contract = l.contract
  <1>1. Times[l.block] = l.block
    BY UniverseFacts DEF Times
  <1>2. Parsed(matic)[l] = ToSet(DecodeOf(matic, l, Times))
    BY DEF Parsed
  <1>3. \/ DecodeOf(matic, l, Times) = <<>>
        \/ \E d : /\ DecodeOf(matic, l, Times) = <<d>> /\ IsTransferOf(d, l)
                  /\ ~matic => d.contract = l.contract
    BY <1>1, DecodeGives
  <1>4. DecodeOf(matic, l, Times) # <<>>
    BY <1>2 DEF ToSet
  <1>5. PICK d : /\ DecodeOf(matic, l, Times) = <<d>> /\ IsTransferOf(d, l)
                 /\ ~matic => d.contract = l.contract
    BY <1>3, <1>4
  <1>6. ToSet(<<d>>) = {d}
    BY DEF ToSet
  <1>7. e \in EventUniverse
    BY DEF EventUniverse
  <1> QED
    BY <1>2, <1>5, <1>6, <1>7

(* Decoding lists the transfers of the logs. *)
LEMMA DecodedList ==
  ASSUME chain \in [Block -> 1..4], NEW matic \in BOOLEAN, NEW contracts, NEW f \in Int, NEW t \in Int,
         NEW store, \A b \in Block : f <= b /\ b <= t => store[b] = b,
         NEW s, Lists(s, LogsBetween(contracts, f, t), LogBefore)
  PROVE  Lists(FlattenSeq([i \in 1..Len(s) |-> DecodeOf(matic, s[i], store)]),
               Between(EventsOf(matic, contracts), f, t), EventBefore)
  <1> DEFINE X == LogsBetween(contracts, f, t)
             P == Parsed(matic)
             ss == [i \in 1..Len(s) |-> DecodeOf(matic, s[i], store)]
  <1>0. \A l \in X : /\ l \in LogUniverse /\ l.block \in Block /\ f <= l.block /\ l.block <= t
                     /\ l \in LogsOf(contracts)
    <2> TAKE l \in X
    <2>1. l \in ChainLogs /\ f <= l.block /\ l.block <= t /\ l \in LogsOf(contracts)
      BY DEF LogsBetween, LogsOf
    <2>2. l \in LogUniverse /\ l.block \in Block
      BY <2>1, ChainLogFacts
    <2> QED
      BY <2>1, <2>2
  <1>1. \A l \in X : DecodeOf(matic, l, store) = DecodeOf(matic, l, Times)
    <2> TAKE l \in X
    <2>1. store[l.block] = Times[l.block]
      BY <1>0 DEF Times
    <2> QED
      BY <2>1, DecodeSame
  <1>2. \A i \in 1..Len(s) : s[i] \in X
    BY DEF Lists
  <1>3. \A l \in X : Lists(DecodeOf(matic, l, Times), P[l], EventBefore)
    <2> TAKE l \in X
    <2>1. Times[l.block] = l.block
      BY <1>0 DEF Times
    <2>2. P[l] = ToSet(DecodeOf(matic, l, Times))
      BY <1>0 DEF Parsed
    <2>3. CASE DecodeOf(matic, l, Times) = <<>>
      <3>1. P[l] = {}
        BY <2>2, <2>3 DEF ToSet
      <3> QED
        BY <2>3, <3>1, ListsNone
    <2>4. CASE \E d : DecodeOf(matic, l, Times) = <<d>>
      <3>1. PICK d : DecodeOf(matic, l, Times) = <<d>>
        BY <2>4
      <3>2. P[l] = {d}
        BY <2>2, <3>1 DEF ToSet
      <3> QED
        BY <3>1, <3>2, ListsOne
    <2> QED
      BY <2>1, <2>3, <2>4, DecodeGives
  <1>4. \A i \in 1..Len(s) : Lists(ss[i], P[s[i]], EventBefore)
    BY <1>1, <1>2, <1>3
  <1>5. \A x, y \in X : <<x, y>> \in LogBefore =>
          \A u \in P[x], v \in P[y] : <<u, v>> \in EventBefore
    <2> SUFFICES ASSUME NEW x \in X, NEW y \in X, <<x, y>> \in LogBefore,
                        NEW u \in P[x], NEW v \in P[y]
                 PROVE  <<u, v>> \in EventBefore
      OBVIOUS
    <2>1. x \in LogUniverse /\ y \in LogUniverse
      BY <1>0
    <2>2. /\ u \in EventUniverse /\ u.blockNumber = x.block /\ u.logIndex = x.logIndex
          /\ v \in EventUniverse /\ v.blockNumber = y.block /\ v.logIndex = y.logIndex
      BY <2>1, ParsedFacts DEF IsTransferOf
    <2>3. x.block < y.block \/ (x.block = y.block /\ x.logIndex < y.logIndex)
      BY DEF LogBefore
    <2> QED
      BY <2>2, <2>3 DEF EventBefore
  <1>6. ss = [i \in 1..Len(s) |-> ss[i]]
    OBVIOUS
  <1>7. \A u : u \in Between(EventsOf(matic, contracts), f, t) <=> \E l \in X : u \in P[l]
    <2>1. ASSUME NEW l \in X, NEW e \in P[l] PROVE e \in Between(EventsOf(matic, contracts), f, t)
      <3>1. e.blockNumber = l.block
        BY <1>0, ParsedFacts DEF IsTransferOf
      <3> QED
        BY <1>0, <3>1 DEF Between, EventsOf
    <2>2. ASSUME NEW e \in Between(EventsOf(matic, contracts), f, t) PROVE \E l \in X : e \in P[l]
      <3>1. f <= e.blockNumber /\ e.blockNumber <= t
        BY DEF Between
      <3>2. PICK l \in LogsOf(contracts) : e \in P[l]
        BY DEF Between, EventsOf
      <3>3. l \in LogUniverse
        BY ChainLogFacts DEF LogsOf
      <3>4. e.blockNumber = l.block
        BY <3>2, <3>3, ParsedFacts DEF IsTransferOf
      <3> QED
        BY <3>1, <3>2, <3>4 DEF LogsBetween
    <2> QED
      BY <2>1, <2>2
  <1> HIDE DEF ss, P, X
  <1>8. Lists(s, X, LogBefore)
    BY DEF X
  <1>9. Lists(FlattenSeq(ss), Between(EventsOf(matic, contracts), f, t), EventBefore)
    BY <1>4, <1>5, <1>6, <1>7, <1>8, FlattenMapLists
  <1> QED
    BY <1>9 DEF ss

(* The transfers of the same transaction *)
Together(e, E) == {d \in E : d.transactionHash = e.transactionHash /\ d.blockNumber = e.blockNumber}

KeptOf(E) == {e \in E : ~ReportedAgain(e, Together(e, E))}

(* What is reported twice can be seen from the blocks of a batch. *)
LEMMA FilteredList ==
  ASSUME NEW E, NEW f, NEW t, NEW s, Lists(s, Between(E, f, t), EventBefore)
  PROVE  Lists(filterEvents(s), Between(KeptOf(E), f, t), EventBefore)
  <1> DEFINE X == Between(E, f, t)
             places == {i \in DOMAIN s : ~ReportedAgain(s[i], getEventsByTransaction(s, i))}
  <1>1. /\ DOMAIN s = 1..Len(s) /\ \A i \in 1..Len(s) : s[i] \in X
        /\ \A x \in X : \E p \in 1..Len(s) : s[p] = x
    BY DEF Lists
  <1>2. ASSUME NEW i \in 1..Len(s) PROVE getEventsByTransaction(s, i) = Together(s[i], E)
    <2>1. s[i] \in X
      BY <1>1
    <2>2. \A d \in E : d.blockNumber = s[i].blockNumber => d \in X
      BY <2>1 DEF Between
    <2>3. X \subseteq E
      BY DEF Between
    <2> HIDE DEF X
    <2>4. getEventsByTransaction(s, i)
            = {d \in X : d.transactionHash = s[i].transactionHash
                         /\ d.blockNumber = s[i].blockNumber}
      BY <1>1 DEF getEventsByTransaction
    <2> QED
      BY <2>2, <2>3, <2>4 DEF Together
  <1>3. \A i \in 1..Len(s) : i \in places <=> s[i] \in KeptOf(E)
    <2> TAKE i \in 1..Len(s)
    <2>1. s[i] \in E
      BY <1>1 DEF Between
    <2>2. i \in places <=> ~ReportedAgain(s[i], getEventsByTransaction(s, i))
      BY <1>1
    <2>3. s[i] \in KeptOf(E) <=> ~ReportedAgain(s[i], Together(s[i], E))
      BY <2>1 DEF KeptOf
    <2> QED
      BY <1>2, <2>2, <2>3
  <1>4. Between(KeptOf(E), f, t) = X \cap KeptOf(E)
    BY DEF Between, KeptOf
  <1>5. filterEvents(s) = ElementsAt(s, places)
    BY DEF filterEvents
  <1> HIDE DEF places, X
  <1>6. Lists(ElementsAt(s, places), X \cap KeptOf(E), EventBefore)
    <2>1. Lists(s, X, EventBefore)
      BY DEF X
    <2> QED
      BY <1>3, <2>1, ElementsAtLists
  <1> QED
    BY <1>4, <1>5, <1>6

-----------------------------------------------------------------------------
(* What is fetched of the chain                                            *)

(* Where a transfer comes from *)
LEMMA EventFacts ==
  ASSUME chain \in [Block -> 1..4], NEW matic \in BOOLEAN, NEW contracts,
         NEW e \in EventsOf(matic, contracts)
  PROVE  \E l \in LogsOf(contracts) :
           /\ e \in Parsed(matic)[l] /\ l \in ChainLogs /\ l \in LogUniverse
           /\ IsTransferOf(e, l) /\ e \in EventUniverse
           /\ e.blockNumber \in Block /\ e.logIndex \in 0..19 /\ e.transactionIndex \in Nat
           /\ ~matic => e.contract = l.contract
  <1>1. PICK l \in LogsOf(contracts) : e \in Parsed(matic)[l]
    BY DEF EventsOf
  <1>2. l \in ChainLogs
    BY DEF LogsOf
  <1>3. l.block \in Block /\ l.logIndex \in 0..19 /\ l.tx \in Nat /\ l \in LogUniverse
    BY <1>2, ChainLogFacts
  <1>4. IsTransferOf(e, l) /\ e \in EventUniverse /\ (~matic => e.contract = l.contract)
    BY <1>1, <1>3, ParsedFacts
  <1>5. e.blockNumber = l.block /\ e.logIndex = l.logIndex /\ e.transactionIndex = l.tx
    BY <1>4 DEF IsTransferOf
  <1> QED
    BY <1>1, <1>2, <1>3, <1>4, <1>5

(* The block and the index tell the transfers of a chain apart. *)
LEMMA EventsApart ==
  ASSUME chain \in [Block -> 1..4], NEW matic \in BOOLEAN, NEW C, NEW D,
         NEW e \in EventsOf(matic, C), NEW d \in EventsOf(matic, D),
         e.blockNumber = d.blockNumber, e.logIndex = d.logIndex
  PROVE  e = d /\ LogsOf(C) \cap LogsOf(D) # {}
  <1>1. PICK l \in LogsOf(C) : /\ e \in Parsed(matic)[l] /\ l \in ChainLogs /\ l \in LogUniverse
                               /\ IsTransferOf(e, l) /\ (~matic => e.contract = l.contract)
    BY EventFacts
  <1>2. PICK k \in LogsOf(D) : /\ d \in Parsed(matic)[k] /\ k \in ChainLogs /\ k \in LogUniverse
                               /\ IsTransferOf(d, k)
    BY EventFacts
  <1>3. l.block = k.block /\ l.logIndex = k.logIndex
    BY <1>1, <1>2 DEF IsTransferOf
  <1>4. l = k
    BY <1>1, <1>2, <1>3, ChainLogFacts
  <1>5. Parsed(matic)[l] = {e} /\ d \in Parsed(matic)[l]
    BY <1>1, <1>2, <1>4, ParsedFacts
  <1> QED
    BY <1>1, <1>2, <1>4, <1>5

(* So two transfers of the same contracts are one. *)
LEMMA SameEvent ==
  ASSUME chain \in [Block -> 1..4], NEW matic \in BOOLEAN, NEW C,
         NEW e \in EventsOf(matic, C), NEW d \in EventsOf(matic, C),
         e.blockNumber = d.blockNumber, e.logIndex = d.logIndex
  PROVE  e = d
  BY EventsApart

(* The transfers that are kept *)
Kept(contracts) == KeptOf(EventsOf(FALSE, contracts))

(* The store has the times of an interval. *)
HasTimes(store, f, t) == \A b \in Block : f <= b /\ b <= t => store[b] = b

(* What is left of the transfers that the logs of an interval give *)
LEMMA FilteredEventsList ==
  ASSUME chain \in [Block -> 1..4], NEW contracts, NEW f \in Int, NEW t \in Int, f <= t,
         NEW store, HasTimes(store, f, t)
  PROVE  Lists(filterEvents(decodeEvents(getRawEvents(AllLogs, f, t, contracts), store)),
               Between(Kept(contracts), f, t), EventBefore)
  <1> DEFINE s == getRawEvents(AllLogs, f, t, contracts)
             E == EventsOf(FALSE, contracts)
  <1>1. Lists(s, LogsBetween(contracts, f, t), LogBefore)
    BY RawEventsList
  <1> HIDE DEF s
  <1>2. decodeEvents(s, store) = FlattenSeq([i \in 1..Len(s) |-> DecodeOf(FALSE, s[i], store)])
    BY DEF decodeEvents, DecodeOf
  <1>3. Lists(decodeEvents(s, store), Between(E, f, t), EventBefore)
    BY <1>1, <1>2, DecodedList DEF HasTimes
  <1> HIDE DEF E
  <1>4. Lists(filterEvents(decodeEvents(s, store)), Between(KeptOf(E), f, t), EventBefore)
    BY <1>3, FilteredList
  <1> QED
    BY <1>4 DEF s, E, Kept

(* The transfers of the presale *)
PresaleEvents ==
  {CustomTransfer(from, to, value, k) :
     from \in {MINT_ADDRESS, "a"}, to \in {"a", BURN_ADDRESS}, value \in {2, 7}, k \in Nat}

(* One request: nothing but transfers of the chain and of the presale; all   *)
(* of its blocks, and no presale, when the contracts do not have SAN.        *)
LEMMA PastEventsList ==
  ASSUME chain \in [Block -> 1..4], NEW contracts, NEW f \in Int, NEW t \in Int, f <= t,
         NEW store, HasTimes(store, f, t)
  PROVE  LET r == getPastEvents(AllLogs, f, t, contracts, store)
         IN  /\ "SAN" \notin contracts => Lists(r, Between(Kept(contracts), f, t), EventBefore)
             /\ r \in Seq(Kept(contracts) \cup PresaleEvents)
  <1> DEFINE s == filterEvents(decodeEvents(getRawEvents(AllLogs, f, t, contracts), store))
             r == getPastEvents(AllLogs, f, t, contracts, store)
             X == Between(Kept(contracts), f, t)
             S == Kept(contracts) \cup PresaleEvents
             reached == getLastRealLogIndexForBlock(s, CustomBlock)
             first == CustomTransfer(MINT_ADDRESS, "a", 7, reached + 1)
             second == CustomTransfer("a", BURN_ADDRESS, 2, reached + 2)
  <1>1. Lists(s, X, EventBefore)
    BY FilteredEventsList
  <1>2. r = addCustomTokenDistribution(s, f, t, contracts)
    BY DEF getPastEvents
  <1>3. s \in Seq(X) /\ X \subseteq S
    BY <1>1 DEF Lists, Between
  <1>4. reached \in Nat
    <2> DEFINE I == {0} \cup {s[i].logIndex : i \in {j \in DOMAIN s : s[j].blockNumber = CustomBlock}}
    <2>1. reached = Max(I)
      BY DEF getLastRealLogIndexForBlock
    <2>2. \A e \in X : e.logIndex \in 0..19
      BY EventFacts DEF Between, Kept, KeptOf
    <2>3. \A i \in DOMAIN s : s[i] \in X
      <3> HIDE DEF s, X
      <3> QED
        BY <1>3
    <2>4. 0 \in I /\ I \subseteq 0..19
      BY <2>2, <2>3
    <2> HIDE DEF I, reached
    <2>5. I \subseteq Int /\ 19 \in Int /\ \A y \in I : y <= 19
      BY <2>4
    <2>6. reached \in I
      BY <2>1, <2>4, <2>5, MaxExists
    <2> QED
      BY <2>4, <2>6
  <1>5. CASE "SAN" \notin contracts
    <2>1. r = s
      BY <1>2, <1>5 DEF addCustomTokenDistribution
    <2> HIDE DEF s, X, S, r
    <2>2. r \in Seq(S) /\ Lists(r, X, EventBefore)
      BY <1>1, <1>3, <2>1
    <2> QED
      BY <2>2 DEF r, S, X
  <1>6. CASE "SAN" \in contracts
    <2>1. r = s \/ r = s \o <<first, second>>
      BY <1>2 DEF addCustomTokenDistribution, addTransfers
    <2>2. first \in S /\ second \in S
      <3>1. reached + 1 \in Nat /\ reached + 2 \in Nat
        BY <1>4
      <3> HIDE DEF reached
      <3> QED
        BY <3>1 DEF PresaleEvents
    <2> HIDE DEF s, X, S, r, first, second
    <2>3. s \in Seq(S) /\ <<first, second>> \in Seq(S)
      BY <1>3, <2>2
    <2>4. r \in Seq(S)
      <3> DEFINE two == <<first, second>>
      <3>1. two \in Seq(S) /\ (r = s \/ r = s \o two)
        BY <2>1, <2>3
      <3> HIDE DEF two
      <3>2. \A x, y \in Seq(S) : x \o y \in Seq(S)
        OBVIOUS
      <3> QED
        BY ONLY <2>3, <3>1, <3>2, Zenon
    <2> QED
      BY <1>6, <2>4 DEF r, S
  <1> QED
    BY <1>5, <1>6

(* The chunks of an interval, one after the other *)
ChunkBefore(C) == {pair \in C \X C : pair[1].to < pair[2].from}

IsChunks(s, C) ==
  /\ Len(s) \in Nat /\ Lists(s, C, ChunkBefore(C))
  /\ \A i \in 1..Len(s) : s[i] \in C

(* The chunks of an interval cover it without overlap, and sorting lists them *)
(* from the first on.                                                        *)
LEMMA ChunksList ==
  ASSUME NEW f \in Int, NEW t \in Int, NEW C, C = ParallelChunks(f, t, Concurrency)
  PROVE  /\ IsChunks(stableSort(SetToSeq(C), chunkOrder), C)
         /\ \A c \in C : c.from \in f..t /\ c.to \in c.from..t
         /\ \A b \in f..t : \E c \in C : b \in c.from..c.to
  <1>1. /\ IsFiniteSet(C)
        /\ \A c \in C : c.from \in f..t /\ c.to \in c.from..t
        /\ \A c, d \in C : \A b \in Int : b \in c.from..c.to /\ b \in d.from..d.to => c = d
        /\ \A b \in f..t : \E c \in C : b \in c.from..c.to
    <2>1. Concurrency \in Nat \ {0}
      BY TokenEventsAssumption
    <2>2. IsFiniteSet(C) /\ Partition(C, f, t)
      BY <2>1, ChunksPartition
    <2> QED
      BY <2>2 DEF Partition
  <1> DEFINE s == SetToSeq(C)
             n == Len(s)
             r == stableSort(s, chunkOrder)
             L == {pair \in (1..n) \X (1..n) : s[pair[1]].from < s[pair[2]].from}
             place == [k \in 1..n |-> 1 + Cardinality({j \in 1..n :
                         <<j, k>> \in L \/ (<<k, j>> \notin L /\ j < k)})]
             given == [k \in 1..n |-> 1 + Cardinality({j \in 1..n :
                         chunkOrder(s[j], s[k]) \/ (~chunkOrder(s[k], s[j]) /\ j < k)})]
  <1>2. /\ s \in Seq(C) /\ n \in Nat
        /\ \A c \in C : \E p \in 1..n : s[p] = c
        /\ \A p, q \in 1..n : s[p] = s[q] => p = q
    <2>1. s = SetToSeq(C) /\ n = Len(s)
      OBVIOUS
    <2> HIDE DEF s, n
    <2>2. s \in Seq(C) /\ Len(s) = Cardinality(C) /\ Cardinality(C) \in Nat
      BY <1>1, <2>1, SetToSeqOnce
    <2>3. /\ \A c \in C : \E p \in 1..Len(s) : s[p] = c
          /\ \A p, q \in 1..Len(s) : s[p] = s[q] => p = q
      BY <1>1, <2>1, SetToSeqOnce
    <2> QED
      BY <2>1, <2>2, <2>3, Zenon
  <1>3. \A k \in 1..n : s[k] \in C
    <2> HIDE DEF s
    <2> QED
      BY <1>2
  <1>4. r = [i \in 1..n |-> s[CHOOSE k \in 1..n : given[k] = i]]
    BY DEF stableSort
  <1>5. \A j, k \in 1..n : <<j, k>> \in L <=> s[j].from < s[k].from
    OBVIOUS
  <1>6. given = place
    <2>1. \A k \in 1..n : {j \in 1..n : chunkOrder(s[j], s[k]) \/ (~chunkOrder(s[k], s[j]) /\ j < k)}
                          = {j \in 1..n : <<j, k>> \in L \/ (<<k, j>> \notin L /\ j < k)}
      <3> HIDE DEF s, L, n
      <3> QED
        BY <1>5 DEF chunkOrder
    <2> HIDE DEF s, L, n
    <2> QED
      BY <2>1
  <1>7. n = Len(s) /\ place = [k \in 1..n |-> 1 + Cardinality({j \in 1..n :
                         <<j, k>> \in L \/ (<<k, j>> \notin L /\ j < k)})]
    OBVIOUS
  <1> HIDE DEF s, n, r, L, place, given
  <1>8. \A k \in 1..n : s[k].from \in Int /\ s[k].to \in Int /\ s[k].from <= s[k].to
    BY <1>1, <1>3
  <1>9. IsComparison(L, n)
    BY <1>5, <1>8 DEF IsComparison
  <1>10. ByPlaces(r, s, place)
    BY <1>4, <1>6, <1>7 DEF ByPlaces
  <1>11. IsSorting(r, s, StableOrder(L, n))
    BY <1>2, <1>7, <1>9, <1>10, StableSorting
  <1>12. ASSUME NEW j \in 1..n, NEW k \in 1..n, j # k, <<k, j>> \notin L
         PROVE  <<s[j], s[k]>> \in ChunkBefore(C)
    <2>1. ~(s[k].from < s[j].from)
      BY <1>5, <1>12
    <2>2. s[j] # s[k]
      BY <1>2, <1>12
    <2>3. s[j] \in C /\ s[k] \in C
      BY <1>3
    <2>4. s[j].to < s[k].from
      <3>1. SUFFICES ASSUME s[k].from <= s[j].to PROVE FALSE
        BY <1>8
      <3>2. s[k].from \in s[j].from..s[j].to /\ s[k].from \in s[k].from..s[k].to
        BY <1>8, <2>1, <3>1
      <3>3. s[k].from \in Int
        BY <1>8
      <3> QED
        BY <1>1, <2>2, <2>3, <3>2, <3>3, Zenon
    <2> QED
      BY <2>3, <2>4 DEF ChunkBefore
  <1>13. Lists(r, C, ChunkBefore(C))
    BY <1>2, <1>7, <1>9, <1>11, <1>12, SortedLists
  <1>14. Len(r) \in Nat /\ \A i \in 1..Len(r) : r[i] \in C
    BY <1>13 DEF Lists
  <1> QED
    BY <1>1, <1>13, <1>14 DEF IsChunks, r, s

(* All the requests: nothing but transfers of the chain and of the presale;  *)
(* all of the interval, in order, when the contracts do not have SAN.        *)
LEMMA FetchedList ==
  ASSUME chain \in [Block -> 1..4], NEW contracts, NEW f \in Int, NEW t \in Int,
         NEW store, HasTimes(store, f, t),
         NEW r, r = fetchPastEvents(AllLogs, f, t, contracts, store)
  PROVE  /\ "SAN" \notin contracts => Lists(r, Between(Kept(contracts), f, t), EventBefore)
         /\ r \in Seq(Kept(contracts) \cup PresaleEvents)
  <1> DEFINE C == ParallelChunks(f, t, Concurrency)
             s == stableSort(SetToSeq(C), chunkOrder)
             n == Len(s)
             S == Kept(contracts) \cup PresaleEvents
             ss == [i \in 1..n |-> getPastEvents(AllLogs, s[i].from, s[i].to, contracts, store)]
             X == [i \in 1..n |-> Between(Kept(contracts), s[i].from, s[i].to)]
  <1>1. /\ IsChunks(s, C)
        /\ \A c \in C : c.from \in f..t /\ c.to \in c.from..t
        /\ \A b \in f..t : \E c \in C : b \in c.from..c.to
    BY ChunksList
  <1>2. r = FlattenSeq(ss)
    BY DEF fetchPastEvents
  <1> HIDE DEF C, s
  <1>3. /\ n \in Nat /\ \A i \in 1..n : s[i] \in C
        /\ \A c \in C : \E i \in 1..n : s[i] = c
        /\ \A i, j \in 1..n : i < j => <<s[i], s[j]>> \in ChunkBefore(C)
    BY <1>1 DEF IsChunks, Lists
  <1> HIDE DEF n
  <1>4. \A i \in 1..n : /\ s[i].from \in Int /\ s[i].to \in Int /\ s[i].from <= s[i].to
                        /\ f <= s[i].from /\ s[i].to <= t
    <2> TAKE i \in 1..n
    <2>1. s[i].from \in f..t /\ s[i].to \in s[i].from..t
      BY <1>1, <1>3
    <2> QED
      BY <2>1
  <1>5. ASSUME NEW i \in 1..n
        PROVE  /\ "SAN" \notin contracts => Lists(ss[i], X[i], EventBefore)
               /\ ss[i] \in Seq(S)
    <2>1. HasTimes(store, s[i].from, s[i].to)
      <3>1. \A b \in Block : b \in Int
        BY DEF Block
      <3> QED
        BY <1>4, <3>1 DEF HasTimes
    <2> DEFINE one == getPastEvents(AllLogs, s[i].from, s[i].to, contracts, store)
    <2>2. /\ "SAN" \notin contracts =>
               Lists(one, Between(Kept(contracts), s[i].from, s[i].to), EventBefore)
          /\ one \in Seq(S)
      BY <1>4, <2>1, PastEventsList
    <2>3. ss[i] = one /\ X[i] = Between(Kept(contracts), s[i].from, s[i].to)
      OBVIOUS
    <2> QED
      BY <2>2, <2>3
  <1>6. ss = [i \in 1..n |-> ss[i]]
    OBVIOUS
  <1>7. \A i \in 1..n : X[i] = Between(Kept(contracts), s[i].from, s[i].to)
    OBVIOUS
  <1> HIDE DEF ss, X, S
  <1>8. r \in Seq(S)
    <2>1. ss \in Seq(Seq(S))
      BY <1>3, <1>5, <1>6
    <2> QED
      BY <1>2, <2>1, FlattenMembers
  <1>9. ASSUME "SAN" \notin contracts PROVE Lists(r, Between(Kept(contracts), f, t), EventBefore)
    <2>1. \A i \in 1..n : Lists(ss[i], X[i], EventBefore)
      BY <1>5, <1>9
    <2>2. \A e \in Kept(contracts) : e.blockNumber \in Int /\ e \in EventUniverse
      <3> TAKE e \in Kept(contracts)
      <3>1. e.blockNumber \in Block /\ e \in EventUniverse
        BY EventFacts DEF Kept, KeptOf
      <3> QED
        BY <3>1 DEF Block
    <2>3. \A i, j \in 1..n : i < j => \A x \in X[i], y \in X[j] : <<x, y>> \in EventBefore
      <3> SUFFICES ASSUME NEW i \in 1..n, NEW j \in 1..n, i < j, NEW x \in X[i], NEW y \in X[j]
                   PROVE  <<x, y>> \in EventBefore
        OBVIOUS
      <3>1. s[i].to < s[j].from
        BY <1>3 DEF ChunkBefore
      <3>2. /\ x \in Kept(contracts) /\ x.blockNumber <= s[i].to
            /\ y \in Kept(contracts) /\ s[j].from <= y.blockNumber
        BY <1>7 DEF Between
      <3>3. x.blockNumber < y.blockNumber
        BY <1>4, <2>2, <3>1, <3>2
      <3> QED
        BY <2>2, <3>2, <3>3 DEF EventBefore
    <2>4. \A x : x \in Between(Kept(contracts), f, t) <=> \E i \in 1..n : x \in X[i]
      <3>1. ASSUME NEW i \in 1..n, NEW x \in X[i] PROVE x \in Between(Kept(contracts), f, t)
        <4>1. x \in Kept(contracts) /\ s[i].from <= x.blockNumber /\ x.blockNumber <= s[i].to
          BY <1>7 DEF Between
        <4>2. f <= x.blockNumber /\ x.blockNumber <= t
          BY <1>4, <2>2, <4>1
        <4> QED
          BY <4>1, <4>2 DEF Between
      <3>2. ASSUME NEW x \in Between(Kept(contracts), f, t) PROVE \E i \in 1..n : x \in X[i]
        <4>1. x \in Kept(contracts) /\ x.blockNumber \in f..t
          BY <2>2 DEF Between
        <4>2. PICK c \in C : x.blockNumber \in c.from..c.to
          BY <1>1, <4>1
        <4>3. PICK i \in 1..n : s[i] = c
          BY <1>3
        <4>4. s[i].from <= x.blockNumber /\ x.blockNumber <= s[i].to
          BY <1>4, <4>2, <4>3
        <4> QED
          BY <1>7, <4>1, <4>4 DEF Between
      <3> QED
        BY <3>1, <3>2
    <2>5. Lists(FlattenSeq(ss), Between(Kept(contracts), f, t), EventBefore)
      BY <1>3, <1>6, <2>1, <2>3, <2>4, FlattenListsTo
    <2> QED
      BY <1>2, <2>5
  <1> QED
    BY <1>8, <1>9 DEF S

-----------------------------------------------------------------------------
(* Sorting the transfers                                                   *)

(* What the comparators look at *)
IsOrdered(e) == e.blockNumber \in Int /\ e.transactionIndex \in Int /\ e.logIndex \in Int

(* The order of logs is one that a sort can use. *)
LEMMA LogOrderCompares ==
  ASSUME NEW a, NEW b, NEW c, IsOrdered(a), IsOrdered(b), IsOrdered(c)
  PROVE  /\ logOrder(a, b) => ~logOrder(b, a)
         /\ ~logOrder(a, b) /\ ~logOrder(b, c) => ~logOrder(a, c)
  BY DEF logOrder, IsOrdered

(* So is the order of keys. *)
LEMMA KeyOrderCompares ==
  ASSUME NEW a, NEW b, NEW c, IsOrdered(a), IsOrdered(b), IsOrdered(c),
         a.primaryKey \in Int, b.primaryKey \in Int, c.primaryKey \in Int
  PROVE  /\ primaryKeyOrderComparator(a, b) => ~primaryKeyOrderComparator(b, a)
         /\ ~primaryKeyOrderComparator(a, b) /\ ~primaryKeyOrderComparator(b, c)
              => ~primaryKeyOrderComparator(a, c)
  BY DEF primaryKeyOrderComparator, logOrder, IsOrdered

(* The sorted events are the events. *)
LEMMA SortedEventsMembers ==
  ASSUME NEW S, NEW s \in Seq(S), \A e \in S : IsOrdered(e)
  PROVE  /\ SortedEvents(s) \in Seq(S) /\ Len(SortedEvents(s)) = Len(s)
         /\ \A i \in 1..Len(s) : \E k \in 1..Len(s) : SortedEvents(s)[i] = s[k]
         /\ \A k \in 1..Len(s) : \E i \in 1..Len(s) : SortedEvents(s)[i] = s[k]
  <1> DEFINE n == Len(s)
             r == SortedEvents(s)
             L == {pair \in (1..n) \X (1..n) : logOrder(s[pair[1]], s[pair[2]])}
             place == [k \in 1..n |-> 1 + Cardinality({j \in 1..n :
                         <<j, k>> \in L \/ (<<k, j>> \notin L /\ j < k)})]
             given == [k \in 1..n |-> 1 + Cardinality({j \in 1..n :
                         logOrder(s[j], s[k]) \/ (~logOrder(s[k], s[j]) /\ j < k)})]
  <1>1. n \in Nat /\ n = Len(s) /\ \A k \in 1..n : s[k] \in S
    OBVIOUS
  <1>2. r = [i \in 1..n |-> s[CHOOSE k \in 1..n : given[k] = i]]
    BY DEF SortedEvents, stableSort
  <1>3. \A j, k \in 1..n : <<j, k>> \in L <=> logOrder(s[j], s[k])
    OBVIOUS
  <1>4. given = place
    <2>1. \A k \in 1..n : {j \in 1..n : logOrder(s[j], s[k]) \/ (~logOrder(s[k], s[j]) /\ j < k)}
                          = {j \in 1..n : <<j, k>> \in L \/ (<<k, j>> \notin L /\ j < k)}
      <3> HIDE DEF L, n
      <3> QED
        BY <1>3
    <2> HIDE DEF L, n
    <2> QED
      BY <2>1
  <1>5. place = [k \in 1..n |-> 1 + Cardinality({j \in 1..n :
                         <<j, k>> \in L \/ (<<k, j>> \notin L /\ j < k)})]
    OBVIOUS
  <1> HIDE DEF n, r, L, place, given
  <1>6. IsComparison(L, n)
    <2>1. \A j \in 1..n : IsOrdered(s[j])
      BY <1>1
    <2>2. \A j, k \in 1..n : <<j, k>> \in L => <<k, j>> \notin L
      BY <1>3, <2>1, LogOrderCompares, Zenon
    <2>3. \A j, k, l \in 1..n : <<j, k>> \notin L /\ <<k, l>> \notin L => <<j, l>> \notin L
      BY <1>3, <2>1, LogOrderCompares, Zenon
    <2> QED
      BY <2>2, <2>3 DEF IsComparison
  <1>7. ByPlaces(r, s, place)
    BY <1>1, <1>2, <1>4 DEF ByPlaces
  <1>8. IsSorting(r, s, StableOrder(L, n))
    BY <1>1, <1>5, <1>6, <1>7, StableSorting
  <1>9. /\ r \in Seq(S) /\ Len(r) = Len(s)
        /\ \A i \in 1..Len(s) : \E k \in 1..Len(s) : r[i] = s[k]
        /\ \A k \in 1..Len(s) : \E i \in 1..Len(s) : r[i] = s[k]
    BY <1>8, SortingMembers
  <1> QED
    BY <1>9 DEF r

(* So are those sorted by their keys. *)
LEMMA KeySortedMembers ==
  ASSUME NEW S, NEW s \in Seq(S), \A e \in S : IsOrdered(e) /\ e.primaryKey \in Int,
         NEW r, r = stableSort(s, primaryKeyOrderComparator)
  PROVE  r \in Seq(S)
  <1> DEFINE n == Len(s)
             L == {pair \in (1..n) \X (1..n) : primaryKeyOrderComparator(s[pair[1]], s[pair[2]])}
             place == [k \in 1..n |-> 1 + Cardinality({j \in 1..n :
                         <<j, k>> \in L \/ (<<k, j>> \notin L /\ j < k)})]
             given == [k \in 1..n |-> 1 + Cardinality({j \in 1..n :
                         \/ primaryKeyOrderComparator(s[j], s[k])
                         \/ (~primaryKeyOrderComparator(s[k], s[j]) /\ j < k)})]
  <1>1. n \in Nat /\ n = Len(s) /\ \A k \in 1..n : s[k] \in S
    OBVIOUS
  <1>2. r = [i \in 1..n |-> s[CHOOSE k \in 1..n : given[k] = i]]
    BY DEF stableSort
  <1>3. \A j, k \in 1..n : <<j, k>> \in L <=> primaryKeyOrderComparator(s[j], s[k])
    OBVIOUS
  <1>4. given = place
    <2>1. \A k \in 1..n : {j \in 1..n : \/ primaryKeyOrderComparator(s[j], s[k])
                                        \/ (~primaryKeyOrderComparator(s[k], s[j]) /\ j < k)}
                          = {j \in 1..n : <<j, k>> \in L \/ (<<k, j>> \notin L /\ j < k)}
      <3> HIDE DEF L, n
      <3> QED
        BY <1>3
    <2> HIDE DEF L, n
    <2> QED
      BY <2>1
  <1>5. place = [k \in 1..n |-> 1 + Cardinality({j \in 1..n :
                         <<j, k>> \in L \/ (<<k, j>> \notin L /\ j < k)})]
    OBVIOUS
  <1> HIDE DEF n, L, place, given
  <1>6. IsComparison(L, n)
    <2>1. \A j \in 1..n : IsOrdered(s[j]) /\ s[j].primaryKey \in Int
      BY <1>1
    <2>2. \A j, k \in 1..n : <<j, k>> \in L => <<k, j>> \notin L
      BY <1>3, <2>1, KeyOrderCompares, Zenon
    <2>3. \A j, k, l \in 1..n : <<j, k>> \notin L /\ <<k, l>> \notin L => <<j, l>> \notin L
      BY <1>3, <2>1, KeyOrderCompares, Zenon
    <2> QED
      BY <2>2, <2>3 DEF IsComparison
  <1>7. ByPlaces(r, s, place)
    BY <1>1, <1>2, <1>4 DEF ByPlaces
  <1>8. IsSorting(r, s, StableOrder(L, n))
    BY <1>1, <1>5, <1>6, <1>7, StableSorting
  <1> QED
    BY <1>8, SortingMembers

-----------------------------------------------------------------------------
(* The transfers of a mode                                                 *)

(* The answers for the native token of Matic give its transfers. *)
LEMMA MaticEventsList ==
  ASSUME chain \in [Block -> 1..4], NEW f \in Int, NEW t \in Int, NEW store, HasTimes(store, f, t)
  PROVE  Lists(getPastMaticEvents(AllLogs, f, t, store),
               Between(EventsOf(TRUE, {"MATIC"}), f, t), EventBefore)
  <1> DEFINE s == LogsOfBlocks(AllLogs, f, t, {"MATIC"})
  <1>1. Lists(s, LogsBetween({"MATIC"}, f, t), LogBefore)
    BY LogsOfBlocksList
  <1> HIDE DEF s
  <1>2. decodeLogTransfers(s, store) = FlattenSeq([i \in 1..Len(s) |-> DecodeOf(TRUE, s[i], store)])
    BY DEF decodeLogTransfers, DecodeOf
  <1>3. Lists(decodeLogTransfers(s, store), Between(EventsOf(TRUE, {"MATIC"}), f, t), EventBefore)
    BY <1>1, <1>2, DecodedList DEF HasTimes
  <1> QED
    BY <1>3 DEF s, getPastMaticEvents

(* What changeContractAddresses makes of one *)
Renamed(e) == IF e.contract \in OldContracts THEN editAddressAndAmount(e) ELSE e

OldEvents == (IF OldContracts = {} THEN {} ELSE Kept(OldContracts)) \cup PresaleEvents

OtherEvents == (IF ContractsUnmodified = {} THEN {} ELSE Kept(ContractsUnmodified)) \cup PresaleEvents

ExactEvents == {Renamed(e) : e \in OldEvents} \cup OtherEvents

(* What a mode can fetch *)
ModeEvents ==
  CASE mode = "exact" -> ExactEvents
    [] mode = "matic" -> EventsOf(TRUE, {"MATIC"})
    [] OTHER          -> Kept({})

(* A transfer without its key, with the time of its block *)
IsEvent(e) ==
  /\ DOMAIN e = EventFields /\ e = [field \in EventFields |-> e[field]]
  /\ IsOrdered(e) /\ e.timestamp = e.blockNumber

(* The transfers of the chain are events, in its blocks. *)
LEMMA ChainEventIsEvent ==
  ASSUME chain \in [Block -> 1..4], NEW matic \in BOOLEAN, NEW contracts,
         NEW e \in EventsOf(matic, contracts)
  PROVE  IsEvent(e) /\ e.blockNumber \in Block /\ e.logIndex \in 0..19
  <1>1. PICK l \in LogsOf(contracts) :
           /\ IsTransferOf(e, l)
           /\ e.blockNumber \in Block /\ e.logIndex \in 0..19 /\ e.transactionIndex \in Nat
    BY EventFacts
  <1>2. e.blockNumber \in Int /\ e.logIndex \in Int /\ e.transactionIndex \in Int
    BY <1>1, SMTT(30) DEF Block
  <1> QED
    BY <1>1, <1>2 DEF IsEvent, IsOrdered, IsTransferOf

(* So are those that are kept of them. *)
LEMMA KeptIsEvent ==
  ASSUME chain \in [Block -> 1..4], NEW contracts, NEW e \in Kept(contracts)
  PROVE  IsEvent(e) /\ e.blockNumber \in Block /\ e.logIndex \in 0..19
  BY ChainEventIsEvent DEF Kept, KeptOf

(* The presale's transfers are events, in its block. *)
LEMMA PresaleIsEvent ==
  ASSUME NEW e \in PresaleEvents
  PROVE  IsEvent(e) /\ e.blockNumber = CustomBlock /\ CustomBlock \in Int
  <1>1. PICK from, to, value : \E n \in Nat : e = CustomTransfer(from, to, value, n)
    BY DEF PresaleEvents
  <1>5. PICK k \in Nat : e = CustomTransfer(from, to, value, k)
    BY <1>1
  <1>2. CustomBlock \in Int
    BY TokenEventsAssumption
  <1>3. e = [field \in EventFields |-> e[field]] /\ DOMAIN e = EventFields
    BY <1>5 DEF CustomTransfer, EventFields
  <1>4. /\ e.blockNumber = CustomBlock /\ e.timestamp = CustomBlock /\ e.logIndex = k
        /\ e.transactionIndex = -1
    BY <1>5 DEF CustomTransfer
  <1> QED
    BY <1>2, <1>3, <1>4 DEF IsEvent, IsOrdered

(* Renaming a contract and scaling the amount leaves an event in its place. *)
LEMMA EditIsEvent ==
  ASSUME NEW e, IsEvent(e)
  PROVE  /\ IsEvent(editAddressAndAmount(e))
         /\ editAddressAndAmount(e).blockNumber = e.blockNumber
         /\ editAddressAndAmount(e).logIndex = e.logIndex
         /\ editAddressAndAmount(e).transactionIndex = e.transactionIndex
  <1> DEFINE d == editAddressAndAmount(e)
  <1>1. d = [e EXCEPT !.contract = "NEW", !.value = @ * Multiplier]
    BY DEF editAddressAndAmount
  <1>2. DOMAIN e = EventFields
    BY DEF IsEvent
  <1>3. /\ DOMAIN d = EventFields /\ d = [field \in EventFields |-> d[field]]
        /\ d.blockNumber = e.blockNumber /\ d.logIndex = e.logIndex
        /\ d.transactionIndex = e.transactionIndex /\ d.timestamp = e.timestamp
    BY <1>1, <1>2 DEF EventFields
  <1> HIDE DEF d
  <1>4. IsEvent(d)
    BY <1>3 DEF IsEvent, IsOrdered
  <1> QED
    BY <1>3, <1>4 DEF d

(* Renaming leaves an event in its place, of an old contract or not. *)
LEMMA RenamedIsEvent ==
  ASSUME NEW e, IsEvent(e)
  PROVE  /\ IsEvent(Renamed(e)) /\ Renamed(e).blockNumber = e.blockNumber
         /\ Renamed(e).logIndex = e.logIndex
  BY EditIsEvent DEF Renamed

(* What a mode exports is events. *)
LEMMA ModeEventIsEvent ==
  ASSUME chain \in [Block -> 1..4], NEW e \in ModeEvents
  PROVE  IsEvent(e)
  <1>1. CASE mode = "exact"
    <2>1. \A d \in OldEvents \cup OtherEvents : IsEvent(d)
      BY KeptIsEvent, PresaleIsEvent DEF OldEvents, OtherEvents
    <2>2. e \in ExactEvents
      BY <1>1 DEF ModeEvents
    <2> QED
      BY <2>1, <2>2, RenamedIsEvent DEF ExactEvents
  <1>2. CASE mode # "exact"
    <2>1. e \in EventsOf(TRUE, {"MATIC"}) \/ e \in Kept({})
      BY <1>2 DEF ModeEvents
    <2> QED
      BY <2>1, KeptIsEvent, ChainEventIsEvent
  <1> QED
    BY <1>1, <1>2

(* The elements that changeContractAddresses gives *)
LEMMA ChangedMembers ==
  ASSUME NEW S, NEW s \in Seq(S)
  PROVE  /\ changeContractAddresses(s) \in Seq({Renamed(e) : e \in S})
         /\ Len(changeContractAddresses(s)) = Len(s)
         /\ \A i \in 1..Len(s) : changeContractAddresses(s)[i] = Renamed(s[i])
  <1> DEFINE n == Len(s)
             r == changeContractAddresses(s)
             T == {Renamed(e) : e \in S}
  <1>1. n \in Nat /\ n = Len(s) /\ \A i \in 1..n : s[i] \in S
    OBVIOUS
  <1>2. r = [i \in 1..n |-> Renamed(s[i])]
    BY DEF changeContractAddresses, Renamed
  <1> HIDE DEF n, r
  <1>3. \A i \in 1..n : Renamed(s[i]) \in T
    BY <1>1
  <1> HIDE DEF T
  <1>4. r \in Seq(T) /\ Len(r) = n /\ \A i \in 1..n : r[i] = Renamed(s[i])
    BY <1>1, <1>2, <1>3
  <1> QED
    BY <1>1, <1>4 DEF r, T

(* A batch fetches transfers of its mode only. *)
LEMMA FetchedAreModeEvents ==
  ASSUME chain \in [Block -> 1..4], mode \in TokenModes, NEW f \in Int, NEW t \in Int,
         Interval.fromBlock = f, Interval.toBlock = t, NEW store, HasTimes(store, f, t),
         NEW r, r = FetchedEvents(store)
  PROVE  r \in Seq(ModeEvents)
  <1>1. ASSUME NEW C
        PROVE  FetchedOf(C, store) \in Seq((IF C = {} THEN {} ELSE Kept(C)) \cup PresaleEvents)
    <2> DEFINE s == fetchPastEvents(AllLogs, f, t, C, store)
    <2>1. FetchedOf(C, store) = IF C = {} THEN <<>> ELSE s
      BY DEF FetchedOf, Fetched
    <2>2. s \in Seq(Kept(C) \cup PresaleEvents)
      BY FetchedList
    <2> HIDE DEF s
    <2> QED
      BY <2>1, <2>2
  <1>2. CASE mode = "exact"
    <2> DEFINE old == FetchedOf(OldContracts, store)
               other == FetchedOf(ContractsUnmodified, store)
    <2>1. r = changeContractAddresses(old) \o other
      BY <1>2 DEF FetchedEvents
    <2>2. old \in Seq(OldEvents) /\ other \in Seq(OtherEvents)
      BY <1>1 DEF OldEvents, OtherEvents
    <2> HIDE DEF old, other
    <2>3. changeContractAddresses(old) \in Seq({Renamed(e) : e \in OldEvents})
      BY <2>2, ChangedMembers
    <2>4. changeContractAddresses(old) \in Seq(ExactEvents) /\ other \in Seq(ExactEvents)
      BY <2>2, <2>3 DEF ExactEvents
    <2>5. ModeEvents = ExactEvents
      BY <1>2 DEF ModeEvents
    <2> QED
      BY <2>1, <2>4, <2>5
  <1>3. CASE mode = "matic"
    <2>1. r = getPastMaticEvents(AllLogs, f, t, store)
      BY <1>3 DEF FetchedEvents
    <2>2. Lists(r, Between(EventsOf(TRUE, {"MATIC"}), f, t), EventBefore)
      BY <2>1, MaticEventsList
    <2>3. ModeEvents = EventsOf(TRUE, {"MATIC"})
      BY <1>3 DEF ModeEvents
    <2>4. r \in Seq(Between(ModeEvents, f, t)) /\ Between(ModeEvents, f, t) \subseteq ModeEvents
      BY <2>2, <2>3 DEF Lists, Between
    <2> QED
      BY <2>4
  <1>4. CASE mode \in {"vanilla", "append"}
    <2>1. r = fetchPastEvents(AllLogs, f, t, {}, store)
      BY <1>4 DEF FetchedEvents, Fetched
    <2>2. Lists(r, Between(Kept({}), f, t), EventBefore)
      BY <2>1, FetchedList
    <2>3. ModeEvents = Kept({})
      BY <1>4 DEF ModeEvents
    <2>4. r \in Seq(Between(ModeEvents, f, t)) /\ Between(ModeEvents, f, t) \subseteq ModeEvents
      BY <2>2, <2>3 DEF Lists, Between
    <2> QED
      BY <2>4
  <1> QED
    BY <1>2, <1>3, <1>4 DEF TokenModes

-----------------------------------------------------------------------------
(* The keys                                                                *)

Keyed(e) == Extend(e, [primaryKey |-> KeyOf(e)])

(* A key is a further field. *)
LEMMA KeyedFields ==
  ASSUME NEW e, IsEvent(e), NEW k \in Int, NEW x, x = Extend(e, [primaryKey |-> k])
  PROVE  /\ x.primaryKey = k /\ IsOrdered(x)
         /\ x.blockNumber = e.blockNumber /\ x.logIndex = e.logIndex
         /\ x.timestamp = x.blockNumber
  <1> DEFINE m == [primaryKey |-> k]
  <1>1. DOMAIN m = {"primaryKey"} /\ m.primaryKey = k
    OBVIOUS
  <1> HIDE DEF m
  <1>2. x = Extend(e, m)
    BY DEF m
  <1>3. /\ x.primaryKey = k /\ x.blockNumber = e.blockNumber /\ x.logIndex = e.logIndex
        /\ x.timestamp = e.timestamp /\ x.transactionIndex = e.transactionIndex
    BY <1>1, <1>2 DEF Extend, IsEvent, EventFields
  <1> QED
    BY <1>3 DEF IsEvent, IsOrdered

(* A primary key is a number. *)
LEMMA KeyOfIsInt ==
  ASSUME NEW e, IsEvent(e)
  PROVE  KeyOf(e) \in Int
  BY TokenEventsAssumption DEF KeyOf, IsEvent, IsOrdered

(* What extendEventsWithPrimaryKey returns *)
LEMMA KeyedMembers ==
  ASSUME NEW S, NEW s \in Seq(S), \A e \in S : IsEvent(e)
  PROVE  extendEventsWithPrimaryKey(s) \in Seq({Keyed(e) : e \in S})
  <1> DEFINE r == SortedEvents(s)
             n == Len(r)
             K == {Keyed(e) : e \in S}
  <1>1. r \in Seq(S)
    BY SortedEventsMembers DEF IsEvent
  <1>2. extendEventsWithPrimaryKey(s) = [i \in 1..n |-> Keyed(r[i])]
    BY DEF extendEventsWithPrimaryKey, Keyed
  <1> HIDE DEF r
  <1>3. n \in Nat /\ \A i \in 1..n : r[i] \in S
    BY <1>1
  <1>4. \A i \in 1..n : Keyed(r[i]) \in K
    BY <1>3
  <1> HIDE DEF n, K
  <1>5. extendEventsWithPrimaryKey(s) \in Seq(K)
    BY <1>2, <1>3, <1>4
  <1> QED
    BY <1>5 DEF K

(* The transfers that the append mode copies *)
OldKept == {e \in Kept({}) : e.contract \in OldContracts}

IndexesOf(b) == {-1} \cup {e.logIndex : e \in {d \in Kept({}) : d.blockNumber = b}}

(* The indexes of those of a block, up to some place *)
CopiedUpTo(b, i) ==
  {j \in 0..i : \E d \in OldKept : d.blockNumber = b /\ d.logIndex = j}

KeyOfCopy(e) ==
  e.blockNumber * PRIMARY_KEY_MULTIPLIER + Max(IndexesOf(e.blockNumber))
    + Cardinality(CopiedUpTo(e.blockNumber, e.logIndex))

KeyedCopy(e) == Extend(editAddressAndAmount(e), [primaryKey |-> KeyOfCopy(e)])

(* A block has twenty log indexes. *)
LEMMA TwentyIndexes == IsFiniteSet(0..19) /\ Cardinality(0..19) = 20
  <1>1. 0 \in Int /\ 19 \in Int /\ ~(0 > 19) /\ 19 - 0 + 1 = 20
    OBVIOUS
  <1>2. IsFiniteSet(0..19) /\ Cardinality(0..19) = IF 0 > 19 THEN 0 ELSE 19 - 0 + 1
    BY <1>1, FS_Interval, Zenon
  <1> QED
    BY <1>1, <1>2

(* The last index of a block, and the place of a copy after it *)
LEMMA CopyPlaces ==
  ASSUME chain \in [Block -> 1..4], NEW e \in OldKept,
         NEW last, last = Max(IndexesOf(e.blockNumber)),
         NEW rank, rank = Cardinality(CopiedUpTo(e.blockNumber, e.logIndex))
  PROVE  /\ last \in 0..19 /\ rank \in 1..20
         /\ \A d \in Kept({}) : d.blockNumber = e.blockNumber => d.logIndex <= last
  <1> DEFINE I == IndexesOf(e.blockNumber)
             J == CopiedUpTo(e.blockNumber, e.logIndex)
  <1>1. e \in Kept({}) /\ e.logIndex \in 0..19
    BY KeptIsEvent DEF OldKept
  <1>2. I \subseteq -1..19 /\ e.logIndex \in I
    BY <1>1, KeptIsEvent DEF IndexesOf
  <1>3. last \in I /\ \A i \in I : i <= last
    <2>1. I \subseteq Int /\ 19 \in Int /\ \A y \in I : y <= 19
      BY <1>2
    <2>2. last = Max(I)
      OBVIOUS
    <2> HIDE DEF I
    <2> QED
      BY <1>2, <2>1, <2>2, MaxExists
  <1>4. last \in 0..19
    BY <1>1, <1>2, <1>3
  <1>5. \A d \in Kept({}) : d.blockNumber = e.blockNumber => d.logIndex <= last
    BY <1>3 DEF IndexesOf
  <1>6. rank \in 1..20
    <2>1. J \in SUBSET (0..19) /\ e.logIndex \in J
      BY <1>1 DEF CopiedUpTo
    <2>2. rank = Cardinality(J)
      OBVIOUS
    <2> HIDE DEF J
    <2>3. IsFiniteSet(0..19) /\ Cardinality(0..19) = 20
      BY TwentyIndexes
    <2>4. IsFiniteSet(J) /\ Cardinality(J) <= 20
      BY <2>1, <2>3, FS_Subset
    <2>5. Cardinality(J) \in Nat /\ Cardinality(J) # 0
      BY <2>1, <2>4, FS_CardinalityType, FS_EmptySet
    <2> QED
      BY <2>2, <2>4, <2>5
  <1> QED
    BY <1>4, <1>5, <1>6

(* A later transfer has a later copy. *)
LEMMA CopyOrder ==
  ASSUME chain \in [Block -> 1..4], NEW e \in OldKept, NEW d \in OldKept,
         e.blockNumber = d.blockNumber, e.logIndex < d.logIndex
  PROVE  Cardinality(CopiedUpTo(e.blockNumber, e.logIndex))
           < Cardinality(CopiedUpTo(d.blockNumber, d.logIndex))
  <1> DEFINE I == CopiedUpTo(e.blockNumber, e.logIndex)
             J == CopiedUpTo(d.blockNumber, d.logIndex)
  <1>1. e.logIndex \in 0..19 /\ d.logIndex \in 0..19
    BY KeptIsEvent DEF OldKept
  <1>2. I \in SUBSET J /\ I \in SUBSET (0..19) /\ J \in SUBSET (0..19)
    BY <1>1 DEF CopiedUpTo
  <1>3. d.logIndex \in J /\ d.logIndex \notin I
    BY <1>1 DEF CopiedUpTo
  <1> HIDE DEF I, J
  <1>4. IsFiniteSet(J)
    BY <1>2, TwentyIndexes, FS_Subset
  <1>5. IsFiniteSet(I) /\ Cardinality(I) <= Cardinality(J) /\ Cardinality(I) # Cardinality(J)
    BY <1>2, <1>3, <1>4, FS_Subset
  <1>6. Cardinality(I) \in Nat /\ Cardinality(J) \in Nat
    BY <1>4, <1>5, FS_CardinalityType
  <1>7. Cardinality(I) < Cardinality(J)
    BY <1>5, <1>6
  <1> QED
    BY <1>7 DEF I, J

(* A place in a block, and its key *)
Places == Nat \X (0..39)

KeyAt == [p \in Places |-> p[1] * PRIMARY_KEY_MULTIPLIER + p[2]]

(* Distinct places under the multiplier give distinct keys. *)
LEMMA KeysApart ==
  ASSUME NEW p \in Places, NEW q \in Places, KeyAt[p] = KeyAt[q]
  PROVE  p = q
  <1> DEFINE m == PRIMARY_KEY_MULTIPLIER
             b == p[1]
             c == q[1]
             i == p[2]
             j == q[2]
  <1>1. m \in Nat \ {0} /\ 40 <= m
    BY TokenEventsAssumption, KeysFit
  <1>6. /\ b \in Nat /\ c \in Nat /\ i \in 0..39 /\ j \in 0..39 /\ p = <<b, i>> /\ q = <<c, j>>
        /\ b * m + i = c * m + j
    BY DEF KeyAt, Places
  <1> HIDE DEF m, b, c, i, j
  <1>2. b * m \in Nat /\ c * m \in Nat /\ b * m + i = c * m + j
    BY <1>1, <1>6
  <1>3. ~(b < c)
    <2>1. b < c => b * m + m <= c * m
      BY <1>1, <1>6, LaterTurn
    <2> QED
      BY <1>1, <1>2, <1>6, <2>1
  <1>4. ~(c < b)
    <2>1. c < b => c * m + m <= b * m
      BY <1>1, <1>6, LaterTurn
    <2> QED
      BY <1>1, <1>2, <1>6, <2>1
  <1>5. b = c
    BY <1>3, <1>4, <1>6
  <1> QED
    BY <1>2, <1>5, <1>6

(* What CopiesWithPrimaryKey makes of the copies of a batch: the key does not *)
(* depend on the batch.                                                      *)
LEMMA CopiesMembers ==
  ASSUME chain \in [Block -> 1..4], NEW f \in Int, NEW t \in Int,
         NEW s, Lists(s, Between(Kept({}), f, t), EventBefore),
         NEW copies, copies = extractChangedContractAddresses(s)
  PROVE  CopiesWithPrimaryKey(s, copies) \in Seq({KeyedCopy(e) : e \in OldKept})
  <1> DEFINE X == Between(Kept({}), f, t)
             places == {i \in DOMAIN s : s[i].contract \in OldContracts}
             c == ElementsAt(s, places)
             n == Len(c)
             Z == {KeyedCopy(e) : e \in OldKept}
  <1>0. s \in Seq(X) /\ \A k \in 1..Len(s) : s[k] \in X
    BY DEF Lists
  <1>1. Lists(c, X \cap OldKept, EventBefore)
    <2>1. \A k \in 1..Len(s) : k \in places <=> s[k] \in OldKept
      <3>1. DOMAIN s = 1..Len(s)
        BY <1>0
      <3>2. X \subseteq Kept({})
        BY DEF Between
      <3> HIDE DEF X
      <3> QED
        BY <1>0, <3>1, <3>2 DEF OldKept
    <2>2. Lists(s, X, EventBefore)
      OBVIOUS
    <2> HIDE DEF X, places
    <2> QED
      BY <2>1, <2>2, ElementsAtLists
  <1>2. copies = changeContractAddresses(c)
    BY DEF extractChangedContractAddresses
  <1> HIDE DEF c, places
  <1>3. /\ n \in Nat /\ \A i \in 1..n : c[i] \in X /\ c[i] \in OldKept
        /\ \A x \in X \cap OldKept : \E i \in 1..n : c[i] = x
        /\ \A i, j \in 1..n : i < j => <<c[i], c[j]>> \in EventBefore
    BY <1>1 DEF Lists
  <1>4. Len(copies) = n /\ \A i \in 1..n : copies[i] = editAddressAndAmount(c[i])
    <2>1. c \in Seq(X \cap OldKept)
      BY <1>1 DEF Lists
    <2>2. /\ Len(changeContractAddresses(c)) = Len(c)
          /\ \A i \in 1..Len(c) : changeContractAddresses(c)[i] = Renamed(c[i])
      BY <2>1, ChangedMembers
    <2>3. \A i \in 1..n : c[i].contract \in OldContracts
      BY <1>3 DEF OldKept
    <2> QED
      BY <1>2, <2>2, <2>3 DEF Renamed
  <1>5. \A i \in 1..n : /\ c[i] \in Kept({}) /\ IsEvent(c[i]) /\ c[i].blockNumber \in Nat
                        /\ c[i].logIndex \in 0..19
                        /\ copies[i].blockNumber = c[i].blockNumber
    <2> TAKE i \in 1..n
    <2>1. c[i] \in Kept({})
      BY <1>3 DEF OldKept
    <2>2. IsEvent(c[i]) /\ c[i].blockNumber \in Block /\ c[i].logIndex \in 0..19
      BY <2>1, KeptIsEvent
    <2>3. c[i].blockNumber \in Nat
      BY <2>2 DEF Block
    <2> QED
      BY <1>4, <2>1, <2>2, <2>3, EditIsEvent
  <1> HIDE DEF n
  <1>6. ASSUME NEW i \in 1..n
        PROVE  CopyKey(s, copies, i) = KeyOfCopy(c[i])
    <2> DEFINE b == c[i].blockNumber
               indices == {s[j].logIndex : j \in {k \in DOMAIN s : s[k].blockNumber = b}}
               before == {j \in 1..i : copies[j].blockNumber = b}
               J == CopiedUpTo(b, c[i].logIndex)
    <2>1. CopyKey(s, copies, i)
            = b * PRIMARY_KEY_MULTIPLIER + Max(indices \cup {-1}) + Cardinality(before)
      BY <1>5 DEF CopyKey
    <2>2. indices \cup {-1} = IndexesOf(b)
      <3>1. DOMAIN s = 1..Len(s) /\ \A x \in X : \E k \in 1..Len(s) : s[k] = x
        BY <1>0 DEF Lists
      <3>2. \A d \in Kept({}) : d.blockNumber = b => d \in X
        <4>1. c[i] \in X
          BY <1>3
        <4> QED
          BY <4>1 DEF Between
      <3>3. X \subseteq Kept({})
        BY DEF Between
      <3> HIDE DEF X, b
      <3> QED
        BY <1>0, <3>1, <3>2, <3>3 DEF IndexesOf
    <2>3. Cardinality(before) = Cardinality(J)
      <3> DEFINE g == [j \in before |-> c[j].logIndex]
      <3>0. b \in Nat /\ c[i].logIndex \in 0..19 /\ i \in 1..n /\ n \in Nat
        BY <1>3, <1>5
      <3>1. \A j \in before : j \in 1..n /\ j <= i /\ c[j].blockNumber = b
        <4> TAKE j \in before
        <4>1. j \in 1..n /\ j <= i
          BY <3>0
        <4> QED
          BY <1>5, <4>1
      <3>2. \A j \in 1..n : j <= i /\ c[j].blockNumber = b => j \in before
        BY <1>5, <3>0
      <3>3. \A j, k \in 1..n : j < k /\ c[j].blockNumber = b /\ c[k].blockNumber = b =>
              c[j].logIndex < c[k].logIndex
        <4> SUFFICES ASSUME NEW j \in 1..n, NEW k \in 1..n, j < k, c[j].blockNumber = b,
                            c[k].blockNumber = b
                     PROVE  c[j].logIndex < c[k].logIndex
          OBVIOUS
        <4>1. <<c[j], c[k]>> \in EventBefore
          BY <1>3
        <4>2. \/ c[j].blockNumber < c[k].blockNumber
              \/ c[j].blockNumber = c[k].blockNumber /\ c[j].logIndex < c[k].logIndex
          BY <4>1 DEF EventBefore
        <4> HIDE DEF b
        <4> QED
          BY <3>0, <4>2
      <3>7. before \in SUBSET (1..n)
        BY <3>1
      <3> HIDE DEF before, b, X
      <3>4. g \in [before -> J]
        <4> SUFFICES ASSUME NEW j \in before PROVE c[j].logIndex \in J
          OBVIOUS
        <4>1. j \in 1..n /\ j <= i /\ c[j].blockNumber = b
          BY <3>1
        <4>2. c[j].logIndex \in 0..19 /\ c[j].logIndex <= c[i].logIndex
          <5>1. CASE j = i
            BY <3>0, <5>1
          <5>2. CASE j # i
            <6>1. j < i /\ c[i].blockNumber = b
              BY <3>0, <4>1, <5>2 DEF b
            <6>2. c[j].logIndex < c[i].logIndex
              BY <3>0, <3>3, <4>1, <6>1
            <6> QED
              BY <1>5, <3>0, <4>1, <6>2
          <5> QED
            BY <5>1, <5>2
        <4>3. c[j] \in OldKept
          BY <1>3, <4>1
        <4> QED
          BY <3>0, <4>1, <4>2, <4>3 DEF CopiedUpTo
      <3>5. \A j, k \in before : g[j] = g[k] => j = k
        <4> SUFFICES ASSUME NEW j \in before, NEW k \in before, c[j].logIndex = c[k].logIndex
                     PROVE  j = k
          OBVIOUS
        <4>1. /\ j \in 1..n /\ c[j].blockNumber = b /\ c[j].logIndex \in 0..19
              /\ k \in 1..n /\ c[k].blockNumber = b /\ c[k].logIndex \in 0..19
          BY <1>5, <3>1
        <4>2. ~(j < k) /\ ~(k < j)
          BY <3>3, <4>1
        <4> QED
          BY <4>1, <4>2
      <3>6. \A x \in J : \E j \in before : g[j] = x
        <4> SUFFICES ASSUME NEW x \in J PROVE \E j \in before : c[j].logIndex = x
          OBVIOUS
        <4>1. PICK d \in OldKept : d.blockNumber = b /\ d.logIndex = x
          BY DEF CopiedUpTo
        <4>2. x <= c[i].logIndex /\ x \in Int
          BY <3>0 DEF CopiedUpTo
        <4>3. d \in X
          <5>1. c[i] \in X /\ d \in Kept({})
            BY <1>3 DEF OldKept
          <5> QED
            BY <4>1, <5>1 DEF X, b, Between
        <4>4. PICK j \in 1..n : c[j] = d
          BY <1>3, <4>3
        <4>5. ~(i < j)
          <5>1. i < j => c[i].logIndex < c[j].logIndex
            BY <3>0, <3>3, <4>1, <4>4 DEF b
          <5> QED
            BY <3>0, <4>1, <4>2, <4>4, <5>1
        <4>6. j <= i
          BY <3>0, <4>5
        <4> QED
          BY <3>2, <4>1, <4>4, <4>6
      <3>8. IsFiniteSet(before)
        <4>1. IsFiniteSet(1..n)
          BY <3>0, FS_Interval
        <4> QED
          BY <3>7, <4>1, FS_Subset
      <3> HIDE DEF g, J
      <3>9. ExistsBijection(before, J)
        BY <3>4, <3>5, <3>6 DEF ExistsBijection, Bijection, Injection, Surjection, IsInjective
      <3> QED
        BY <3>8, <3>9, FS_Bijection
    <2> QED
      BY <2>1, <2>2, <2>3 DEF KeyOfCopy
  <1>7. CopiesWithPrimaryKey(s, copies) = [i \in 1..n |-> KeyedCopy(c[i])]
    <2>1. CopiesWithPrimaryKey(s, copies)
            = [i \in 1..n |-> Extend(copies[i], [primaryKey |-> CopyKey(s, copies, i)])]
      BY <1>4 DEF CopiesWithPrimaryKey
    <2>2. \A i \in 1..n :
            Extend(copies[i], [primaryKey |-> CopyKey(s, copies, i)]) = KeyedCopy(c[i])
      BY <1>4, <1>6 DEF KeyedCopy
    <2> QED
      BY <2>1, <2>2
  <1>8. \A i \in 1..n : KeyedCopy(c[i]) \in Z
    BY <1>3
  <1> HIDE DEF Z
  <1>9. CopiesWithPrimaryKey(s, copies) \in Seq(Z)
    BY <1>3, <1>7, <1>8
  <1> QED
    BY <1>9 DEF Z

(* What a mode can export *)
KeyedEvents ==
  {Keyed(e) : e \in ModeEvents}
    \cup (IF mode = "append" THEN {KeyedCopy(e) : e \in OldKept} ELSE {})

(* The fields of what is exported *)
LEMMA KeyedEventFields ==
  ASSUME chain \in [Block -> 1..4], NEW x \in KeyedEvents
  PROVE  IsOrdered(x) /\ x.primaryKey \in Int /\ x.timestamp = x.blockNumber
  <1>1. CASE \E e \in ModeEvents : x = Keyed(e)
    <2>1. PICK e \in ModeEvents : x = Keyed(e)
      BY <1>1
    <2>2. IsEvent(e) /\ KeyOf(e) \in Int
      BY ModeEventIsEvent, KeyOfIsInt
    <2> QED
      BY <2>1, <2>2, KeyedFields DEF Keyed
  <1>2. CASE \E e \in OldKept : x = KeyedCopy(e)
    <2>1. PICK e \in OldKept : x = KeyedCopy(e)
      BY <1>2
    <2>2. /\ IsEvent(editAddressAndAmount(e)) /\ e.blockNumber \in Int
      <3>1. IsEvent(e) /\ e.blockNumber \in Block
        BY KeptIsEvent DEF OldKept
      <3> QED
        BY <3>1, EditIsEvent DEF Block
    <2>3. KeyOfCopy(e) \in Int
      <3> DEFINE last == Max(IndexesOf(e.blockNumber))
                 rank == Cardinality(CopiedUpTo(e.blockNumber, e.logIndex))
      <3>1. last \in 0..19 /\ rank \in 1..20
        BY CopyPlaces
      <3> HIDE DEF last, rank
      <3>2. e.blockNumber * PRIMARY_KEY_MULTIPLIER + last + rank \in Int
        BY <2>2, <3>1, TokenEventsAssumption
      <3> QED
        BY <3>2 DEF last, rank, KeyOfCopy
    <2> QED
      BY <2>1, <2>2, <2>3, KeyedFields DEF KeyedCopy
  <1> QED
    BY <1>1, <1>2 DEF KeyedEvents

(* What work() returns is that, whatever the batch. *)
LEMMA TokenWorkEvents ==
  ASSUME chain \in [Block -> 1..4], mode \in TokenModes, NEW f \in Nat, NEW t \in Nat, f <= t,
         Interval.fromBlock = f, Interval.toBlock = t, NEW reversed \in BOOLEAN
  PROVE  TokenWork(BlockAnswers(reversed)).events \in Seq(KeyedEvents)
  <1> DEFINE store == TimestampStore(BlockAnswers(reversed), Interval.fromBlock)
             fetched == FetchedEvents(store)
             copies == IF mode = "append" THEN extractChangedContractAddresses(fetched) ELSE <<>>
             keyed == extendEventsWithPrimaryKey(fetched)
             r == MergedEvents(fetched, copies)
  <1>1. HasTimes(store, f, t)
    <2>1. store = [b \in f..t |-> b]
      BY TimesOfAnswers
    <2> HIDE DEF store
    <2> QED
      BY <2>1 DEF HasTimes, Block
  <1>2. TokenWork(BlockAnswers(reversed)).events = r
    BY DEF TokenWork
  <1> HIDE DEF store
  <1>3. fetched \in Seq(ModeEvents)
    BY <1>1, FetchedAreModeEvents
  <1>4. keyed \in Seq(KeyedEvents)
    <2> DEFINE K == {Keyed(e) : e \in ModeEvents}
    <2> HIDE DEF fetched
    <2>1. keyed \in Seq(K)
      BY <1>3, ModeEventIsEvent, KeyedMembers
    <2>2. K \subseteq KeyedEvents
      BY DEF KeyedEvents
    <2> HIDE DEF K, keyed
    <2> QED
      BY <2>1, <2>2
  <1>5. r = IF copies = <<>> THEN keyed
            ELSE stableSort(keyed \o CopiesWithPrimaryKey(fetched, copies), primaryKeyOrderComparator)
    BY DEF MergedEvents
  <1>6. CASE copies = <<>>
    BY <1>2, <1>4, <1>5, <1>6
  <1>7. CASE copies # <<>>
    <2> DEFINE added == CopiesWithPrimaryKey(fetched, copies)
               both == keyed \o added
               Z == {KeyedCopy(e) : e \in OldKept}
    <2>1. mode = "append" /\ copies = extractChangedContractAddresses(fetched)
      BY <1>7
    <2>2. Lists(fetched, Between(Kept({}), f, t), EventBefore)
      <3>1. fetched = fetchPastEvents(AllLogs, f, t, {}, store)
        BY <2>1 DEF FetchedEvents, Fetched
      <3> HIDE DEF fetched
      <3>2. "SAN" \notin {} /\ f \in Int /\ t \in Int
        OBVIOUS
      <3> QED
        BY <1>1, <3>1, <3>2, FetchedList, Zenon
    <2> HIDE DEF fetched, copies, keyed
    <2>3. added \in Seq(Z)
      BY <2>1, <2>2, CopiesMembers
    <2>4. Z \subseteq KeyedEvents
      BY <2>1 DEF KeyedEvents
    <2> HIDE DEF added, Z
    <2>5. both \in Seq(KeyedEvents)
      <3>1. added \in Seq(KeyedEvents)
        BY <2>3, <2>4
      <3> QED
        BY <1>4, <3>1
    <2>6. r = stableSort(both, primaryKeyOrderComparator)
      BY <1>5, <1>7 DEF added
    <2> HIDE DEF both, r
    <2>7. r \in Seq(KeyedEvents)
      BY <2>5, <2>6, KeyedEventFields, KeySortedMembers
    <2> QED
      BY <1>2, <2>7
  <1> QED
    BY <1>6, <1>7

(* The events of the two kinds that the exact mode fetches do not meet. *)
LEMMA ExactEventsApart ==
  ASSUME chain \in [Block -> 1..4], mode = "exact", NEW e \in ModeEvents, NEW d \in ModeEvents,
         e.blockNumber # CustomBlock, e.blockNumber = d.blockNumber, e.logIndex = d.logIndex
  PROVE  e = d
  <1> DEFINE Old(x) == OldContracts # {} /\ \E y \in Kept(OldContracts) : x = Renamed(y)
             Other(x) == ContractsUnmodified # {} /\ x \in Kept(ContractsUnmodified)
  <1>1. ASSUME NEW x \in ModeEvents, x.blockNumber # CustomBlock
        PROVE  Old(x) \/ Other(x)
    <2>1. x \in ExactEvents
      BY DEF ModeEvents
    <2>2. CASE \E y \in OldEvents : x = Renamed(y)
      <3>1. PICK y \in OldEvents : x = Renamed(y)
        BY <2>2
      <3>2. y \notin PresaleEvents
        BY <1>1, <3>1, PresaleIsEvent, RenamedIsEvent
      <3> QED
        BY <3>1, <3>2 DEF OldEvents
    <2>3. CASE x \in OtherEvents
      <3>1. x \notin PresaleEvents
        BY <1>1, PresaleIsEvent
      <3> QED
        BY <2>3, <3>1 DEF OtherEvents
    <2> QED
      BY <2>1, <2>2, <2>3 DEF ExactEvents
  <1>2. \A C : \A x \in Kept(C) : x \in EventsOf(FALSE, C) /\ IsEvent(x)
    BY KeptIsEvent DEF Kept, KeptOf
  <1>3. ASSUME NEW x, NEW y, Old(x), Other(y), x.blockNumber = y.blockNumber, x.logIndex = y.logIndex
        PROVE  FALSE
    <2>1. PICK z \in Kept(OldContracts) : x = Renamed(z)
      BY <1>3
    <2>2. z.blockNumber = y.blockNumber /\ z.logIndex = y.logIndex
      BY <1>2, <1>3, <2>1, RenamedIsEvent
    <2>3. z \in EventsOf(FALSE, OldContracts) /\ y \in EventsOf(FALSE, ContractsUnmodified)
      BY <1>2, <1>3, <2>1
    <2>4. LogsOf(OldContracts) \cap LogsOf(ContractsUnmodified) # {}
      BY <2>2, <2>3, EventsApart
    <2>5. PICK l : l \in LogsOf(OldContracts) /\ l \in LogsOf(ContractsUnmodified)
      BY <2>4
    <2>6. l.contract \in OldContracts /\ l.contract \in ContractsUnmodified
      BY <1>3, <2>5 DEF LogsOf
    <2> QED
      BY <2>6, TokenEventsAssumption
  <1>4. CASE Old(e) /\ Old(d)
    <2>1. PICK x \in Kept(OldContracts) : e = Renamed(x)
      BY <1>4
    <2>2. PICK y \in Kept(OldContracts) : d = Renamed(y)
      BY <1>4
    <2>3. x.blockNumber = y.blockNumber /\ x.logIndex = y.logIndex
      BY <1>2, <2>1, <2>2, RenamedIsEvent
    <2>4. x = y
      BY <1>2, <2>3, SameEvent, Zenon
    <2> QED
      BY <2>1, <2>2, <2>4
  <1>5. CASE Other(e) /\ Other(d)
    <2>1. /\ e \in EventsOf(FALSE, ContractsUnmodified)
          /\ d \in EventsOf(FALSE, ContractsUnmodified)
      BY <1>2, <1>5
    <2>2. FALSE \in BOOLEAN
      OBVIOUS
    <2> QED
      BY <2>1, <2>2, SameEvent, Zenon
  <1> QED
    <2> HIDE DEF Old, Other
    <2>1. (Old(e) \/ Other(e)) /\ (Old(d) \/ Other(d))
      BY <1>1
    <2> QED
      BY <1>3, <1>4, <1>5, <2>1

(* Their block and index tell the events of a mode apart. *)
LEMMA ModeEventsApart ==
  ASSUME chain \in [Block -> 1..4], NEW e \in ModeEvents, NEW d \in ModeEvents,
         mode = "exact" => e.blockNumber # CustomBlock,
         e.blockNumber = d.blockNumber, e.logIndex = d.logIndex
  PROVE  e = d
  <1>1. CASE mode = "exact"
    BY <1>1, ExactEventsApart
  <1>2. CASE mode = "matic"
    <2>1. e \in EventsOf(TRUE, {"MATIC"}) /\ d \in EventsOf(TRUE, {"MATIC"})
      BY <1>2 DEF ModeEvents
    <2> QED
      BY <2>1, SameEvent, Zenon
  <1>3. CASE mode # "exact" /\ mode # "matic"
    <2>1. e \in EventsOf(FALSE, {}) /\ d \in EventsOf(FALSE, {})
      BY <1>3 DEF ModeEvents, Kept, KeptOf
    <2> QED
      BY <2>1, SameEvent, Zenon
  <1> QED
    BY <1>1, <1>2, <1>3

(* Apart from the presale, an event of a mode has the place of a log. *)
LEMMA ModeEventPlace ==
  ASSUME chain \in [Block -> 1..4], NEW e \in ModeEvents, mode = "exact" => e.blockNumber # CustomBlock
  PROVE  e.blockNumber \in Nat /\ e.logIndex \in 0..19 /\ IsEvent(e)
  <1>1. CASE mode = "exact"
    <2>1. e \in ExactEvents
      BY <1>1 DEF ModeEvents
    <2>2. CASE \E y \in OldEvents : e = Renamed(y)
      <3>1. PICK y \in OldEvents : e = Renamed(y)
        BY <2>2
      <3>2. y \notin PresaleEvents
        BY <1>1, <3>1, PresaleIsEvent, RenamedIsEvent
      <3>3. y \in Kept(OldContracts)
        BY <3>1, <3>2 DEF OldEvents
      <3>4. IsEvent(y) /\ y.blockNumber \in Block /\ y.logIndex \in 0..19
        BY <3>3, KeptIsEvent
      <3> QED
        BY <3>1, <3>4, RenamedIsEvent DEF Block
    <2>3. CASE e \in OtherEvents
      <3>1. e \notin PresaleEvents
        BY <1>1, PresaleIsEvent
      <3>2. e \in Kept(ContractsUnmodified)
        BY <2>3, <3>1 DEF OtherEvents
      <3> QED
        BY <3>2, KeptIsEvent DEF Block
    <2> QED
      BY <2>1, <2>2, <2>3 DEF ExactEvents
  <1>2. CASE mode # "exact"
    <2>1. e \in EventsOf(TRUE, {"MATIC"}) \/ e \in Kept({})
      BY <1>2 DEF ModeEvents
    <2>2. IsEvent(e) /\ e.blockNumber \in Block /\ e.logIndex \in 0..19
      BY <2>1, KeptIsEvent, ChainEventIsEvent
    <2> QED
      BY <2>2 DEF Block
  <1> QED
    BY <1>1, <1>2

(* The key of a copy, as a place in its block *)
LEMMA CopyKeyPlace ==
  ASSUME chain \in [Block -> 1..4], NEW e \in OldKept
  PROVE  \E last \in 0..19, rank \in 1..20 :
           /\ last = Max(IndexesOf(e.blockNumber))
           /\ rank = Cardinality(CopiedUpTo(e.blockNumber, e.logIndex))
           /\ KeyOfCopy(e) = KeyAt[<<e.blockNumber, last + rank>>]
           /\ last + rank \in 0..39 /\ e.blockNumber \in Nat
           /\ \A d \in Kept({}) : d.blockNumber = e.blockNumber => d.logIndex < last + rank
  <1> DEFINE last == Max(IndexesOf(e.blockNumber))
             rank == Cardinality(CopiedUpTo(e.blockNumber, e.logIndex))
  <1>1. /\ last \in 0..19 /\ rank \in 1..20
        /\ \A d \in Kept({}) : d.blockNumber = e.blockNumber => d.logIndex <= last
    BY CopyPlaces
  <1>2. e.blockNumber \in Nat /\ \A d \in Kept({}) : d.logIndex \in 0..19
    BY KeptIsEvent DEF OldKept, Block
  <1>3. KeyOfCopy(e) = e.blockNumber * PRIMARY_KEY_MULTIPLIER + last + rank
    BY DEF KeyOfCopy
  <1>4. PRIMARY_KEY_MULTIPLIER \in Nat
    BY TokenEventsAssumption
  <1>5. last = Max(IndexesOf(e.blockNumber)) /\ rank = Cardinality(CopiedUpTo(e.blockNumber, e.logIndex))
    OBVIOUS
  <1> HIDE DEF last, rank
  <1>7. last + rank \in 0..39
    BY <1>1
  <1>6. KeyOfCopy(e) = KeyAt[<<e.blockNumber, last + rank>>]
    <2>1. e.blockNumber * PRIMARY_KEY_MULTIPLIER \in Int
      BY <1>2, <1>4
    <2> QED
      BY <1>1, <1>2, <1>3, <1>7, <2>1 DEF KeyAt, Places
  <1>8. \A d \in Kept({}) : d.blockNumber = e.blockNumber => d.logIndex < last + rank
    BY <1>1, <1>2
  <1> QED
    BY <1>1, <1>2, <1>5, <1>6, <1>7, <1>8

(* No two events of a mode, copies included, share a key. *)
LEMMA KeyedEventsApart ==
  ASSUME chain \in [Block -> 1..4], NEW x \in KeyedEvents, NEW y \in KeyedEvents,
         mode = "exact" => x.blockNumber # CustomBlock /\ y.blockNumber # CustomBlock,
         x.primaryKey = y.primaryKey
  PROVE  x = y
  <1> DEFINE Of(z, e) == e \in ModeEvents /\ z = Keyed(e)
             Copied(z, e) == mode = "append" /\ e \in OldKept /\ z = KeyedCopy(e)
  <1>1. \A z \in KeyedEvents : (\E e : Of(z, e)) \/ (\E e : Copied(z, e))
    BY DEF KeyedEvents
  <1>2. ASSUME NEW z \in KeyedEvents, mode = "exact" => z.blockNumber # CustomBlock,
               NEW e, Of(z, e)
        PROVE  /\ e.blockNumber \in Nat /\ e.logIndex \in 0..19
               /\ mode = "exact" => e.blockNumber # CustomBlock
               /\ z.primaryKey = KeyAt[<<e.blockNumber, e.logIndex>>]
    <2>1. IsEvent(e) /\ KeyOf(e) \in Int
      BY <1>2, ModeEventIsEvent, KeyOfIsInt
    <2>2. z.primaryKey = KeyOf(e) /\ z.blockNumber = e.blockNumber
      BY <1>2, <2>1, KeyedFields DEF Keyed
    <2>3. e.blockNumber \in Nat /\ e.logIndex \in 0..19
      BY <1>2, <2>2, ModeEventPlace
    <2> QED
      BY <1>2, <2>2, <2>3 DEF KeyOf, KeyAt, Places
  <1>3. ASSUME NEW z \in KeyedEvents, NEW e, Copied(z, e)
        PROVE  z.primaryKey = KeyOfCopy(e)
    <2>1. IsEvent(e) /\ e \in OldKept
      BY <1>3, KeptIsEvent DEF OldKept
    <2>2. IsEvent(editAddressAndAmount(e))
      BY <2>1, EditIsEvent
    <2>3. KeyOfCopy(e) \in Int
      <3>1. PICK last \in 0..19, rank \in 1..20 :
              /\ KeyOfCopy(e) = KeyAt[<<e.blockNumber, last + rank>>]
              /\ e.blockNumber \in Nat /\ last + rank \in 0..39
        BY <2>1, CopyKeyPlace
      <3>2. e.blockNumber * PRIMARY_KEY_MULTIPLIER \in Int
        BY <3>1, TokenEventsAssumption
      <3> QED
        BY <3>1, <3>2 DEF KeyAt, Places
    <2>4. z = Extend(editAddressAndAmount(e), [primaryKey |-> KeyOfCopy(e)])
      BY <1>3 DEF KeyedCopy
    <2> QED
      BY <2>2, <2>3, <2>4, KeyedFields
  <1>4. ASSUME NEW e, NEW d, Of(x, e), Of(y, d) PROVE x = y
    <2>1. /\ e.blockNumber \in Nat /\ e.logIndex \in 0..39
          /\ d.blockNumber \in Nat /\ d.logIndex \in 0..39
          /\ KeyAt[<<e.blockNumber, e.logIndex>>] = KeyAt[<<d.blockNumber, d.logIndex>>]
          /\ mode = "exact" => e.blockNumber # CustomBlock
      BY <1>2, <1>4
    <2>2. e.blockNumber = d.blockNumber /\ e.logIndex = d.logIndex
      BY <2>1, KeysApart DEF Places
    <2>3. e = d
      BY <1>4, <2>1, <2>2, ModeEventsApart
    <2> QED
      BY <1>4, <2>3
  <1>5. ASSUME NEW z \in KeyedEvents, NEW w \in KeyedEvents, z.primaryKey = w.primaryKey,
               mode = "exact" => z.blockNumber # CustomBlock,
               NEW e, NEW d, Of(z, e), Copied(w, d)
        PROVE  FALSE
    <2>1. PICK last \in 0..19, rank \in 1..20 :
            /\ KeyOfCopy(d) = KeyAt[<<d.blockNumber, last + rank>>]
            /\ last + rank \in 0..39 /\ d.blockNumber \in Nat
            /\ \A c \in Kept({}) : c.blockNumber = d.blockNumber => c.logIndex < last + rank
      BY <1>5, CopyKeyPlace
    <2>2. /\ e.blockNumber \in Nat /\ e.logIndex \in 0..19
          /\ z.primaryKey = KeyAt[<<e.blockNumber, e.logIndex>>]
      BY <1>2, <1>5
    <2>3. KeyAt[<<e.blockNumber, e.logIndex>>] = KeyAt[<<d.blockNumber, last + rank>>]
      BY <1>3, <1>5, <2>1, <2>2
    <2>4. e.logIndex \in 0..39
      BY <2>2
    <2>5. e.blockNumber = d.blockNumber /\ e.logIndex = last + rank
      BY <2>1, <2>2, <2>3, <2>4, KeysApart DEF Places
    <2>6. e \in Kept({})
      BY <1>5 DEF ModeEvents
    <2> QED
      BY <2>1, <2>2, <2>5, <2>6
  <1>6. ASSUME NEW e, NEW d, Copied(x, e), Copied(y, d) PROVE x = y
    <2>1. PICK last \in 0..19, rank \in 1..20 :
            /\ last = Max(IndexesOf(e.blockNumber))
            /\ rank = Cardinality(CopiedUpTo(e.blockNumber, e.logIndex))
            /\ KeyOfCopy(e) = KeyAt[<<e.blockNumber, last + rank>>]
            /\ last + rank \in 0..39 /\ e.blockNumber \in Nat
      BY <1>6, CopyKeyPlace
    <2>2. PICK end \in 0..19, turn \in 1..20 :
            /\ end = Max(IndexesOf(d.blockNumber))
            /\ turn = Cardinality(CopiedUpTo(d.blockNumber, d.logIndex))
            /\ KeyOfCopy(d) = KeyAt[<<d.blockNumber, end + turn>>]
            /\ end + turn \in 0..39 /\ d.blockNumber \in Nat
      BY <1>6, CopyKeyPlace
    <2>3. KeyOfCopy(e) = KeyOfCopy(d)
      BY <1>3, <1>6
    <2>4. e.blockNumber = d.blockNumber /\ last + rank = end + turn
      BY <2>1, <2>2, <2>3, KeysApart DEF Places
    <2>5. rank = turn
      BY <2>1, <2>2, <2>4
    <2>6. ~(e.logIndex < d.logIndex) /\ ~(d.logIndex < e.logIndex)
      BY <1>6, <2>1, <2>2, <2>4, <2>5, CopyOrder
    <2>7. /\ e.logIndex \in 0..19 /\ d.logIndex \in 0..19
          /\ e \in EventsOf(FALSE, {}) /\ d \in EventsOf(FALSE, {})
      BY <1>6, KeptIsEvent DEF OldKept, Kept, KeptOf
    <2>8. e.logIndex = d.logIndex
      BY <2>6, <2>7
    <2>9. e = d
      BY <2>4, <2>7, <2>8, SameEvent, Zenon
    <2> QED
      BY <1>6, <2>9
  <1> HIDE DEF Of, Copied
  <1> QED
    BY <1>1, <1>4, <1>5, <1>6

-----------------------------------------------------------------------------
(* What is in Kafka                                                        *)

(* A step leaves the chain; new events come of work() and go to Kafka by      *)
(* Store.                                                                    *)
LEMMA StepKinds ==
  ASSUME [Next]_vars
  PROVE  /\ chain' = chain /\ mode' = mode
         /\ \/ WorkTokens \/ WorkRecords \/ WorkEth \/ WorkEthLossy \/ Store
            \/ topic' = topic /\ events' = <<>>
            \/ topic' = topic /\ events' = events
  <1> DEFINE Kind == /\ chain' = chain /\ mode' = mode
                     /\ \/ WorkTokens \/ WorkRecords \/ WorkEth \/ WorkEthLossy \/ Store
                        \/ topic' = topic /\ events' = <<>>
                        \/ topic' = topic /\ events' = events
  <1>1. CASE WorkEth
    <2>1. Throw \/ \E result, key : Return(result, key)
      BY <1>1, WorkOnBlocksCases DEF WorkEth
    <2> QED
      BY <1>1, <2>1 DEF Throw, Return, nodeVars
  <1>2. CASE WorkEthLossy
    <2>1. \E b : WorkOnBlocks(SortedTransfers(fetchData(b)))
      BY <1>2 DEF WorkEthLossy
    <2>2. Throw \/ \E result, key : Return(result, key)
      BY <2>1, WorkOnBlocksCases
    <2> QED
      BY <1>2, <2>2 DEF Throw, Return, nodeVars
  <1>3. CASE WorkTokens
    BY <1>3 DEF WorkTokens, Return, nodeVars
  <1>4. CASE WorkRecords
    BY <1>4 DEF WorkRecords, Return, nodeVars
  <1>5. CASE Store
    BY <1>5 DEF Store, nodeVars
  <1>6. CASE InitWorker \/ Save
    BY <1>6 DEF InitWorker, Save, nodeVars, workerVars
  <1>7. CASE WorkIdle
    BY <1>7 DEF WorkIdle, nodeVars
  <1>8. CASE WorkThrows \/ Crash
    BY <1>8 DEF WorkThrows, Throw, Crash, Fresh, nodeVars
  <1>9. CASE GrowChain
    BY <1>9 DEF GrowChain, workerVars
  <1>10. CASE UNCHANGED vars
    BY <1>10 DEF vars, nodeVars, workerVars
  <1> QED
    BY <1>1, <1>2, <1>3, <1>4, <1>5, <1>6, <1>7, <1>8, <1>9, <1>10 DEF Next, Step

(* The events of a mode are those of the chain, which does not change. *)
LEMMA KeyedEventsStay ==
  ASSUME chain' = chain, mode' = mode
  PROVE  KeyedEvents' = KeyedEvents
  <1>1. ChainLogs' = ChainLogs
    BY DEF ChainLogs
  <1>2. \A C : LogsOf(C)' = LogsOf(C)
    BY <1>1 DEF LogsOf
  <1>3. \A matic, C : EventsOf(matic, C)' = EventsOf(matic, C)
    BY <1>2 DEF EventsOf
  <1>4. \A C : Kept(C)' = Kept(C)
    BY <1>3 DEF Kept
  <1>5. OldEvents' = OldEvents /\ OtherEvents' = OtherEvents
    BY <1>4 DEF OldEvents, OtherEvents
  <1>6. ModeEvents' = ModeEvents
    BY <1>3, <1>4, <1>5 DEF ModeEvents, ExactEvents
  <1>7. OldKept' = OldKept
    BY <1>4 DEF OldKept
  <1>8. \A b : IndexesOf(b)' = IndexesOf(b)
    BY <1>4 DEF IndexesOf
  <1>9. \A b, i : CopiedUpTo(b, i)' = CopiedUpTo(b, i)
    BY <1>7 DEF CopiedUpTo
  <1>10. \A e : KeyedCopy(e)' = KeyedCopy(e)
    BY <1>8, <1>9 DEF KeyedCopy, KeyOfCopy
  <1> QED
    BY <1>6, <1>7, <1>10 DEF KeyedEvents

(* The ERC20 and Matic workers export events of their mode only. *)
TokensExported ==
  mode \in TokenModes => topic \subseteq KeyedEvents /\ ToSet(events) \subseteq KeyedEvents

(* Every step stores and sends only what the mode exports, with its key. *)
LEMMA TokensExportedStep ==
  ASSUME Types, Heights, TokensExported, [Next]_vars
  PROVE  TokensExported'
  <1> SUFFICES ASSUME mode \in TokenModes
               PROVE  (topic \subseteq KeyedEvents /\ ToSet(events) \subseteq KeyedEvents)'
    BY StepKinds DEF TokensExported
  <1>1. chain' = chain /\ mode' = mode
    BY StepKinds
  <1>2. KeyedEvents' = KeyedEvents
    BY <1>1, KeyedEventsStay
  <1>3. topic \subseteq KeyedEvents /\ ToSet(events) \subseteq KeyedEvents
    BY DEF TokensExported
  <1>4. ~WorkRecords /\ ~WorkEth /\ ~WorkEthLossy
    BY DEF WorkRecords, WorkEth, WorkEthLossy, RecordModes, TokenModes
  <1>5. CASE WorkTokens
    <2>1. PICK reversed \in BOOLEAN :
             events' = TokenWork(BlockAnswers(reversed)).events /\ topic' = topic /\ HasWork
      BY <1>5 DEF WorkTokens, Return
    <2>2. /\ Interval.fromBlock \in Nat /\ Interval.toBlock \in Nat
          /\ Interval.fromBlock <= Interval.toBlock /\ chain \in [Block -> 1..4]
      BY <2>1, IntervalBounds DEF Types
    <2>3. events' \in Seq(KeyedEvents)
      BY <2>1, <2>2, TokenWorkEvents
    <2>4. ToSet(events') \subseteq KeyedEvents
      BY <2>3 DEF ToSet
    <2> QED
      BY <1>2, <1>3, <2>1, <2>4 DEF ToSet
  <1>6. CASE Store
    <2>1. topic' = topic \cup ToSet(events) /\ events' = events
      BY <1>6 DEF Store, workerVars
    <2> QED
      BY <1>2, <1>3, <2>1 DEF ToSet
  <1>7. CASE topic' = topic /\ events' = <<>>
    BY <1>2, <1>3, <1>7 DEF ToSet
  <1>8. CASE topic' = topic /\ events' = events
    BY <1>2, <1>3, <1>8 DEF ToSet
  <1> QED
    BY <1>4, <1>5, <1>6, <1>7, <1>8, StepKinds

(* TokensExported is the inductive strengthening of KeysIdentify. *)
LEMMA TokensAreExported == Spec => [](Types /\ Heights /\ TokensExported)
  <1>1. Init => TokensExported
    BY DEF Init, TokensExported, ToSet
  <1>2. Types /\ Heights /\ TokensExported /\ [Next]_vars => TokensExported'
    BY TokensExportedStep
  <1> QED
    BY <1>1, <1>2, TypesAndHeights, PTL DEF Spec

(* KeysIdentify: whatever the batches, their repetitions and the order of the *)
(* answers, no two token transfers share a key, since the key is a place in   *)
(* the block that no batch changes, and the copies come after the last log.   *)
THEOREM TokenKeysIdentify == Spec => []KeysIdentify
  <1>1. Types /\ Heights /\ TokensExported => KeysIdentify
    <2> SUFFICES ASSUME Types, TokensExported, mode \in TokenModes,
                        NEW e \in topic, NEW f \in topic,
                        mode # "exact" \/ e.blockNumber # CustomBlock,
                        mode # "exact" \/ f.blockNumber # CustomBlock,
                        e.primaryKey = f.primaryKey
                 PROVE  e = f
      BY DEF KeysIdentify
    <2>1. e \in KeyedEvents /\ f \in KeyedEvents /\ chain \in [Block -> 1..4]
      BY DEF TokensExported, Types
    <2> QED
      BY <2>1, KeyedEventsApart
  <1> QED
    BY <1>1, TokensAreExported, PTL

-----------------------------------------------------------------------------
(* The records of the blocks                                               *)

EthTxs == {Plain, Creating, PartlyReverted, Failed}

Content(b) == IF b = 0 THEN 1 ELSE chain[b]

(* The transactions of a block *)
TxsOf(b) == EthContents[Content(b)]

(* What a block may hold *)
LEMMA EthContentsShape ==
  ASSUME NEW c \in 1..4
  PROVE  Len(EthContents[c]) \in 0..3 /\ \A i \in 1..Len(EthContents[c]) : EthContents[c][i] \in EthTxs
  <1>1. /\ EthContents[1] = <<>> /\ EthContents[2] = <<Plain>>
        /\ EthContents[3] = <<PartlyReverted, Creating>>
        /\ EthContents[4] = <<Plain, Failed, Creating>>
    BY DEF EthContents
  <1>2. CASE c = 1
    BY <1>1, <1>2
  <1>3. CASE c = 2
    <2>1. Len(<<Plain>>) = 1 /\ <<Plain>>[1] = Plain /\ \A i \in 1..1 : i = 1
      OBVIOUS
    <2>2. EthContents[c] = <<Plain>>
      BY <1>1, <1>3
    <2> QED
      BY <2>1, <2>2 DEF EthTxs
  <1>4. CASE c = 3
    <2>1. /\ Len(<<PartlyReverted, Creating>>) = 2
          /\ <<PartlyReverted, Creating>>[1] = PartlyReverted
          /\ <<PartlyReverted, Creating>>[2] = Creating
          /\ \A i \in 1..2 : i = 1 \/ i = 2
      OBVIOUS
    <2>2. EthContents[c] = <<PartlyReverted, Creating>>
      BY <1>1, <1>4
    <2> QED
      BY <2>1, <2>2 DEF EthTxs
  <1>5. CASE c = 4
    <2>1. /\ Len(<<Plain, Failed, Creating>>) = 3
          /\ <<Plain, Failed, Creating>>[1] = Plain /\ <<Plain, Failed, Creating>>[2] = Failed
          /\ <<Plain, Failed, Creating>>[3] = Creating
          /\ \A i \in 1..3 : i = 1 \/ i = 2 \/ i = 3
      OBVIOUS
    <2>2. EthContents[c] = <<Plain, Failed, Creating>>
      BY <1>1, <1>5
    <2> QED
      BY <2>1, <2>2 DEF EthTxs
  <1> QED
    BY <1>2, <1>3, <1>4, <1>5

(* A transaction with its place keeps what it moves and how it is traced. *)
LEMMA PlacedTx ==
  ASSUME NEW tx \in EthTxs, NEW p, NEW x, x = Extend(tx, [position |-> p])
  PROVE  /\ x.position = p /\ x.gasUsed = tx.gasUsed /\ x.traces = tx.traces
         /\ x.from = tx.from /\ x.gasPrice = tx.gasPrice
  <1> DEFINE m == [position |-> p]
  <1>1. DOMAIN m = {"position"} /\ m.position = p /\ x = Extend(tx, m)
    OBVIOUS
  <1>2. PICK from, gasPrice, moves, creates, traces :
               tx = EthTx(from, gasPrice, moves, creates, traces)
    BY DEF EthTxs, Plain, Creating, PartlyReverted, Failed
  <1>3. DOMAIN tx = {"from", "gasPrice", "gasUsed", "moves", "creates", "traces"}
    BY <1>2 DEF EthTx
  <1> HIDE DEF m
  <1> QED
    BY <1>1, <1>3 DEF Extend

(* What the node answers for a block *)
LEMMA TrueBlockFacts ==
  ASSUME chain \in [Block -> 1..4], NEW b \in 0..MaxBlock
  PROVE  /\ TrueBlock(b).number = b
         /\ Len(TrueBlock(b).transactions) = Len(TxsOf(b)) /\ Len(TxsOf(b)) \in 0..3
         /\ \A i \in 1..Len(TxsOf(b)) :
              /\ TxsOf(b)[i] \in EthTxs
              /\ TrueBlock(b).transactions[i].position = i - 1
              /\ TrueBlock(b).transactions[i].gasUsed = TxsOf(b)[i].gasUsed
              /\ TrueBlock(b).transactions[i].traces = TxsOf(b)[i].traces
  <1> DEFINE c == Content(b)
  <1>1. c \in 1..4
    BY EvmWorkersAssumption DEF Content, Block
  <1>2. TrueBlock(b) = EthBlock(c, b)
    BY DEF TrueBlock, Content
  <1> HIDE DEF c
  <1>3. /\ TrueBlock(b).number = b
        /\ TrueBlock(b).transactions = [i \in 1..Len(EthContents[c]) |->
                       Extend(EthContents[c][i], [position |-> i - 1])]
    BY <1>2 DEF EthBlock
  <1>4. Len(EthContents[c]) \in 0..3 /\ \A i \in 1..Len(EthContents[c]) : EthContents[c][i] \in EthTxs
    BY <1>1, EthContentsShape
  <1>5. TxsOf(b) = EthContents[c]
    BY DEF TxsOf, c
  <1>6. \A i \in 1..Len(EthContents[c]) :
          TrueBlock(b).transactions[i] = Extend(EthContents[c][i], [position |-> i - 1])
    BY <1>3
  <1>7. Len(TrueBlock(b).transactions) = Len(EthContents[c])
    BY <1>3, <1>4
  <1> QED
    BY <1>3, <1>4, <1>5, <1>6, <1>7, PlacedTx

(* The traces that no error took back, and that create a contract *)
CreatedIn(traces) ==
  {k \in DOMAIN traces : /\ ~traces[k].error /\ ~HasFailedParent(traces, k)
                         /\ traces[k].type = "create"}

(* created are the traces that create, and kept starts with a first trace     *)
(* that did not fail.                                                        *)
AreCreations(created, kept, traces, S) ==
  /\ created \in Seq(S)
  /\ \A i \in 1..Len(created) : \E k \in CreatedIn(traces) : created[i] = traces[k]
  /\ \A k \in CreatedIn(traces) : \E i \in 1..Len(created) : created[i] = traces[k]
  /\ Len(traces) >= 1 /\ traces[1].traceAddress = <<>> /\ ~traces[1].error => kept[1] = traces[1]

(* Filtering leaves those, and the first trace first. *)
LEMMA FilteredTraces ==
  ASSUME NEW S, NEW traces \in Seq(S), NEW kept, kept = filterErrors(traces),
         NEW makes, makes = {k \in DOMAIN kept : kept[k].type = "create"},
         NEW created, created = ElementsAt(kept, makes)
  PROVE  AreCreations(created, kept, traces, S)
  <1> DEFINE places == {k \in DOMAIN traces : ~traces[k].error /\ ~HasFailedParent(traces, k)}
  <1>1. kept = ElementsAt(traces, places)
    BY DEF filterErrors
  <1>0. DOMAIN traces = 1..Len(traces) /\ Len(traces) \in Nat
    OBVIOUS
  <1>2. /\ kept \in Seq(S)
        /\ \A p \in 1..Len(kept) : \E k \in 1..Len(traces) : k \in places /\ kept[p] = traces[k]
        /\ \A k \in 1..Len(traces) : k \in places => \E p \in 1..Len(kept) : kept[p] = traces[k]
    <2> HIDE DEF places
    <2>1. kept \in Seq(S) /\ IsSelection(kept, traces, places)
      BY <1>1, ElementsAtPlaces
    <2> QED
      BY <2>1 DEF IsSelection
  <1>3. created = ElementsAt(kept, makes)
    OBVIOUS
  <1>6. DOMAIN kept = 1..Len(kept)
    BY <1>2
  <1>7. \A k \in 1..Len(kept) : k \in makes <=> kept[k].type = "create"
    BY <1>6
  <1>8. \A k \in 1..Len(traces) : k \in CreatedIn(traces) <=> k \in places /\ traces[k].type = "create"
    BY <1>0 DEF CreatedIn
  <1>11. \A k \in CreatedIn(traces) : k \in 1..Len(traces)
    BY <1>0 DEF CreatedIn
  <1>12. 1 \in places <=> Len(traces) >= 1 /\ ~traces[1].error /\ ~HasFailedParent(traces, 1)
    BY <1>0
  <1> HIDE DEF places
  <1>4. /\ created \in Seq(S)
        /\ \A p \in 1..Len(created) : \E k \in 1..Len(kept) : k \in makes /\ created[p] = kept[k]
        /\ \A k \in 1..Len(kept) : k \in makes => \E p \in 1..Len(created) : created[p] = kept[k]
    <2>1. created \in Seq(S) /\ IsSelection(created, kept, makes)
      BY <1>2, <1>3, ElementsAtPlaces
    <2> QED
      BY <2>1 DEF IsSelection
  <1>5. ASSUME Len(traces) >= 1, traces[1].traceAddress = <<>>, ~traces[1].error
        PROVE  kept[1] = traces[1]
    <2>1. ~HasFailedParent(traces, 1)
      <3>1. Len(traces[1].traceAddress) = 0
        BY <1>5
      <3>2. 0..(Len(traces[1].traceAddress) - 1) = {}
        BY <3>1
      <3> QED
        BY <3>2 DEF HasFailedParent
    <2>2. 1 \in places
      BY <1>5, <1>12, <2>1
    <2> QED
      BY <1>1, <1>5, <2>2, ElementsAtFirst
  <1>9. \A i \in 1..Len(created) : \E k \in CreatedIn(traces) : created[i] = traces[k]
    <2> TAKE i \in 1..Len(created)
    <2>1. PICK j \in 1..Len(kept) : j \in makes /\ created[i] = kept[j]
      BY <1>4
    <2>2. PICK k \in 1..Len(traces) : k \in places /\ kept[j] = traces[k]
      BY <1>2
    <2>3. k \in CreatedIn(traces)
      BY <1>7, <1>8, <2>1, <2>2
    <2> QED
      BY <2>1, <2>2, <2>3
  <1>10. \A k \in CreatedIn(traces) : \E i \in 1..Len(created) : created[i] = traces[k]
    <2> TAKE k \in CreatedIn(traces)
    <2>1. k \in 1..Len(traces) /\ k \in places /\ traces[k].type = "create"
      BY <1>8, <1>11
    <2>2. PICK p \in 1..Len(kept) : kept[p] = traces[k]
      BY <1>2, <2>1
    <2>3. p \in makes
      BY <1>7, <2>1, <2>2
    <2> QED
      <3>1. PICK i \in 1..Len(created) : created[i] = kept[p]
        BY <1>4, <2>3
      <3> QED
        BY <2>2, <3>1
  <1> QED
    BY <1>4, <1>5, <1>9, <1>10 DEF AreCreations

(* The accounts and addresses of the creations of a transaction *)
CreationOf(b, p, creator, made) ==
  [blockNumber |-> b, transactionHash |-> p, address |-> made[1],
   address_creator |-> creator, address_fabric |-> made[2], timestamp |-> b]

(* What a trace of a creation is the report of *)
MadeBy(trace) == <<trace.to, IF trace.traceAddress = <<>> THEN "none" ELSE trace.from>>

(* A transaction without a creation in its traces *)
LEMMA NothingCreated ==
  ASSUME NEW tx \in {Plain, Failed}
  PROVE  CreatedIn(tx.traces) = {}
  <1>1. Plain.traces = <<Trace(<<>>, "call", "a", "b", 4, FALSE)>>
    BY DEF Plain, EthTx
  <1>2. Failed.traces = <<Trace(<<>>, "call", "a", "b", 9, TRUE), Trace(<<0>>, "call", "b", "c", 1, FALSE)>>
    BY DEF Failed, EthTx
  <1>3. CASE tx = Plain
    <2>1. DOMAIN tx.traces = 1..1 /\ tx.traces[1].type = "call"
      BY <1>1, <1>3 DEF Trace
    <2> QED
      BY <2>1 DEF CreatedIn
  <1>4. CASE tx = Failed
    <2>1. DOMAIN tx.traces = 1..2 /\ tx.traces[1].type = "call" /\ tx.traces[2].type = "call"
      BY <1>2, <1>4 DEF Trace
    <2> QED
      BY <2>1 DEF CreatedIn
  <1> QED
    BY <1>3, <1>4

(* The only root trace is the first. *)
LEMMA FirstIsRoot ==
  ASSUME NEW traces, NEW n \in Nat, DOMAIN traces = 1..n, n >= 1,
         \A k \in 1..n : traces[k].traceAddress = <<>> <=> k = 1
  PROVE  \A k \in 1..n : RootOf(traces, k) = 1
  <1> TAKE k \in 1..n
  <1>1. {j \in 1..k : traces[j].traceAddress = <<>>} = {1}
    OBVIOUS
  <1>2. 1 = CHOOSE x \in {1} : \A y \in {1} : x >= y
    OBVIOUS
  <1> QED
    BY <1>1, <1>2 DEF RootOf, Max

(* The creation below a failed call is taken back. *)
LEMMA RevertedCreation == CreatedIn(PartlyReverted.traces) = {}
  <1> DEFINE traces == PartlyReverted.traces
  <1>1. traces = <<Trace(<<>>, "call", "a", "c", 5, FALSE), Trace(<<0>>, "call", "c", "b", 2, TRUE),
          Trace(<<0, 0>>, "call", "b", "a", 1, FALSE), Trace(<<0, 0, 0>>, "create", "a", "b", 1, FALSE),
          Trace(<<1>>, "delegatecall", "a", "c", 5, FALSE)>>
    BY DEF PartlyReverted, EthTx
  <1>2. /\ DOMAIN traces = 1..5
        /\ traces[1].type = "call" /\ traces[2].type = "call" /\ traces[3].type = "call"
        /\ traces[5].type = "call" /\ traces[2].error
    BY <1>1 DEF Trace
  <1>3. /\ traces[1].traceAddress = <<>> /\ traces[2].traceAddress = <<0>>
        /\ traces[3].traceAddress = <<0, 0>> /\ traces[4].traceAddress = <<0, 0, 0>>
        /\ traces[5].traceAddress = <<1>>
    BY <1>1 DEF Trace
  <1> HIDE DEF traces
  <1>4. \A k \in 1..5 : RootOf(traces, k) = 1
    <2>1. \A k \in 1..5 : traces[k].traceAddress = <<>> <=> k = 1
      BY <1>3
    <2>2. 5 \in Nat /\ 5 >= 1 /\ DOMAIN traces = 1..5
      BY <1>2
    <2> QED
      BY ONLY <2>1, <2>2, FirstIsRoot
  <1>5. AtNode(traces, 1, <<0>>) = {2}
    <2>1. AtNode(traces, 1, <<0>>) = {j \in 1..5 : traces[j].traceAddress = <<0>>}
      BY <1>2, <1>4 DEF AtNode
    <2>2. \A j \in 1..5 : traces[j].traceAddress = <<0>> <=> j = 2
      BY <1>3
    <2> QED
      BY <2>1, <2>2
  <1>6. AtNode(traces, 1, <<0, 0, 0>>) = {4}
    <2>1. AtNode(traces, 1, <<0, 0, 0>>) = {j \in 1..5 : traces[j].traceAddress = <<0, 0, 0>>}
      BY <1>2, <1>4 DEF AtNode
    <2>2. \A j \in 1..5 : traces[j].traceAddress = <<0, 0, 0>> <=> j = 4
      BY <1>3, SMTT(30)
    <2> QED
      BY <2>1, <2>2
  <1>7. Max({2}) = 2 /\ Max({4}) = 4
    BY DEF Max
  <1>8. HasFailedParent(traces, 4)
    <2>1. RootOf(traces, 4) = 1 /\ traces[4].traceAddress = <<0, 0, 0>>
      BY <1>3, <1>4
    <2>2. SubSeq(<<0, 0, 0>>, 1, 1) = <<0>> /\ 1 \in 0..(Len(<<0, 0, 0>>) - 1)
      <3> DEFINE s == <<0, 0, 0>>
                 u == SubSeq(s, 1, 1)
      <3>1. s \in Seq(Int) /\ Len(s) = 3 /\ s[1] = 0 /\ s[1] \in Int
        OBVIOUS
      <3>2. u \in Seq(Int) /\ Len(u) = 1 /\ u[1] = 0
        <4> HIDE DEF s
        <4>1. \A i \in 1..1 : s[i] \in Int
          BY <3>1
        <4> QED
          BY <3>1, <4>1, SubSeqProperties, Z3
      <3>3. u = <<0>>
        <4>1. <<0>> \in Seq(Int) /\ Len(<<0>>) = 1 /\ <<0>>[1] = 0
          OBVIOUS
        <4> HIDE DEF u
        <4>2. \A i \in 1..Len(u) : u[i] = <<0>>[i]
          BY <3>2, <4>1
        <4> QED
          BY ONLY <3>2, <4>1, <4>2, SeqEqual
      <3> QED
        BY <3>1, <3>3
    <2>3. 4 = Max(AtNode(traces, 1, <<0, 0, 0>>))
      BY <1>6, <1>7
    <2>4. /\ AtNode(traces, 1, SubSeq(<<0, 0, 0>>, 1, 1)) # {}
          /\ traces[Max(AtNode(traces, 1, SubSeq(<<0, 0, 0>>, 1, 1)))].error
      BY <1>2, <1>5, <1>7, <2>2
    <2> QED
      BY <2>1, <2>2, <2>3, <2>4, Zenon DEF HasFailedParent
  <1> QED
    BY <1>2, <1>8 DEF CreatedIn, traces

(* Without a failed trace, every creation stays. *)
LEMMA CreationsStay == CreatedIn(Creating.traces) = {1, 2}
  <1> DEFINE traces == Creating.traces
  <1>1. traces = <<Trace(<<>>, "create", "b", "c", 3, FALSE), Trace(<<0>>, "create", "c", "d", 0, FALSE),
          Trace(<<1>>, "suicide", "c", "a", 3, FALSE)>>
    BY DEF Creating, EthTx
  <1>2. /\ DOMAIN traces = 1..3
        /\ traces[1].type = "create" /\ traces[2].type = "create" /\ traces[3].type = "suicide"
        /\ ~traces[1].error /\ ~traces[2].error /\ ~traces[3].error
    BY <1>1 DEF Trace
  <1> HIDE DEF traces
  <1>3. \A k \in 1..3 : ~HasFailedParent(traces, k)
    <2>1. ASSUME NEW S, S \subseteq 1..3, S # {} PROVE ~traces[Max(S)].error
      <3> DEFINE max == Max(S)
      <3>1. PICK x : x \in S
        BY <2>1
      <3>2. S \subseteq Int /\ 3 \in Int /\ \A y \in S : y <= 3
        BY <2>1
      <3>3. max = Max(S)
        OBVIOUS
      <3> HIDE DEF max
      <3>4. max \in S
        BY ONLY <3>1, <3>2, <3>3, MaxExists
      <3> QED
        BY <1>2, <2>1, <3>3, <3>4
    <2>2. \A root, path : AtNode(traces, root, path) \subseteq 1..3
      BY <1>2 DEF AtNode
    <2>3. \A root, path : AtNode(traces, root, path) # {} => ~traces[Max(AtNode(traces, root, path))].error
      BY <2>1, <2>2
    <2> QED
      BY <2>3, Zenon DEF HasFailedParent
  <1> QED
    BY <1>2, <1>3 DEF CreatedIn, traces

(* The traces of a transaction say what it creates. *)
LEMMA TracesOfTx ==
  ASSUME NEW tx \in EthTxs
  PROVE  /\ tx.traces \in Seq({tx.traces[k] : k \in DOMAIN tx.traces})
         /\ \A k \in CreatedIn(tx.traces) : MadeBy(tx.traces[k]) \in tx.creates
         /\ \A made \in tx.creates : \E k \in CreatedIn(tx.traces) : MadeBy(tx.traces[k]) = made
         /\ tx.creates # {} => /\ Len(tx.traces) >= 1 /\ tx.traces[1].traceAddress = <<>>
                               /\ ~tx.traces[1].error /\ tx.traces[1].from = tx.from
  <1>1. Plain.traces = <<Trace(<<>>, "call", "a", "b", 4, FALSE)>> /\ Plain.creates = {}
    BY DEF Plain, EthTx
  <1>2. /\ Failed.traces = <<Trace(<<>>, "call", "a", "b", 9, TRUE),
                              Trace(<<0>>, "call", "b", "c", 1, FALSE)>>
        /\ Failed.creates = {}
    BY DEF Failed, EthTx
  <1>3. /\ PartlyReverted.traces =
             <<Trace(<<>>, "call", "a", "c", 5, FALSE), Trace(<<0>>, "call", "c", "b", 2, TRUE),
               Trace(<<0, 0>>, "call", "b", "a", 1, FALSE), Trace(<<0, 0, 0>>, "create", "a", "b", 1, FALSE),
               Trace(<<1>>, "delegatecall", "a", "c", 5, FALSE)>>
        /\ PartlyReverted.creates = {}
    BY DEF PartlyReverted, EthTx
  <1>4. /\ Creating.traces =
             <<Trace(<<>>, "create", "b", "c", 3, FALSE), Trace(<<0>>, "create", "c", "d", 0, FALSE),
               Trace(<<1>>, "suicide", "c", "a", 3, FALSE)>>
        /\ Creating.creates = {<<"c", "none">>, <<"d", "c">>} /\ Creating.from = "b"
    BY DEF Creating, EthTx
  <1> DEFINE S == {tx.traces[k] : k \in DOMAIN tx.traces}
  <1>5. \A n \in Nat : (DOMAIN tx.traces = 1..n /\ tx.traces = [k \in 1..n |-> tx.traces[k]])
                         => tx.traces \in Seq(S)
    OBVIOUS
  <1>6. tx.traces \in Seq(S)
    <2>1. CASE tx = Plain
      <3>1. DOMAIN tx.traces = 1..1 /\ tx.traces = [k \in 1..1 |-> tx.traces[k]]
        BY <1>1, <2>1
      <3> QED
        BY <1>5, <3>1
    <2>2. CASE tx = Failed
      <3>1. DOMAIN tx.traces = 1..2 /\ tx.traces = [k \in 1..2 |-> tx.traces[k]]
        BY <1>2, <2>2
      <3> QED
        BY <1>5, <3>1
    <2>3. CASE tx = PartlyReverted
      <3>1. DOMAIN tx.traces = 1..5 /\ tx.traces = [k \in 1..5 |-> tx.traces[k]]
        BY <1>3, <2>3
      <3> QED
        BY <1>5, <3>1
    <2>4. CASE tx = Creating
      <3>1. DOMAIN tx.traces = 1..3 /\ tx.traces = [k \in 1..3 |-> tx.traces[k]]
        BY <1>4, <2>4
      <3> QED
        BY <1>5, <3>1
    <2> QED
      BY <2>1, <2>2, <2>3, <2>4 DEF EthTxs
  <1>7. CASE tx # Creating
    <2>1. tx.creates = {} /\ CreatedIn(tx.traces) = {}
      BY <1>1, <1>2, <1>3, <1>7, NothingCreated, RevertedCreation DEF EthTxs
    <2> QED
      BY <1>6, <2>1
  <1>8. CASE tx = Creating
    <2>1. CreatedIn(tx.traces) = {1, 2} /\ tx.creates = {<<"c", "none">>, <<"d", "c">>}
      BY <1>4, <1>8, CreationsStay
    <2>2. tx.traces =
             <<Trace(<<>>, "create", "b", "c", 3, FALSE), Trace(<<0>>, "create", "c", "d", 0, FALSE),
               Trace(<<1>>, "suicide", "c", "a", 3, FALSE)>>
      BY <1>4, <1>8
    <2>3. /\ Len(tx.traces) = 3
          /\ tx.traces[1] = Trace(<<>>, "create", "b", "c", 3, FALSE)
          /\ tx.traces[2] = Trace(<<0>>, "create", "c", "d", 0, FALSE)
      BY <2>2
    <2>4. /\ Len(tx.traces) = 3 /\ tx.traces[1].traceAddress = <<>>
          /\ ~tx.traces[1].error /\ tx.traces[1].from = tx.from
          /\ tx.traces[1].to = "c" /\ tx.traces[2].to = "d"
          /\ tx.traces[2].traceAddress # <<>> /\ tx.traces[2].from = "c"
      BY <1>4, <1>8, <2>3 DEF Trace
    <2>5. MadeBy(tx.traces[1]) = <<"c", "none">> /\ MadeBy(tx.traces[2]) = <<"d", "c">>
      BY <2>4 DEF MadeBy
    <2> QED
      BY <1>6, <2>1, <2>4, <2>5
  <1> QED
    BY <1>7, <1>8

(* The creations of a transaction *)
CreationsOf(b, p, tx) == {CreationOf(b, p, tx.from, made) : made \in tx.creates}

(* The creations read from a transaction's traces are those of the chain. *)
LEMMA CreationOutput ==
  ASSUME NEW tx \in EthTxs, NEW b, NEW p
  PROVE  Has(getCreationOutput(filterErrors(tx.traces), b, p, b), CreationsOf(b, p, tx))
  <1> DEFINE traces == tx.traces
             S == {tx.traces[k] : k \in DOMAIN tx.traces}
             kept == filterErrors(traces)
             makes == {k \in DOMAIN kept : kept[k].type = "create"}
             created == ElementsAt(kept, makes)
             out == getCreationOutput(kept, b, p, b)
             C == CreatedIn(traces)
             Record(made) == CreationOf(b, p, tx.from, made)
  <1>1. /\ traces \in Seq(S)
        /\ \A k \in C : MadeBy(traces[k]) \in tx.creates
        /\ \A made \in tx.creates : \E k \in C : MadeBy(traces[k]) = made
        /\ tx.creates # {} => /\ Len(traces) >= 1 /\ traces[1].traceAddress = <<>>
                              /\ ~traces[1].error /\ traces[1].from = tx.from
    BY TracesOfTx
  <1>2. /\ kept = filterErrors(traces) /\ created = ElementsAt(kept, makes)
        /\ makes = {k \in DOMAIN kept : kept[k].type = "create"}
    OBVIOUS
  <1>3. out = [i \in 1..Len(created) |-> CreationOf(b, p, kept[1].from, MadeBy(created[i]))]
    <2>1. out = [i \in 1..Len(created) |->
        [blockNumber |-> b, transactionHash |-> p, address |-> created[i].to,
         address_creator |-> kept[1].from,
         address_fabric  |-> IF created[i].traceAddress = <<>> THEN "none" ELSE created[i].from,
         timestamp       |-> b]]
      BY DEF getCreationOutput, Creator
    <2> HIDE DEF out, created, kept
    <2>2. \A i \in 1..Len(created) : CreationOf(b, p, kept[1].from, MadeBy(created[i])) =
        [blockNumber |-> b, transactionHash |-> p, address |-> created[i].to,
         address_creator |-> kept[1].from,
         address_fabric  |-> IF created[i].traceAddress = <<>> THEN "none" ELSE created[i].from,
         timestamp       |-> b]
      BY DEF CreationOf, MadeBy
    <2> QED
      BY <2>1, <2>2
  <1> HIDE DEF kept, makes, created, out, traces, S
  <1>4. /\ created \in Seq(S)
        /\ \A i \in 1..Len(created) : \E k \in CreatedIn(traces) : created[i] = traces[k]
        /\ \A k \in CreatedIn(traces) : \E i \in 1..Len(created) : created[i] = traces[k]
        /\ ( /\ Len(traces) >= 1 /\ traces[1].traceAddress = <<>> /\ ~traces[1].error
              => kept[1] = traces[1] )
    <2>1. traces \in Seq(S)
      BY <1>1
    <2>2. AreCreations(created, kept, traces, S)
      BY ONLY <1>2, <2>1, FilteredTraces
    <2> QED
      BY <2>2 DEF AreCreations
  <1>5. CreationsOf(b, p, tx) = {Record(made) : made \in tx.creates}
    BY DEF CreationsOf
  <1> HIDE DEF Record, C
  <1>6. \A i \in 1..Len(created) : out[i] = Record(MadeBy(created[i])) /\ MadeBy(created[i]) \in tx.creates
    <2> TAKE i \in 1..Len(created)
    <2>1. MadeBy(created[i]) \in tx.creates
      BY <1>1, <1>4 DEF C
    <2>2. kept[1].from = tx.from
      BY <1>1, <1>4, <2>1
    <2> QED
      BY <1>3, <2>1, <2>2 DEF Record
  <1>7. Len(created) \in Nat /\ Len(out) = Len(created) /\ DOMAIN out = 1..Len(created)
    BY <1>3, <1>4
  <1>8. out \in Seq(CreationsOf(b, p, tx))
    <2>1. \A i \in 1..Len(created) : out[i] \in CreationsOf(b, p, tx)
      BY <1>5, <1>6
    <2>2. out \in [1..Len(created) -> CreationsOf(b, p, tx)]
      BY <1>3, <2>1
    <2> QED
      BY <1>7, <2>2
  <1>9. ASSUME NEW made \in tx.creates PROVE \E i \in 1..Len(out) : out[i] = Record(made)
    <2>1. PICK k \in C : MadeBy(traces[k]) = made
      BY <1>1
    <2>2. PICK i \in 1..Len(created) : created[i] = traces[k]
      BY <1>4 DEF C
    <2> QED
      BY <1>6, <1>7, <2>1, <2>2
  <1>10. \A x \in CreationsOf(b, p, tx) : \E i \in 1..Len(out) : out[i] = x
    BY <1>5, <1>9
  <1> QED
    BY <1>8, <1>10 DEF Has, out, kept, traces

-----------------------------------------------------------------------------
(* The records of an interval                                              *)

(* A record of a receipt *)
ReceiptOf(b, p, tx) ==
  [blockNumber |-> b, transactionHash |-> p, gasUsed |-> tx.gasUsed, timestamp |-> b]

(* The receipts of a block are what the chain holds. *)
LEMMA ReceiptsOfBlock ==
  ASSUME chain \in [Block -> 1..4], mode = "receipts", NEW b \in 0..MaxBlock,
         NEW r, r = [i \in 1..Len(TrueBlock(b).transactions) |->
                      Extend(decodeReceipt(TrueBlock(b), i), [timestamp |-> b])]
  PROVE  Has(r, ChainRecords(b))
  <1> DEFINE txs == TxsOf(b)
             n == Len(txs)
  <1>1. /\ TrueBlock(b).number = b /\ Len(TrueBlock(b).transactions) = n /\ n \in 0..3
        /\ \A i \in 1..n : /\ TrueBlock(b).transactions[i].position = i - 1
                           /\ TrueBlock(b).transactions[i].gasUsed = txs[i].gasUsed
    BY TrueBlockFacts
  <1>2. ChainRecords(b) = {ReceiptOf(b, i - 1, txs[i]) : i \in DOMAIN txs}
    BY DEF ChainRecords, TxsOf, Content, ReceiptOf
  <1>3. DOMAIN txs = 1..n
    <2>1. Content(b) \in 1..4
      BY EvmWorkersAssumption DEF Content, Block
    <2>2. \A c \in 1..4 : DOMAIN EthContents[c] = 1..Len(EthContents[c])
      BY DEF EthContents
    <2> QED
      BY <2>1, <2>2 DEF TxsOf
  <1> HIDE DEF txs, n
  <1>4. \A i \in 1..n : Extend(decodeReceipt(TrueBlock(b), i), [timestamp |-> b]) = ReceiptOf(b, i - 1, txs[i])
    <2> TAKE i \in 1..n
    <2>1. decodeReceipt(TrueBlock(b), i)
            = [blockNumber |-> b, transactionHash |-> i - 1, gasUsed |-> txs[i].gasUsed]
      BY <1>1 DEF decodeReceipt
    <2> QED
      BY <2>1 DEF Extend, ReceiptOf
  <1>5. r = [i \in 1..n |-> ReceiptOf(b, i - 1, txs[i])]
    BY <1>1, <1>4
  <1>6. Len(r) = n /\ DOMAIN r = 1..n /\ n \in Nat
    BY <1>1, <1>5
  <1>7. \A i \in 1..n : r[i] \in ChainRecords(b)
    BY <1>2, <1>3, <1>5
  <1>8. r \in Seq(ChainRecords(b))
    <2>1. r \in [1..n -> ChainRecords(b)]
      BY <1>5, <1>7
    <2> QED
      BY <1>6, <2>1
  <1>9. \A x \in ChainRecords(b) : \E p \in 1..Len(r) : r[p] = x
    BY <1>2, <1>3, <1>5, <1>6
  <1> QED
    BY <1>8, <1>9 DEF Has

(* The creations of a block are what the chain holds. *)
LEMMA CreationsOfBlock ==
  ASSUME chain \in [Block -> 1..4], mode = "eth_contracts", NEW b \in 0..MaxBlock,
         NEW ss, ss = [i \in 1..Len(TrueBlock(b).transactions) |->
                        getCreationOutput(filterErrors(TrueBlock(b).transactions[i].traces), b,
                                          TrueBlock(b).transactions[i].position, b)]
  PROVE  Has(FlattenSeq(ss), ChainRecords(b))
  <1> DEFINE txs == TxsOf(b)
             n == Len(txs)
             X == [i \in 1..n |-> CreationsOf(b, i - 1, txs[i])]
             at == [i \in 1..n |-> i]
             all == ChainRecords(b)
             I == 1..n
  <1>1. /\ Len(TrueBlock(b).transactions) = n /\ n \in 0..3
        /\ \A i \in 1..n : /\ txs[i] \in EthTxs
                           /\ TrueBlock(b).transactions[i].position = i - 1
                           /\ TrueBlock(b).transactions[i].traces = txs[i].traces
    BY TrueBlockFacts
  <1>2. ChainRecords(b)
          = UNION {{CreationOf(b, i - 1, txs[i].from, made) : made \in txs[i].creates} : i \in DOMAIN txs}
    BY DEF ChainRecords, TxsOf, Content, CreationOf
  <1>3. DOMAIN txs = 1..n
    <2>1. Content(b) \in 1..4
      BY EvmWorkersAssumption DEF Content, Block
    <2>2. \A c \in 1..4 : DOMAIN EthContents[c] = 1..Len(EthContents[c])
      BY DEF EthContents
    <2> QED
      BY <2>1, <2>2 DEF TxsOf
  <1> HIDE DEF txs, n
  <1>4. \A i \in 1..n : Has(ss[i], X[i])
    <2> TAKE i \in 1..n
    <2>1. ss[i] = getCreationOutput(filterErrors(txs[i].traces), b, i - 1, b)
      BY <1>1
    <2>2. Has(getCreationOutput(filterErrors(txs[i].traces), b, i - 1, b), CreationsOf(b, i - 1, txs[i]))
      BY <1>1, CreationOutput
    <2> QED
      BY <2>1, <2>2
  <1>5. ss = [i \in 1..n |-> ss[i]] /\ n \in Nat
    BY <1>1
  <1>6. \A x : x \in all <=> \E i \in I : x \in X[i]
    BY <1>2, <1>3 DEF CreationsOf
  <1>7. \A i \in 1..n : at[i] \in I /\ at[i] = i
    OBVIOUS
  <1>8. \A i \in I : \E j \in 1..n : at[j] = i
    BY <1>7
  <1> HIDE DEF X, at, all, I
  <1>9. \A i \in 1..n : at[i] \in I /\ Has(ss[i], X[at[i]])
    BY <1>4, <1>7
  <1>10. Has(FlattenSeq(ss), all)
    <2>1. PartsHave(ss, n, X, I, at)
      BY ONLY <1>5, <1>8, <1>9 DEF PartsHave
    <2>2. IsUnionOf(all, X, I)
      BY ONLY <1>6 DEF IsUnionOf
    <2> QED
      BY ONLY <1>5, <2>1, <2>2, FlattenHas
  <1> QED
    BY <1>10 DEF all

(* What the workers without keys return has the records of the blocks of the  *)
(* interval, whatever the order of the answers.                              *)
LEMMA RecordWorkHas ==
  ASSUME chain \in [Block -> 1..4], mode \in RecordModes,
         NEW f \in Nat, NEW t \in Nat, f <= t, t <= MaxBlock,
         Interval.fromBlock = f, Interval.toBlock = t, NEW reversed \in BOOLEAN,
         NEW all, \A x : x \in all <=> \E b \in f..t : x \in ChainRecords(b)
  PROVE  Has(RecordWork(BlockAnswers(reversed)), all)
  <1> DEFINE B == BlockAnswers(reversed)
             n == t - f + 1
             I == f..t
             X == [b \in I |-> ChainRecords(b)]
  <1>1. AreAnswers(B, f, t, n)
    BY Answers
  <1>2. TimestampStore(B, f) = [b \in f..t |-> b]
    BY TimesOfAnswers
  <1>3. /\ n \in Nat /\ Len(B) = n /\ DOMAIN B = 1..n
        /\ \A i \in 1..n : B[i].number \in I /\ B[i].timestamp = B[i].number
        /\ \A b \in I : \E i \in 1..n : B[i].number = b
    <2>1. n \in Nat
      OBVIOUS
    <2> HIDE DEF n, B
    <2> QED
      BY <1>1, <2>1 DEF AreAnswers
  <1>4. \A x : x \in all <=> \E b \in I : x \in X[b]
    OBVIOUS
  <1>5. \A b \in I : b \in 0..MaxBlock /\ X[b] = ChainRecords(b)
    BY EvmWorkersAssumption
  <1>6. \A b \in I : TimestampStore(B, f)[b] = b
    BY <1>2
  <1>7. \A i \in 1..n : f + i - 1 \in I
    OBVIOUS
  <1>8. \A b \in I : b - f + 1 \in 1..n /\ f + (b - f + 1) - 1 = b
    OBVIOUS
  <1> DEFINE number == [i \in 1..n |-> B[i].number]
             place == [i \in 1..n |-> f + i - 1]
  <1>9. \A i \in 1..n : number[i] = B[i].number /\ place[i] = f + i - 1
    OBVIOUS
  <1> HIDE DEF B, n, I, X, number, place
  <1>10. CASE mode = "receipts"
    <2> DEFINE ss == [i \in 1..n |-> [j \in 1..Len(TrueBlock(B[i].number).transactions) |->
                        Extend(decodeReceipt(TrueBlock(B[i].number), j), [timestamp |-> B[i].number])]]
    <2>1. RecordWork(B) = getReceiptsForBlocks(B)
      BY <1>10 DEF RecordWork
    <2>2. getReceiptsForBlocks(B) = FlattenSeq(ss)
      <3>1. getReceiptsForBlocks(B) = FlattenSeq([i \in 1..n |->
               [j \in 1..Len(TrueBlock(B[i].number).transactions) |->
                  Extend(decodeReceipt(TrueBlock(B[i].number), j),
                         [timestamp |-> TimestampStore(B, f)[TrueBlock(B[i].number).number]])]])
        BY <1>3 DEF getReceiptsForBlocks, prepareBlockTimestampsObject
      <3>2. \A i \in 1..n : TimestampStore(B, f)[TrueBlock(B[i].number).number] = B[i].number
        BY <1>3, <1>5, <1>6, TrueBlockFacts
      <3>3. [i \in 1..n |->
               [j \in 1..Len(TrueBlock(B[i].number).transactions) |->
                  Extend(decodeReceipt(TrueBlock(B[i].number), j),
                         [timestamp |-> TimestampStore(B, f)[TrueBlock(B[i].number).number]])]] = ss
        BY <3>2
      <3> QED
        BY <3>1, <3>3
    <2>3. \A i \in 1..n : Has(ss[i], X[number[i]]) /\ number[i] \in I
      <3> TAKE i \in 1..n
      <3>1. number[i] = B[i].number /\ B[i].number \in I /\ B[i].number \in 0..MaxBlock
        BY <1>3, <1>5, <1>9
      <3>2. ss[i] = [j \in 1..Len(TrueBlock(B[i].number).transactions) |->
                        Extend(decodeReceipt(TrueBlock(B[i].number), j), [timestamp |-> B[i].number])]
        OBVIOUS
      <3> HIDE DEF ss
      <3>3. Has(ss[i], ChainRecords(B[i].number))
        BY <1>10, <3>1, <3>2, ReceiptsOfBlock
      <3> QED
        BY <1>5, <3>1, <3>3
    <2>4. ss = [i \in 1..n |-> ss[i]]
      OBVIOUS
    <2>5. \A b \in I : \E i \in 1..n : number[i] = b
      BY <1>3, <1>9
    <2> HIDE DEF ss
    <2>6. Has(FlattenSeq(ss), all)
      <3>1. PartsHave(ss, n, X, I, number)
        BY ONLY <1>3, <2>3, <2>4, <2>5 DEF PartsHave
      <3>2. IsUnionOf(all, X, I)
        BY ONLY <1>4 DEF IsUnionOf
      <3> QED
        BY ONLY <1>3, <3>1, <3>2, FlattenHas
    <2> QED
      BY <2>1, <2>2, <2>6 DEF B
  <1>11. CASE mode = "eth_blocks"
    <2> DEFINE r == [i \in 1..n |-> decodeBlock(B[i])]
    <2>1. RecordWork(B) = r
      BY <1>3, <1>11 DEF RecordWork
    <2>2. \A b \in I : ChainRecords(b)
                         = {[blockNumber |-> b, timestamp |-> b, transactionCount |-> Len(TxsOf(b))]}
      BY <1>11 DEF ChainRecords, TxsOf, Content
    <2>3. \A i \in 1..n : ChainRecords(B[i].number) = {decodeBlock(B[i])}
      <3> TAKE i \in 1..n
      <3>1. B[i].number \in I /\ B[i].timestamp = B[i].number /\ B[i].number \in 0..MaxBlock
        BY <1>3, <1>5
      <3>2. Len(TrueBlock(B[i].number).transactions) = Len(TxsOf(B[i].number))
        BY <3>1, TrueBlockFacts
      <3> QED
        BY <2>2, <3>1, <3>2 DEF decodeBlock
    <2>4. \A i \in 1..n : r[i] \in all
      <3> TAKE i \in 1..n
      <3>1. B[i].number \in I
        BY <1>3
      <3>2. r[i] \in ChainRecords(B[i].number)
        BY <2>3
      <3>3. r[i] \in X[B[i].number]
        BY <1>5, <3>1, <3>2
      <3> QED
        BY ONLY <1>4, <3>1, <3>3
    <2>5. r \in Seq(all) /\ Len(r) = n
      <3>1. r \in [1..n -> all]
        BY <2>4
      <3> QED
        BY <1>3, <3>1
    <2>6. \A x \in all : \E p \in 1..Len(r) : r[p] = x
      <3> TAKE x \in all
      <3>1. PICK b \in I : x \in ChainRecords(b)
        BY <1>4, <1>5
      <3>2. PICK i \in 1..n : B[i].number = b
        BY <1>3
      <3>3. r[i] = x
        BY <2>3, <3>1, <3>2
      <3> QED
        BY <2>5, <3>3
    <2> QED
      BY <2>1, <2>5, <2>6 DEF Has, B
  <1>12. CASE mode = "eth_contracts"
    <2> DEFINE Of(b) == [i \in 1..Len(TrueBlock(b).transactions) |->
                          getCreationOutput(filterErrors(TrueBlock(b).transactions[i].traces), b,
                                            TrueBlock(b).transactions[i].position, b)]
               ss == [i \in 1..n |-> FlattenSeq(Of(f + i - 1))]
    <2>1. RecordWork(B) = CreatedContracts(B)
      BY <1>12 DEF RecordWork
    <2>2. CreatedContracts(B) = FlattenSeq(ss)
      <3>1. CreatedContracts(B) = FlattenSeq([i \in 1..n |-> FlattenSeq(
               [j \in 1..Len(TrueBlock(f + i - 1).transactions) |->
                  getCreationOutput(filterErrors(TrueBlock(f + i - 1).transactions[j].traces), f + i - 1,
                                    TrueBlock(f + i - 1).transactions[j].position,
                                    TimestampStore(B, f)[f + i - 1])])])
        BY <1>3 DEF CreatedContracts
      <3>2. \A i \in 1..n : TimestampStore(B, f)[f + i - 1] = f + i - 1
        BY <1>6, <1>7
      <3>3. \A i \in 1..n :
               [j \in 1..Len(TrueBlock(f + i - 1).transactions) |->
                  getCreationOutput(filterErrors(TrueBlock(f + i - 1).transactions[j].traces), f + i - 1,
                                    TrueBlock(f + i - 1).transactions[j].position,
                                    TimestampStore(B, f)[f + i - 1])] = Of(f + i - 1)
        BY <3>2
      <3> HIDE DEF Of
      <3> QED
        BY <3>1, <3>3
    <2>3. \A b \in I : Has(FlattenSeq(Of(b)), ChainRecords(b))
      <3> TAKE b \in I
      <3> DEFINE s == Of(b)
      <3>1. s = [i \in 1..Len(TrueBlock(b).transactions) |->
                          getCreationOutput(filterErrors(TrueBlock(b).transactions[i].traces), b,
                                            TrueBlock(b).transactions[i].position, b)]
        OBVIOUS
      <3> HIDE DEF s
      <3>2. Has(FlattenSeq(s), ChainRecords(b))
        BY <1>5, <1>12, <3>1, CreationsOfBlock
      <3> QED
        BY <3>2 DEF s
    <2> HIDE DEF Of
    <2>4. \A i \in 1..n : place[i] \in I /\ Has(ss[i], X[place[i]])
      <3> TAKE i \in 1..n
      <3>1. place[i] = f + i - 1 /\ f + i - 1 \in I
        BY <1>7, <1>9
      <3> QED
        BY <1>5, <2>3, <3>1
    <2>5. ss = [i \in 1..n |-> ss[i]]
      OBVIOUS
    <2>6. \A b \in I : \E i \in 1..n : place[i] = b
      BY <1>8, <1>9
    <2> HIDE DEF ss
    <2>7. Has(FlattenSeq(ss), all)
      <3>1. PartsHave(ss, n, X, I, place)
        BY ONLY <1>3, <2>4, <2>5, <2>6 DEF PartsHave
      <3>2. IsUnionOf(all, X, I)
        BY ONLY <1>4 DEF IsUnionOf
      <3> QED
        BY ONLY <1>3, <3>1, <3>2, FlattenHas
    <2> QED
      BY <2>1, <2>2, <2>7 DEF B
  <1> QED
    BY <1>10, <1>11, <1>12 DEF RecordModes

(* Kafka has the records of confirmed blocks, of all blocks up to the saved   *)
(* position, and once a batch is stored of its blocks too.                   *)
RecordsExported ==
  mode \in RecordModes =>
    /\ \A x \in topic : \E b \in 0..confirmed : x \in ChainRecords(b)
    /\ \A b \in 0..saved.block : ChainRecords(b) \subseteq topic
    /\ pc = "store" => \A x : x \in ToSet(events) <=>
                                \E b \in (saved.block + 1)..lastExportedBlock : x \in ChainRecords(b)
    /\ pc = "save" => \A b \in 0..lastExportedBlock : ChainRecords(b) \subseteq topic

(* A batch returns the records of its blocks. *)
LEMMA WorkRecordsHas ==
  ASSUME Types, Heights, mode \in RecordModes, WorkRecords
  PROVE  /\ \A x : x \in ToSet(events') <=>
                     \E b \in (saved.block + 1)..lastExportedBlock' : x \in ChainRecords(b)
         /\ topic' = topic /\ saved' = saved /\ confirmed' = confirmed /\ lastExportedBlock' \in Int
         /\ pc' = "store" \/ (pc' = "save" /\ ToSet(events') = {})
  <1>1. HasWork
    BY DEF WorkRecords
  <1>2. PICK reversed \in BOOLEAN : Return(RecordWork(BlockAnswers(reversed)), lastPrimaryKey)
    BY DEF WorkRecords
  <1> DEFINE f == saved.block + 1
             t == Interval.toBlock
             all == UNION {ChainRecords(b) : b \in f..t}
             r == RecordWork(BlockAnswers(reversed))
  <1>3. /\ f \in Nat /\ t \in Nat /\ f <= t /\ t <= MaxBlock
        /\ Interval.fromBlock = f /\ Interval.toBlock = t
    BY <1>1, IntervalBounds, EvmWorkersAssumption
  <1>4. \A x : x \in all <=> \E b \in f..t : x \in ChainRecords(b)
    OBVIOUS
  <1>5. events' = r /\ lastExportedBlock' = t /\ pc' = IF r = <<>> THEN "save" ELSE "store"
    BY <1>2 DEF Return
  <1>6. topic' = topic /\ saved' = saved /\ confirmed' = confirmed
    BY <1>2 DEF Return, nodeVars
  <1> HIDE DEF f, t, all
  <1>7. Has(r, all)
    BY <1>3, <1>4, RecordWorkHas DEF Types
  <1> HIDE DEF r
  <1>8. \A x : x \in ToSet(r) <=> x \in all
    <2>1. r \in Seq(all) /\ \A x \in all : \E p \in 1..Len(r) : r[p] = x
      BY <1>7 DEF Has
    <2>2. DOMAIN r = 1..Len(r) /\ \A p \in 1..Len(r) : r[p] \in all
      BY <2>1
    <2> QED
      BY <2>1, <2>2 DEF ToSet
  <1>9. r = <<>> => ToSet(r) = {}
    BY DEF ToSet
  <1>10. \A x : x \in ToSet(events') <=> \E b \in f..t : x \in ChainRecords(b)
    BY <1>4, <1>5, <1>8
  <1> QED
    BY <1>3, <1>5, <1>6, <1>9, <1>10 DEF f

(* Every step keeps to the records of the chain: what a batch sends is stored *)
(* before its position is saved.                                             *)
LEMMA RecordsExportedStep ==
  ASSUME Types, Heights, RecordsExported, [Next]_vars
  PROVE  RecordsExported'
  <1>1. chain' = chain /\ mode' = mode
    BY StepKinds
  <1> SUFFICES ASSUME mode \in RecordModes
               PROVE  /\ (\A x \in topic : \E b \in 0..confirmed : x \in ChainRecords(b))'
                      /\ (\A b \in 0..saved.block : ChainRecords(b) \subseteq topic)'
                      /\ (pc = "store" => \A x : x \in ToSet(events) <=>
                            \E b \in (saved.block + 1)..lastExportedBlock : x \in ChainRecords(b))'
                      /\ (pc = "save" => \A b \in 0..lastExportedBlock : ChainRecords(b) \subseteq topic)'
    BY <1>1 DEF RecordsExported
  <1>2. \A b : ChainRecords(b)' = ChainRecords(b)
    BY <1>1 DEF ChainRecords
  <1>3. /\ \A x \in topic : \E b \in 0..confirmed : x \in ChainRecords(b)
        /\ \A b \in 0..saved.block : ChainRecords(b) \subseteq topic
        /\ pc = "store" => \A x : x \in ToSet(events) <=>
                             \E b \in (saved.block + 1)..lastExportedBlock : x \in ChainRecords(b)
        /\ pc = "save" => \A b \in 0..lastExportedBlock : ChainRecords(b) \subseteq topic
    BY DEF RecordsExported
  <1>4. /\ saved.block \in Int /\ lastExportedBlock \in Int /\ confirmed \in Int /\ confirmed >= 0
        /\ -1 <= saved.block /\ saved.block <= lastExportedBlock /\ lastExportedBlock <= confirmed
        /\ pc = "work" => lastExportedBlock = saved.block
    BY DEF Types, Heights
  <1>5. CASE /\ pc' = pc /\ confirmed' = confirmed /\ topic' = topic /\ saved' = saved
             /\ events' = events /\ lastExportedBlock' = lastExportedBlock
    BY <1>2, <1>3, <1>5 DEF ToSet
  <1>6. CASE confirmed' = confirmed /\ topic' = topic /\ saved' = saved /\ pc' \in {"init", "work"}
    BY <1>2, <1>3, <1>6
  <1>7. CASE WorkThrows \/ Crash
    BY <1>6, <1>7 DEF WorkThrows, Throw, Crash, Fresh, nodeVars
  <1>8. CASE InitWorker
    BY <1>6, <1>8 DEF InitWorker, nodeVars
  <1>9. CASE WorkIdle
    <2>1. /\ confirmed' = confirmed /\ topic' = topic /\ saved' = saved /\ pc' = "save"
          /\ lastExportedBlock' = lastExportedBlock /\ lastExportedBlock = saved.block
      BY <1>4, <1>9 DEF WorkIdle, nodeVars
    <2> QED
      BY <1>2, <1>3, <2>1
  <1>10. CASE WorkRecords
    <2>1. /\ \A x : x \in ToSet(events') <=>
                      \E b \in (saved.block + 1)..lastExportedBlock' : x \in ChainRecords(b)
          /\ topic' = topic /\ saved' = saved /\ confirmed' = confirmed /\ lastExportedBlock' \in Int
          /\ pc' = "store" \/ (pc' = "save" /\ ToSet(events') = {})
      BY <1>10, WorkRecordsHas
    <2>2. CASE pc' = "store"
      BY <1>2, <1>3, <2>1, <2>2 DEF ToSet
    <2>3. CASE pc' = "save" /\ ToSet(events') = {}
      <3>1. \A b \in (saved.block + 1)..lastExportedBlock' : ChainRecords(b) = {}
        BY <2>1, <2>3
      <3>2. \A b \in 0..lastExportedBlock' : b \in 0..saved.block \/ b \in (saved.block + 1)..lastExportedBlock'
        BY <1>4, <2>1
      <3>3. \A b \in 0..lastExportedBlock' : ChainRecords(b) \subseteq topic
        BY <1>3, <3>1, <3>2
      <3> QED
        BY <1>2, <1>3, <2>1, <2>3, <3>3
    <2> QED
      BY <2>1, <2>2, <2>3
  <1>11. CASE Store
    <2>1. /\ pc = "store" /\ pc' = "save" /\ topic' = topic \cup ToSet(events) /\ saved' = saved
          /\ confirmed' = confirmed /\ lastExportedBlock' = lastExportedBlock
      BY <1>11 DEF Store, nodeVars, workerVars
    <2>2. \A x \in topic' : \E b \in 0..confirmed : x \in ChainRecords(b)
      <3>1. \A b \in (saved.block + 1)..lastExportedBlock : b \in 0..confirmed
        BY <1>4
      <3> QED
        BY <1>3, <2>1, <3>1
    <2>3. \A b \in 0..lastExportedBlock : ChainRecords(b) \subseteq topic'
      <3>1. \A b \in 0..lastExportedBlock : b \in 0..saved.block \/ b \in (saved.block + 1)..lastExportedBlock
        BY <1>4
      <3> QED
        BY <1>3, <2>1, <3>1
    <2>4. \A b \in 0..saved.block : ChainRecords(b) \subseteq topic'
      BY <1>3, <2>1
    <2> QED
      BY <1>2, <2>1, <2>2, <2>3, <2>4
  <1>12. CASE Save
    <2>1. /\ pc = "save" /\ pc' = "work" /\ topic' = topic /\ saved'.block = lastExportedBlock
          /\ confirmed' = confirmed
      BY <1>12 DEF Save, nodeVars, workerVars
    <2> QED
      BY <1>2, <1>3, <2>1
  <1>13. CASE GrowChain
    <2>1. /\ pc' = pc /\ confirmed' = confirmed + 1 /\ topic' = topic /\ saved' = saved
          /\ events' = events /\ lastExportedBlock' = lastExportedBlock
      BY <1>13 DEF GrowChain, workerVars
    <2>2. \A b \in 0..confirmed : b \in 0..(confirmed')
      BY <1>4, <2>1
    <2> QED
      BY <1>2, <1>3, <2>1, <2>2 DEF ToSet
  <1>14. CASE UNCHANGED vars
    BY <1>5, <1>14 DEF vars, nodeVars, workerVars
  <1>15. ~WorkEth /\ ~WorkEthLossy /\ ~WorkTokens
    BY DEF WorkEth, WorkEthLossy, WorkTokens, TokenModes, RecordModes
  <1> QED
    BY <1>7, <1>8, <1>9, <1>10, <1>11, <1>12, <1>13, <1>14, <1>15 DEF Next, Step

(* RecordsExported is the inductive strengthening of RecordsAgree. *)
LEMMA RecordsAreExported == Spec => [](Types /\ Heights /\ RecordsExported)
  <1>1. Init => RecordsExported
    BY DEF Init, RecordsExported
  <1>2. Types /\ Heights /\ RecordsExported /\ [Next]_vars => RecordsExported'
    BY RecordsExportedStep
  <1> QED
    BY <1>1, <1>2, TypesAndHeights, PTL DEF Spec

(* RecordsAgree: whatever the batches, the order of the answers and the       *)
(* crashes between storing and saving, the receipts, blocks and created       *)
(* contracts in Kafka are those of the chain, complete up to the position.    *)
THEOREM ReceiptsBlocksAndContractsAgree == Spec => []RecordsAgree
  <1>1. RecordsExported => RecordsAgree
    <2> SUFFICES ASSUME RecordsExported, mode \in RecordModes
                 PROVE  /\ \A b \in 0..saved.block : ChainRecords(b) \subseteq topic
                        /\ topic \subseteq UNION {ChainRecords(b) : b \in 0..confirmed}
      BY DEF RecordsAgree
    <2> QED
      BY DEF RecordsExported
  <1> QED
    BY <1>1, RecordsAreExported, PTL

(* The time of a token transfer or of a record is that of its block.         *)
LEMMA TimesAreRight ==
  ASSUME Types, TokensExported, RecordsExported
  PROVE  TimestampsRight
  <1> SUFFICES ASSUME mode # "eth", NEW e \in topic PROVE e.timestamp = e.blockNumber
    BY DEF TimestampsRight
  <1>1. CASE mode \in TokenModes
    BY <1>1, KeyedEventFields DEF TokensExported, Types
  <1>2. CASE mode \in RecordModes
    <2>1. PICK b \in 0..confirmed : e \in ChainRecords(b)
      BY <1>2 DEF RecordsExported
    <2>2. \A x \in ChainRecords(b) : x.timestamp = b /\ x.blockNumber = b
      BY <1>2 DEF ChainRecords, RecordModes
    <2> QED
      BY <2>1, <2>2
  <1> QED
    BY <1>1, <1>2, EvmWorkersAssumption DEF Types, AllModes

(* TimestampsRight: no order of the answers, and no repetition of a batch     *)
(* with another one, gives an event the time of another block.               *)
THEOREM EventTimestampsRight == Spec => []TimestampsRight
  <1>1. Types /\ TokensExported /\ RecordsExported => TimestampsRight
    BY TimesAreRight
  <1> QED
    BY <1>1, TokensAreExported, RecordsAreExported, PTL

-----------------------------------------------------------------------------
(* The transfers of the ETH worker                                         *)

Accounts == {"a", "b", "c", "d", "m", "none", "zero", "burn", "mining_block", "GENESIS", "refund",
             "withdrawal"}

TraceTypes == {"call", "create", "suicide", "reward"}

TransferTypes == TraceTypes \cup {"fee", "fee_burnt", "beacon_withdrawal", "genesis", "dao_hack"}

(* What the decoding of a trace looks at *)
IsTrace(trace) ==
  /\ trace.type \in TraceTypes /\ trace.from \in Accounts /\ trace.to \in Accounts
  /\ trace.value \in Int

PlacedTxs == {Extend(tx, [position |-> p]) : tx \in EthTxs, p \in 0..2}

Reward == Trace(<<>>, "reward", "none", "m", 6, FALSE)

Withdrawals == <<[address |-> "a", amount |-> 1], [address |-> "b", amount |-> 2]>>

(* A is an answer for the block b, with some of its transactions. *)
IsAnswer(A, b) ==
  /\ A.number = b /\ A.miner = "m" /\ A.baseFeePerGas = 2
  /\ A.transactions \in Seq(PlacedTxs)
  /\ A.rewards \in {<<>>, <<Reward>>}
  /\ A.withdrawals \in {<<>>, Withdrawals}

(* The traces of a transaction, as the decoding reads them *)
LEMMA TracesAreTraces ==
  ASSUME NEW tx \in EthTxs
  PROVE  \A k \in DOMAIN tx.traces : IsTrace(tx.traces[k])
  <1> DEFINE traces == tx.traces
  <1>1. CASE tx = Plain
    <2>1. traces = <<Trace(<<>>, "call", "a", "b", 4, FALSE)>>
      BY <1>1 DEF Plain, EthTx
    <2> HIDE DEF traces
    <2>2. /\ DOMAIN traces = 1..1
          /\ traces[1] = Trace(<<>>, "call", "a", "b", 4, FALSE)
      BY <2>1
    <2>3. IsTrace(traces[1])
      BY <2>2 DEF IsTrace, Trace, TraceTypes, Accounts
    <2>4. \A k \in 1..1 : k = 1
      OBVIOUS
    <2> QED
      BY <2>2, <2>3, <2>4 DEF traces
  <1>2. CASE tx = Failed
    <2>1. traces = <<Trace(<<>>, "call", "a", "b", 9, TRUE),
                    Trace(<<0>>, "call", "b", "c", 1, FALSE)>>
      BY <1>2 DEF Failed, EthTx
    <2> HIDE DEF traces
    <2>2. /\ DOMAIN traces = 1..2
          /\ traces[1] = Trace(<<>>, "call", "a", "b", 9, TRUE)
          /\ traces[2] = Trace(<<0>>, "call", "b", "c", 1, FALSE)
      BY <2>1
    <2>3. IsTrace(traces[1]) /\ IsTrace(traces[2])
      BY <2>2 DEF IsTrace, Trace, TraceTypes, Accounts
    <2>4. \A k \in 1..2 : k = 1 \/ k = 2
      OBVIOUS
    <2> QED
      BY <2>2, <2>3, <2>4 DEF traces
  <1>3. CASE tx = PartlyReverted
    <2>1. traces = <<Trace(<<>>, "call", "a", "c", 5, FALSE),
                    Trace(<<0>>, "call", "c", "b", 2, TRUE),
                    Trace(<<0, 0>>, "call", "b", "a", 1, FALSE),
                    Trace(<<0, 0, 0>>, "create", "a", "b", 1, FALSE),
                    Trace(<<1>>, "delegatecall", "a", "c", 5, FALSE)>>
      BY <1>3 DEF PartlyReverted, EthTx
    <2> HIDE DEF traces
    <2>2. /\ DOMAIN traces = 1..5
          /\ traces[1] = Trace(<<>>, "call", "a", "c", 5, FALSE)
          /\ traces[2] = Trace(<<0>>, "call", "c", "b", 2, TRUE)
          /\ traces[3] = Trace(<<0, 0>>, "call", "b", "a", 1, FALSE)
          /\ traces[4] = Trace(<<0, 0, 0>>, "create", "a", "b", 1, FALSE)
          /\ traces[5] = Trace(<<1>>, "delegatecall", "a", "c", 5, FALSE)
      BY <2>1
    <2>3. IsTrace(traces[1]) /\ IsTrace(traces[2]) /\ IsTrace(traces[3]) /\ IsTrace(traces[4]) /\ IsTrace(traces[5])
      BY <2>2 DEF IsTrace, Trace, TraceTypes, Accounts
    <2>4. \A k \in 1..5 : k = 1 \/ k = 2 \/ k = 3 \/ k = 4 \/ k = 5
      OBVIOUS
    <2> QED
      BY <2>2, <2>3, <2>4 DEF traces
  <1>4. CASE tx = Creating
    <2>1. traces = <<Trace(<<>>, "create", "b", "c", 3, FALSE),
                    Trace(<<0>>, "create", "c", "d", 0, FALSE),
                    Trace(<<1>>, "suicide", "c", "a", 3, FALSE)>>
      BY <1>4 DEF Creating, EthTx
    <2> HIDE DEF traces
    <2>2. /\ DOMAIN traces = 1..3
          /\ traces[1] = Trace(<<>>, "create", "b", "c", 3, FALSE)
          /\ traces[2] = Trace(<<0>>, "create", "c", "d", 0, FALSE)
          /\ traces[3] = Trace(<<1>>, "suicide", "c", "a", 3, FALSE)
      BY <2>1
    <2>3. IsTrace(traces[1]) /\ IsTrace(traces[2]) /\ IsTrace(traces[3])
      BY <2>2 DEF IsTrace, Trace, TraceTypes, Accounts
    <2>4. \A k \in 1..3 : k = 1 \/ k = 2 \/ k = 3
      OBVIOUS
    <2> QED
      BY <2>2, <2>3, <2>4 DEF traces
  <1> QED
    BY <1>1, <1>2, <1>3, <1>4 DEF EthTxs

(* A transaction with its place *)
LEMMA PlacedTxFields ==
  ASSUME NEW x \in PlacedTxs
  PROVE  \E tx \in EthTxs : /\ x.position \in 0..2 /\ x.gasUsed = 2 /\ x.traces = tx.traces
                            /\ x.from = tx.from /\ x.gasPrice = tx.gasPrice
                            /\ tx.from \in {"a", "b"} /\ tx.gasPrice \in 2..4
  <1>1. PICK tx \in EthTxs, p \in 0..2 : x = Extend(tx, [position |-> p])
    BY DEF PlacedTxs
  <1>2. tx.gasUsed = 2 /\ tx.from \in {"a", "b"} /\ tx.gasPrice \in 2..4
    <2>1. Plain.gasUsed = 2 /\ Plain.from = "a" /\ Plain.gasPrice = 3
      BY DEF Plain, EthTx
    <2>2. Failed.gasUsed = 2 /\ Failed.from = "a" /\ Failed.gasPrice = 3
      BY DEF Failed, EthTx
    <2>3. Creating.gasUsed = 2 /\ Creating.from = "b" /\ Creating.gasPrice = 2
      BY DEF Creating, EthTx
    <2>4. PartlyReverted.gasUsed = 2 /\ PartlyReverted.from = "a" /\ PartlyReverted.gasPrice = 4
      BY DEF PartlyReverted, EthTx
    <2> QED
      BY <2>1, <2>2, <2>3, <2>4 DEF EthTxs
  <1>3. /\ x.position = p /\ x.gasUsed = tx.gasUsed /\ x.traces = tx.traces
        /\ x.from = tx.from /\ x.gasPrice = tx.gasPrice
    BY <1>1, PlacedTx
  <1> QED
    BY <1>1, <1>2, <1>3

(* What the node answers for a block, in full *)
LEMMA TrueBlockIsAnswer ==
  ASSUME chain \in [Block -> 1..4], NEW b \in 0..MaxBlock
  PROVE  /\ IsAnswer(TrueBlock(b), b)
         /\ DOMAIN TrueBlock(b) = {"number", "miner", "baseFeePerGas", "transactions", "rewards",
                                   "withdrawals"}
         /\ TrueBlock(b).transactions
              = [i \in 1..Len(TxsOf(b)) |-> Extend(TxsOf(b)[i], [position |-> i - 1])]
         /\ TrueBlock(b).rewards = IF b = 0 \/ (b >= THE_MERGE /\ Content(b) = 2) THEN <<>>
                                   ELSE <<Reward>>
         /\ TrueBlock(b).withdrawals = IF b < THE_MERGE \/ Content(b) = 2 THEN <<>> ELSE Withdrawals
  <1> DEFINE c == Content(b)
             txs == TxsOf(b)
  <1>1. TrueBlock(b) = EthBlock(c, b)
    BY DEF TrueBlock, Content
  <1>2. txs = EthContents[c]
    BY DEF TxsOf
  <1> HIDE DEF c, txs
  <1>3. /\ TrueBlock(b).transactions = [i \in 1..Len(txs) |-> Extend(txs[i], [position |-> i - 1])]
        /\ TrueBlock(b).rewards = IF b = 0 \/ (b >= THE_MERGE /\ c = 2) THEN <<>> ELSE <<Reward>>
        /\ TrueBlock(b).withdrawals = IF b < THE_MERGE \/ c = 2 THEN <<>> ELSE Withdrawals
        /\ TrueBlock(b).number = b /\ TrueBlock(b).miner = "m" /\ TrueBlock(b).baseFeePerGas = 2
        /\ DOMAIN TrueBlock(b) = {"number", "miner", "baseFeePerGas", "transactions", "rewards",
                                  "withdrawals"}
    BY <1>1, <1>2 DEF EthBlock, Reward, Withdrawals
  <1>4. Len(txs) \in 0..3 /\ \A i \in 1..Len(txs) : txs[i] \in EthTxs
    BY TrueBlockFacts DEF txs
  <1>5. \A i \in 1..Len(txs) : Extend(txs[i], [position |-> i - 1]) \in PlacedTxs
    <2> TAKE i \in 1..Len(txs)
    <2> DEFINE p == i - 1
    <2>1. p \in 0..2 /\ txs[i] \in EthTxs
      BY <1>4
    <2> HIDE DEF p
    <2>2. Extend(txs[i], [position |-> p]) \in PlacedTxs
      BY <2>1 DEF PlacedTxs
    <2> QED
      BY <2>2 DEF p
  <1>6. TrueBlock(b).transactions \in Seq(PlacedTxs)
    <2>1. TrueBlock(b).transactions \in [1..Len(txs) -> PlacedTxs]
      BY <1>3, <1>5
    <2> QED
      BY <1>4, <2>1
  <1>7. IsAnswer(TrueBlock(b), b)
    BY <1>3, <1>6 DEF IsAnswer
  <1> QED
    BY <1>3, <1>7 DEF c, txs

(* An answer with something left out is still one for the block. *)
LEMMA AnsweredBlockIsAnswer ==
  ASSUME chain \in [Block -> 1..4], NEW b \in 0..MaxBlock, NEW lossy
  PROVE  IsAnswer(AnsweredBlock(b, lossy), b)
  <1>1. CASE b # lossy
    BY <1>1, TrueBlockIsAnswer DEF AnsweredBlock
  <1>2. CASE b = lossy
    <2> DEFINE T == TrueBlock(b)
               places == {i \in DOMAIN T.transactions :
                            Len(T.transactions) = 3 /\ T.transactions[i].position # 1}
               s == ElementsAt(T.transactions, places)
    <2>1. AnsweredBlock(b, lossy) = [T EXCEPT !.transactions = s]
      BY <1>2 DEF AnsweredBlock
    <2>2. IsAnswer(T, b) /\ DOMAIN T = {"number", "miner", "baseFeePerGas", "transactions", "rewards",
                                        "withdrawals"}
      BY TrueBlockIsAnswer
    <2>3. s = ElementsAt(T.transactions, places) /\ T.transactions \in Seq(PlacedTxs)
      BY <2>2 DEF IsAnswer
    <2> HIDE DEF s, places, T
    <2>4. s \in Seq(PlacedTxs)
      BY <2>3, ElementsAtPlaces
    <2> QED
      BY <2>1, <2>2, <2>4 DEF IsAnswer
  <1> QED
    BY <1>1, <1>2

(* Transfers of the blocks B at the positions P *)
EthTransferOf(B, P) ==
  [from : Accounts, to : Accounts, value : Int, blockNumber : B, transactionPosition : P,
   internalTxPosition : 0..1, type : TransferTypes]

(* A transfer is of its block and position. *)
LEMMA TransferIsOf ==
  ASSUME NEW from \in Accounts, NEW to \in Accounts, NEW value \in Int, NEW B, NEW block \in B,
         NEW P, NEW position \in P, NEW type \in TransferTypes
  PROVE  Transfer(from, to, value, block, position, type) \in EthTransferOf(B, P)
  BY DEF Transfer, EthTransferOf

(* The transfers of traces are of their block and transaction, or at the      *)
(* first position.                                                           *)
LEMMA TraceTransfersAre ==
  ASSUME NEW S, NEW traces \in Seq(S), \A x \in S : IsTrace(x), NEW b, NEW P, NEW p \in P, 0 \in P
  PROVE  TraceTransfers(traces, b, p) \in Seq(EthTransferOf({b}, P))
  <1> DEFINE kept == filterErrors(traces)
             moves == {k \in DOMAIN kept : IsEffective(kept[k], b)}
             s == parseEthInternalTrx(traces, b)
             E == EthTransferOf({b}, P)
             r == TraceTransfers(traces, b, p)
  <1>1. kept \in Seq(S)
    <2> DEFINE places == {k \in DOMAIN traces : ~traces[k].error /\ ~HasFailedParent(traces, k)}
    <2>1. kept = ElementsAt(traces, places)
      BY DEF filterErrors
    <2> HIDE DEF kept, places
    <2> QED
      BY <2>1, ElementsAtPlaces
  <1>2. s \in Seq(S)
    <2>1. s = ElementsAt(kept, moves)
      BY DEF parseEthInternalTrx
    <2> HIDE DEF s, kept, moves
    <2> QED
      BY <1>1, <2>1, ElementsAtPlaces
  <1>3. r = [i \in 1..Len(s) |-> decodeTransferTrace(s[i], b, p)]
    BY DEF TraceTransfers
  <1> HIDE DEF kept, moves, s, r
  <1>4. \A i \in 1..Len(s) : IsTrace(s[i])
    BY <1>2
  <1>5. \A i \in 1..Len(s) : decodeTransferTrace(s[i], b, p) \in E
    <2> TAKE i \in 1..Len(s)
    <2> DEFINE x == s[i]
    <2>1. /\ x.type \in TransferTypes /\ x.from \in Accounts /\ x.to \in Accounts /\ x.value \in Int
          /\ "reward" \in TransferTypes /\ "mining_block" \in Accounts
      BY <1>4 DEF IsTrace, TransferTypes, TraceTypes, Accounts
    <2> HIDE DEF x
    <2>2. Transfer("mining_block", x.to, x.value, b, 0, "reward") \in E
      BY <2>1, TransferIsOf
    <2>3. Transfer(x.from, x.to, x.value, b, p, x.type) \in E
      BY <2>1, TransferIsOf
    <2> HIDE DEF E
    <2>4. decodeTransferTrace(x, b, p) \in E
      BY <2>2, <2>3 DEF decodeTransferTrace
    <2> QED
      BY <2>4 DEF x
  <1> HIDE DEF E
  <1>6. r \in [1..Len(s) -> E]
    BY <1>3, <1>5
  <1>7. r \in Seq(E)
    BY <1>2, <1>6
  <1> QED
    BY <1>7 DEF E, r

(* The positions of the transactions of an answer, and the first *)
PositionsIn(A) == {0} \cup {A.transactions[i].position : i \in 1..Len(A.transactions)}

(* The transfers of the traces of a block *)
LEMMA BlockTraceTransfers ==
  ASSUME NEW b, NEW A, IsAnswer(A, b)
  PROVE  /\ transformPastTransferEvents(A) \in Seq(EthTransferOf({b}, PositionsIn(A)))
         /\ A.transactions = <<>> /\ A.rewards = <<>> => transformPastTransferEvents(A) = <<>>
  <1> DEFINE P == PositionsIn(A)
             E == EthTransferOf({b}, P)
             txs == A.transactions
             ss == [i \in 1..Len(txs) |-> TraceTransfers(txs[i].traces, b, txs[i].position)]
             rewards == TraceTransfers(A.rewards, b, 0)
  <1>1. txs \in Seq(PlacedTxs) /\ Len(txs) \in Nat /\ \A i \in 1..Len(txs) : txs[i] \in PlacedTxs
    BY DEF IsAnswer
  <1>2. 0 \in P /\ \A i \in 1..Len(txs) : txs[i].position \in P
    BY DEF PositionsIn
  <1>3. transformPastTransferEvents(A) = FlattenSeq(ss) \o rewards
    BY DEF transformPastTransferEvents, IsAnswer
  <1> HIDE DEF txs, P
  <1>4. \A i \in 1..Len(txs) : ss[i] \in Seq(E)
    <2> TAKE i \in 1..Len(txs)
    <2>1. PICK tx \in EthTxs : txs[i].traces = tx.traces
      BY <1>1, PlacedTxFields
    <2> DEFINE S == {tx.traces[k] : k \in DOMAIN tx.traces}
    <2>2. tx.traces \in Seq(S) /\ \A x \in S : IsTrace(x)
      BY TracesOfTx, TracesAreTraces
    <2> HIDE DEF S
    <2>3. TraceTransfers(tx.traces, b, txs[i].position) \in Seq(E)
      BY <1>2, <2>2, TraceTransfersAre
    <2> QED
      BY <2>1, <2>3
  <1>5. rewards \in Seq(E)
    <2> DEFINE R == A.rewards
    <2>1. IsTrace(Reward)
      BY DEF IsTrace, Reward, Trace, TraceTypes, Accounts
    <2>2. R \in Seq({Reward})
      <3>1. R \in {<<>>, <<Reward>>}
        BY DEF IsAnswer
      <3>2. \A x : <<x>> \in Seq({x}) /\ <<>> \in Seq({x})
        OBVIOUS
      <3> QED
        BY <3>1, <3>2
    <2> HIDE DEF R
    <2>3. TraceTransfers(R, b, 0) \in Seq(E)
      BY <1>2, <2>1, <2>2, TraceTransfersAre
    <2> QED
      BY <2>3 DEF R
  <1>6. ss \in Seq(Seq(E)) /\ Len(ss) = Len(txs)
    <2> HIDE DEF E
    <2>1. ss \in [1..Len(txs) -> Seq(E)]
      BY <1>4
    <2> QED
      BY <1>1, <2>1
  <1>7. A.rewards = <<>> => rewards = <<>>
    <2> SUFFICES ASSUME A.rewards = <<>> PROVE TraceTransfers(<<>>, b, 0) = <<>>
      OBVIOUS
    <2>1. \A places : ElementsAt(<<>>, places) = <<>>
      <3> TAKE places
      <3>1. ElementsAt(<<>>, places) = FlattenSeq(<<>>)
        BY DEF ElementsAt
      <3>2. <<>> \in Seq(Seq({})) /\ Len(<<>>) = 0
        OBVIOUS
      <3> QED
        BY <3>1, <3>2, FlattenNone
    <2>2. filterErrors(<<>>) = <<>>
      BY <2>1 DEF filterErrors
    <2>3. parseEthInternalTrx(<<>>, b) = <<>>
      BY <2>1, <2>2 DEF parseEthInternalTrx
    <2> QED
      BY <2>3 DEF TraceTransfers
  <1> HIDE DEF ss, rewards, E
  <1>8. FlattenSeq(ss) \in Seq(E)
    BY <1>6, FlattenMembers
  <1>9. txs = <<>> => FlattenSeq(ss) = <<>>
    <2> SUFFICES ASSUME txs = <<>> PROVE FlattenSeq(ss) = <<>>
      OBVIOUS
    <2>1. Len(ss) = 0
      BY <1>6
    <2> QED
      BY <1>6, <2>1, FlattenNone
  <1>10. FlattenSeq(ss) \o rewards \in Seq(E)
    BY <1>5, <1>8
  <1>11. txs = <<>> /\ A.rewards = <<>> => FlattenSeq(ss) \o rewards = <<>>
    BY <1>7, <1>9
  <1> QED
    BY <1>3, <1>10, <1>11 DEF E, P, txs

(* Every transaction has a fee at its position. *)
LEMMA BlockFeeTransfers ==
  ASSUME NEW b, NEW A, IsAnswer(A, b), LONDON_FORK_BLOCK \in Nat, b \in Nat
  PROVE  /\ getFeesFromTransactionsInBlock(A) \in Seq(EthTransferOf({b}, PositionsIn(A)))
         /\ \A i \in 1..Len(A.transactions) :
              \E k \in 1..Len(getFeesFromTransactionsInBlock(A)) :
                getFeesFromTransactionsInBlock(A)[k].transactionPosition = A.transactions[i].position
         /\ A.transactions = <<>> => getFeesFromTransactionsInBlock(A) = <<>>
  <1> DEFINE P == PositionsIn(A)
             E == EthTransferOf({b}, P)
             txs == A.transactions
             FeesOf(x) == IF b >= LONDON_FORK_BLOCK THEN getPostLondonForkFees(x, A)
                          ELSE getPreLondonForkFees(x, A)
             ss == [i \in 1..Len(txs) |-> FeesOf(txs[i])]
             fees == getFeesFromTransactionsInBlock(A)
  <1>1. txs \in Seq(PlacedTxs) /\ Len(txs) \in Nat /\ \A i \in 1..Len(txs) : txs[i] \in PlacedTxs
    BY DEF IsAnswer
  <1>2. \A i \in 1..Len(txs) : txs[i].position \in P
    BY DEF PositionsIn
  <1>3. fees = FlattenSeq(ss)
    BY DEF getFeesFromTransactionsInBlock, IsAnswer
  <1>4. A.miner = "m" /\ A.number = b /\ A.baseFeePerGas = 2
    BY DEF IsAnswer
  <1> HIDE DEF txs, P, fees
  <1>5. \A i \in 1..Len(txs) : /\ FeesOf(txs[i]) \in Seq(E) /\ Len(FeesOf(txs[i])) >= 1
                               /\ FeesOf(txs[i])[1].transactionPosition = txs[i].position
    <2> TAKE i \in 1..Len(txs)
    <2> DEFINE x == txs[i]
    <2>1. /\ x.gasUsed = 2 /\ x.from \in Accounts /\ x.gasPrice \in 2..4 /\ x.position \in P
          /\ "m" \in Accounts /\ "burn" \in Accounts
          /\ "fee" \in TransferTypes /\ "fee_burnt" \in TransferTypes
      <3>1. PICK tx \in EthTxs : /\ x.gasUsed = 2 /\ x.from = tx.from /\ x.gasPrice = tx.gasPrice
                                 /\ tx.from \in {"a", "b"} /\ tx.gasPrice \in 2..4
        BY <1>1, PlacedTxFields
      <3> QED
        BY <1>2, <3>1 DEF Accounts, TransferTypes
    <2> HIDE DEF x
    <2>2. Transfer(x.from, "m", x.gasPrice * x.gasUsed, b, x.position, "fee") \in E
      <3>1. x.gasPrice * x.gasUsed \in Int
        BY <2>1
      <3> QED
        BY <2>1, <3>1, TransferIsOf
    <2>3. Transfer(x.from, "burn", 2 * x.gasUsed, b, x.position, "fee_burnt") \in E
      <3>1. 2 * x.gasUsed \in Int
        BY <2>1
      <3> QED
        BY <2>1, <3>1, TransferIsOf
    <2>4. Transfer(x.from, "m", (x.gasPrice - 2) * x.gasUsed, b, x.position, "fee") \in E
      <3>1. (x.gasPrice - 2) * x.gasUsed \in Int
        BY <2>1
      <3> QED
        BY <2>1, <3>1, TransferIsOf
    <2> HIDE DEF E
    <2>5. getPreLondonForkFees(x, A)
            = <<Transfer(x.from, "m", x.gasPrice * x.gasUsed, b, x.position, "fee")>>
      BY <1>4 DEF getPreLondonForkFees
    <2>6. getBurntFee(x, A) = Transfer(x.from, "burn", 2 * x.gasUsed, b, x.position, "fee_burnt")
      BY <1>4 DEF getBurntFee
    <2>7. getMinerFee(x, A) \in Seq(E)
      <3>1. getMinerFee(x, A) \in
              {<<Transfer(x.from, "m", (x.gasPrice - 2) * x.gasUsed, b, x.position, "fee")>>, <<>>}
        BY <1>4 DEF getMinerFee
      <3>2. \A y \in E : <<y>> \in Seq(E) /\ <<>> \in Seq(E)
        OBVIOUS
      <3>3. \A s : \A y \in E : s \in {<<y>>, <<>>} => s \in Seq(E)
        BY <3>2
      <3> QED
        BY ONLY <2>4, <3>1, <3>3
    <2>8. \A y \in E, s \in Seq(E) : <<y>> \o s \in Seq(E) /\ Len(<<y>> \o s) >= 1 /\ (<<y>> \o s)[1] = y
      OBVIOUS
    <2>9. \A y \in E : <<y>> \in Seq(E) /\ Len(<<y>>) >= 1 /\ <<y>>[1] = y
      OBVIOUS
    <2>10. \A from, to, value, block, position, type :
             Transfer(from, to, value, block, position, type).transactionPosition = position
      BY DEF Transfer
    <2>11. CASE b >= LONDON_FORK_BLOCK
      <3>1. FeesOf(x) = <<getBurntFee(x, A)>> \o getMinerFee(x, A)
        BY <2>11 DEF getPostLondonForkFees
      <3> HIDE DEF FeesOf
      <3>2. FeesOf(x) \in Seq(E) /\ Len(FeesOf(x)) >= 1 /\ FeesOf(x)[1] = getBurntFee(x, A)
        BY <2>3, <2>6, <2>7, <2>8, <3>1
      <3>3. FeesOf(x)[1].transactionPosition = x.position
        BY <2>6, <2>10, <3>2
      <3> QED
        BY <3>2, <3>3 DEF x
    <2>12. CASE ~(b >= LONDON_FORK_BLOCK)
      <3>1. FeesOf(x) = getPreLondonForkFees(x, A)
        BY <2>12
      <3> HIDE DEF FeesOf
      <3>2. /\ FeesOf(x) \in Seq(E) /\ Len(FeesOf(x)) >= 1
            /\ FeesOf(x)[1] = Transfer(x.from, "m", x.gasPrice * x.gasUsed, b, x.position, "fee")
        BY <2>2, <2>5, <2>9, <3>1
      <3>3. FeesOf(x)[1].transactionPosition = x.position
        BY <2>10, <3>2
      <3> QED
        BY <3>2, <3>3 DEF x
    <2> QED
      BY <2>11, <2>12
  <1> HIDE DEF FeesOf, E
  <1>6. ss \in Seq(Seq(E)) /\ Len(ss) = Len(txs) /\ \A i \in 1..Len(txs) : ss[i] = FeesOf(txs[i])
    <2>1. ss \in [1..Len(txs) -> Seq(E)]
      BY <1>5
    <2> QED
      BY <1>1, <2>1
  <1> HIDE DEF ss
  <1>7. fees \in Seq(E)
    BY <1>3, <1>6, FlattenMembers
  <1>8. \A i \in 1..Len(txs) : \E k \in 1..Len(fees) : fees[k].transactionPosition = txs[i].position
    <2> TAKE i \in 1..Len(txs)
    <2>1. 1 \in 1..Len(ss[i]) /\ ss[i][1].transactionPosition = txs[i].position /\ i \in 1..Len(ss)
      <3>1. ss[i] \in Seq(E)
        BY <1>5, <1>6
      <3>2. Len(ss[i]) \in Nat /\ Len(ss[i]) >= 1
        BY <1>5, <1>6, <3>1
      <3> QED
        BY <1>5, <1>6, <3>2
    <2>2. \E p \in 1..Len(FlattenSeq(ss)) : FlattenSeq(ss)[p] = ss[i][1]
      BY <1>6, <2>1, FlattenMembers
    <2> QED
      BY <1>3, <2>1, <2>2
  <1>9. txs = <<>> => fees = <<>>
    <2> SUFFICES ASSUME txs = <<>> PROVE fees = <<>>
      OBVIOUS
    <2>1. Len(ss) = 0 /\ ss \in Seq(Seq(E))
      BY <1>6
    <2> QED
      BY <1>3, <2>1, FlattenNone
  <1> QED
    BY <1>7, <1>8, <1>9 DEF E, P, txs, fees

(* The fees and the withdrawals of a block *)
LEMMA BlockTransactionTransfers ==
  ASSUME NEW b, NEW A, IsAnswer(A, b), LONDON_FORK_BLOCK \in Nat, b \in Nat
  PROVE  /\ transformPastTransactionEvents(A) \in Seq(EthTransferOf({b}, PositionsIn(A)))
         /\ \A i \in 1..Len(A.transactions) :
              \E k \in 1..Len(transformPastTransactionEvents(A)) :
                transformPastTransactionEvents(A)[k].transactionPosition = A.transactions[i].position
         /\ A.transactions = <<>> /\ A.withdrawals = <<>> => transformPastTransactionEvents(A) = <<>>
  <1> DEFINE P == PositionsIn(A)
             E == EthTransferOf({b}, P)
             txs == A.transactions
             fees == getFeesFromTransactionsInBlock(A)
             w == getBeaconChainWithdrawals(A)
             all == transformPastTransactionEvents(A)
  <1>1. /\ fees \in Seq(E)
        /\ \A i \in 1..Len(txs) : \E k \in 1..Len(fees) : fees[k].transactionPosition = txs[i].position
        /\ txs = <<>> => fees = <<>>
    BY BlockFeeTransfers
  <1>2. w \in Seq(E) /\ (A.withdrawals = <<>> => w = <<>>)
    <2> DEFINE n == Len(A.withdrawals)
    <2>1. /\ n \in 0..2
          /\ \A i \in 1..n : A.withdrawals[i].address \in Accounts /\ A.withdrawals[i].amount \in Int
      BY DEF IsAnswer, Withdrawals, Accounts
    <2>2. \A i \in 1..n :
            [Transfer("withdrawal", A.withdrawals[i].address, A.withdrawals[i].amount, b, 0,
                      "beacon_withdrawal") EXCEPT !.internalTxPosition = i - 1] \in E
      <3> TAKE i \in 1..n
      <3> DEFINE x == Transfer("withdrawal", A.withdrawals[i].address, A.withdrawals[i].amount, b, 0,
                               "beacon_withdrawal")
      <3>1. "withdrawal" \in Accounts /\ "beacon_withdrawal" \in TransferTypes /\ 0 \in P
        BY DEF Accounts, TransferTypes, PositionsIn
      <3>2. x \in E
        BY <2>1, <3>1, TransferIsOf
      <3>3. i - 1 \in 0..1
        BY <2>1
      <3> HIDE DEF x
      <3>4. [x EXCEPT !.internalTxPosition = i - 1] \in E
        BY <3>2, <3>3 DEF EthTransferOf
      <3> QED
        BY <3>4 DEF x
    <2>3. w = [i \in 1..n |->
            [Transfer("withdrawal", A.withdrawals[i].address, A.withdrawals[i].amount, b, 0,
                      "beacon_withdrawal") EXCEPT !.internalTxPosition = i - 1]]
      BY DEF getBeaconChainWithdrawals, IsAnswer
    <2>4. A.withdrawals = <<>> => n = 0
      OBVIOUS
    <2> HIDE DEF n, E, w
    <2>5. w \in [1..n -> E]
      BY <2>2, <2>3
    <2> QED
      BY <2>1, <2>4, <2>5
  <1>3. all = fees \o w
    BY DEF transformPastTransactionEvents
  <1> HIDE DEF fees, w, E, all, txs
  <1>4. all \in Seq(E)
    BY <1>1, <1>2, <1>3
  <1>5. \A k \in 1..Len(fees) : k \in 1..Len(all) /\ all[k] = fees[k]
    BY <1>1, <1>2, <1>3
  <1>6. txs = <<>> /\ A.withdrawals = <<>> => all = <<>>
    BY <1>1, <1>2, <1>3
  <1>7. \A i \in 1..Len(txs) : \E k \in 1..Len(all) : all[k].transactionPosition = txs[i].position
    BY <1>1, <1>5
  <1> QED
    BY <1>4, <1>6, <1>7 DEF E, txs, all

(* More blocks and positions *)
LEMMA TransfersOfMore ==
  ASSUME NEW B, NEW C, B \subseteq C, NEW P, NEW Q, P \subseteq Q,
         NEW s \in Seq(EthTransferOf(B, P))
  PROVE  s \in Seq(EthTransferOf(C, Q))
  <1>1. EthTransferOf(B, P) \subseteq EthTransferOf(C, Q)
    BY DEF EthTransferOf
  <1> DEFINE X == EthTransferOf(B, P)
             Y == EthTransferOf(C, Q)
  <1> HIDE DEF X, Y
  <1>2. X \subseteq Y /\ s \in Seq(X)
    BY <1>1 DEF X, Y
  <1>3. s \in Seq(Y)
    BY ONLY <1>2
  <1> QED
    BY <1>3 DEF Y

(* The genesis transfers are of the first block, those of the DAO of its.    *)
LEMMA IrregularTransfers ==
  /\ getGenesisTransfers \in Seq(EthTransferOf({0}, {0}))
  /\ daoHackTransfers \in Seq(EthTransferOf({DAO_HACK_FORK_BLOCK}, {0}))
  <1>1. getGenesisTransfers \in Seq(EthTransferOf({0}, {0}))
    <2> DEFINE E == EthTransferOf({0}, {0})
               g == [i \in 1..2 |-> Transfer("GENESIS", GENESIS_TRANSFERS[i][1],
                                             GENESIS_TRANSFERS[i][2], 0, 0, "genesis")]
               x == Transfer("mining_block", "zero", 5, 0, 0, "reward")
    <2>1. \A i \in 1..2 : GENESIS_TRANSFERS[i][1] \in Accounts /\ GENESIS_TRANSFERS[i][2] \in Int
      BY DEF GENESIS_TRANSFERS, Accounts
    <2>2. /\ "GENESIS" \in Accounts /\ "mining_block" \in Accounts /\ "zero" \in Accounts
          /\ "genesis" \in TransferTypes /\ "reward" \in TransferTypes
      BY DEF Accounts, TransferTypes, TraceTypes
    <2>3. \A i \in 1..2 : g[i] \in E
      BY <2>1, <2>2, TransferIsOf
    <2>4. x \in E
      <3>1. 5 \in Int /\ 0 \in {0}
        OBVIOUS
      <3> QED
        BY <2>2, <3>1, TransferIsOf
    <2>5. getGenesisTransfers = g \o <<x>>
      BY DEF getGenesisTransfers, GENESIS_TRANSFERS
    <2> DEFINE n == 2
    <2>6. n \in Nat /\ g = [i \in 1..n |-> g[i]]
      OBVIOUS
    <2>7. \A i \in 1..n : g[i] \in E
      BY <2>3
    <2> HIDE DEF E, g, x, n
    <2>8. g \in Seq(E) /\ <<x>> \in Seq(E)
      BY <2>4, <2>6, <2>7
    <2>9. g \o <<x>> \in Seq(E)
      BY ONLY <2>8
    <2> QED
      BY <2>5, <2>9 DEF E
  <1>2. daoHackTransfers \in Seq(EthTransferOf({DAO_HACK_FORK_BLOCK}, {0}))
    <2> DEFINE E == EthTransferOf({DAO_HACK_FORK_BLOCK}, {0})
               d == daoHackTransfers
    <2>1. \A i \in 1..2 : DAO_HACK_ADDRESSES[i][1] \in Accounts /\ DAO_HACK_ADDRESSES[i][2] \in Int
      BY DEF DAO_HACK_ADDRESSES, Accounts
    <2>2. "refund" \in Accounts /\ "dao_hack" \in TransferTypes
      BY DEF Accounts, TransferTypes
    <2>3. d = [i \in 1..2 |-> Transfer(DAO_HACK_ADDRESSES[i][1], "refund", DAO_HACK_ADDRESSES[i][2],
                                       DAO_HACK_FORK_BLOCK, 0, "dao_hack")]
      BY DEF daoHackTransfers, DAO_HACK_ADDRESSES
    <2>4. \A i \in 1..2 : Transfer(DAO_HACK_ADDRESSES[i][1], "refund", DAO_HACK_ADDRESSES[i][2],
                                   DAO_HACK_FORK_BLOCK, 0, "dao_hack") \in E
      BY <2>1, <2>2, TransferIsOf
    <2> DEFINE n == 2
    <2>5. n \in Nat /\ d \in [1..n -> E]
      BY <2>3, <2>4
    <2> HIDE DEF d, E, n
    <2>6. d \in Seq(E)
      BY <2>5
    <2> QED
      BY <2>6 DEF d, E
  <1> QED
    BY <1>1, <1>2

(* What is injected stays of its kind. *)
LEMMA InjectedTransfers ==
  ASSUME NEW E, NEW s \in Seq(E), daoHackTransfers \in Seq(E)
  PROVE  injectDAOHackTransfers(s) \in Seq(E)
  <1> DEFINE ofBlock == {i \in DOMAIN s : s[i].blockNumber = DAO_HACK_FORK_BLOCK}
             before == IF ofBlock # {} THEN Min(ofBlock) - 1
                       ELSE IF s = <<>> THEN 0 ELSE Len(s) - 1
             first == SubSeq(s, 1, before)
             rest == SubSeq(s, before + 1, Len(s))
  <1>1. injectDAOHackTransfers(s) = first \o daoHackTransfers \o rest
    BY DEF injectDAOHackTransfers
  <1>2. before \in 0..Len(s)
    <2>1. CASE ofBlock # {}
      <3> DEFINE m == Min(ofBlock)
      <3>1. ofBlock \subseteq Nat
        OBVIOUS
      <3>2. m \in ofBlock
        <4> HIDE DEF ofBlock
        <4>1. m = Min(ofBlock)
          OBVIOUS
        <4> HIDE DEF m
        <4> QED
          BY <2>1, <3>1, <4>1, MinExists
      <3> HIDE DEF m
      <3>3. m \in 1..Len(s) /\ Len(s) \in Nat
        BY <3>2
      <3>4. before = m - 1
        BY <2>1 DEF m
      <3> QED
        BY <3>3, <3>4
    <2>2. CASE ofBlock = {}
      BY <2>2
    <2> QED
      BY <2>1, <2>2
  <1> HIDE DEF ofBlock, before
  <1>3. first \in Seq(E) /\ rest \in Seq(E)
    <2>1. Len(s) \in Nat
      OBVIOUS
    <2>2. before \in Int /\ 0 <= before /\ before <= Len(s)
      BY <1>2, <2>1
    <2> QED
      BY <2>1, <2>2, SubSeqProperties
  <1> HIDE DEF first, rest
  <1> QED
    BY <1>1, <1>3

(* blocks are answers for the blocks from f to t. *)
BlocksAnswer(blocks, f, t) ==
  /\ blocks = [i \in 1..(t - f + 1) |-> blocks[i]]
  /\ \A i \in 1..(t - f + 1) : IsAnswer(blocks[i], f + i - 1)

(* The transfers of the blocks of an interval, at the positions of their      *)
(* transactions                                                              *)
LEMMA PastEventsAre ==
  ASSUME NEW f \in Nat, NEW t \in Nat, f <= t, NEW blocks, BlocksAnswer(blocks, f, t)
  PROVE  transformPastEvents(f, t, blocks) \in Seq(EthTransferOf(f..t, 0..2))
  <1> DEFINE n == t - f + 1
             E == EthTransferOf(f..t, 0..2)
             genesis == IF f = 0 THEN getGenesisTransfers ELSE <<>>
             moved == [i \in 1..Len(blocks) |-> transformPastTransferEvents(blocks[i])]
             paid == [i \in 1..Len(blocks) |-> transformPastTransactionEvents(blocks[i])]
             all == genesis \o FlattenSeq(moved) \o FlattenSeq(paid)
  <1>1. n \in Nat /\ Len(blocks) = n /\ \A i \in 1..n : IsAnswer(blocks[i], f + i - 1)
    <2>1. n \in Nat
      OBVIOUS
    <2>2. blocks = [i \in 1..n |-> blocks[i]] /\ \A i \in 1..n : IsAnswer(blocks[i], f + i - 1)
      BY DEF BlocksAnswer
    <2> HIDE DEF n
    <2>3. Len(blocks) = n
      BY <2>1, <2>2
    <2> QED
      BY <2>1, <2>2, <2>3
  <1>2. transformPastEvents(f, t, blocks)
          = IF f <= DAO_HACK_FORK_BLOCK /\ DAO_HACK_FORK_BLOCK <= t
            THEN injectDAOHackTransfers(all) ELSE all
    BY DEF transformPastEvents
  <1>3. \A i \in 1..n : f + i - 1 \in f..t /\ f + i - 1 \in Nat
    OBVIOUS
  <1>4. \A i \in 1..n : /\ transformPastTransferEvents(blocks[i]) \in Seq(E)
                        /\ transformPastTransactionEvents(blocks[i]) \in Seq(E)
    <2> TAKE i \in 1..n
    <2> DEFINE b == f + i - 1
               A == blocks[i]
               Q == PositionsIn(A)
    <2>1. {b} \subseteq f..t /\ b \in Nat /\ IsAnswer(A, b)
      BY <1>1, <1>3
    <2>2. Q \subseteq 0..2
      <3>1. \A k \in 1..Len(A.transactions) : A.transactions[k] \in PlacedTxs
        BY <2>1 DEF IsAnswer
      <3>2. \A k \in 1..Len(A.transactions) : A.transactions[k].position \in 0..2
        BY <3>1, PlacedTxFields
      <3> QED
        BY <3>2 DEF PositionsIn
    <2> DEFINE s == transformPastTransferEvents(A)
               u == transformPastTransactionEvents(A)
    <2>3. s \in Seq(EthTransferOf({b}, Q)) /\ u \in Seq(EthTransferOf({b}, Q))
      <3> HIDE DEF b, A
      <3> QED
        BY <2>1, BlockTraceTransfers, BlockTransactionTransfers, ForksInOrder
    <2> HIDE DEF s, u
    <2> DEFINE B == {b}
               C == f..t
               P == 0..2
    <2>4. /\ B \subseteq C /\ Q \subseteq P
          /\ s \in Seq(EthTransferOf(B, Q)) /\ u \in Seq(EthTransferOf(B, Q))
      BY <2>1, <2>2, <2>3
    <2> HIDE DEF b, Q, B, C, P
    <2>5. s \in Seq(EthTransferOf(C, P)) /\ u \in Seq(EthTransferOf(C, P))
      BY ONLY <2>4, TransfersOfMore
    <2> QED
      BY <2>5 DEF s, u, C, P
  <1>5. genesis \in Seq(E)
    <2>1. CASE f = 0
      <3>1. {0} \subseteq f..t /\ {0} \subseteq 0..2
        BY <2>1
      <3>2. getGenesisTransfers \in Seq(E)
        BY <3>1, IrregularTransfers, TransfersOfMore
      <3> QED
        BY <2>1, <3>2
    <2>2. CASE f # 0
      <3>1. <<>> \in Seq(E)
        OBVIOUS
      <3> QED
        BY <2>2, <3>1
    <2> QED
      BY <2>1, <2>2
  <1>6. f <= DAO_HACK_FORK_BLOCK /\ DAO_HACK_FORK_BLOCK <= t => daoHackTransfers \in Seq(E)
    <2> SUFFICES ASSUME f <= DAO_HACK_FORK_BLOCK, DAO_HACK_FORK_BLOCK <= t
                 PROVE  daoHackTransfers \in Seq(E)
      OBVIOUS
    <2> DEFINE d == DAO_HACK_FORK_BLOCK
    <2>1. {d} \subseteq f..t /\ {0} \subseteq 0..2
      BY ForksInOrder
    <2> QED
      BY <2>1, IrregularTransfers, TransfersOfMore
  <1>7. FlattenSeq(moved) \in Seq(E) /\ FlattenSeq(paid) \in Seq(E)
    <2>1. moved = [i \in 1..n |-> moved[i]] /\ paid = [i \in 1..n |-> paid[i]]
      BY <1>1
    <2>2. \A i \in 1..n : moved[i] \in Seq(E) /\ paid[i] \in Seq(E)
      BY <1>1, <1>4
    <2> HIDE DEF moved, paid, n, E
    <2>3. moved \in [1..n -> Seq(E)] /\ paid \in [1..n -> Seq(E)]
      BY <2>1, <2>2
    <2>4. moved \in Seq(Seq(E)) /\ paid \in Seq(Seq(E))
      BY <1>1, <2>3
    <2> QED
      BY <2>4, FlattenMembers
  <1> HIDE DEF n, E, genesis, moved, paid
  <1>8. all \in Seq(E)
    <2>1. \A p, q, r \in Seq(E) : p \o q \o r \in Seq(E)
      OBVIOUS
    <2> QED
      BY <1>5, <1>7, <2>1
  <1> HIDE DEF all
  <1>9. transformPastEvents(f, t, blocks) \in Seq(E)
    BY <1>2, <1>6, <1>8, InjectedTransfers
  <1> QED
    BY <1>9 DEF E

-----------------------------------------------------------------------------
(* The order of the transfers                                              *)

(* What transactionOrder looks at *)
IsPlaced(e) ==
  /\ e.blockNumber \in Int /\ e.transactionPosition \in Int /\ e.internalTxPosition \in Int

(* The order of transfers is one that a sort can use. *)
LEMMA TransactionOrderCompares ==
  ASSUME NEW a, NEW b, NEW c, IsPlaced(a), IsPlaced(b), IsPlaced(c)
  PROVE  /\ transactionOrder(a, b) => ~transactionOrder(b, a)
         /\ ~transactionOrder(a, b) /\ ~transactionOrder(b, c) => ~transactionOrder(a, c)
  BY DEF transactionOrder, IsPlaced

(* The places in s of which the first is before the second *)
TransferLess(s) ==
  {pair \in (1..Len(s)) \X (1..Len(s)) : transactionOrder(s[pair[1]], s[pair[2]])}

(* Sorting by transactionOrder sorts. *)
LEMMA TransfersSorting ==
  ASSUME NEW S, NEW s \in Seq(S), \A e \in S : IsPlaced(e),
         NEW r, r = stableSort(s, transactionOrder)
  PROVE  /\ IsComparison(TransferLess(s), Len(s))
         /\ IsSorting(r, s, StableOrder(TransferLess(s), Len(s)))
  <1> DEFINE n == Len(s)
             L == TransferLess(s)
             place == [k \in 1..n |-> 1 + Cardinality({j \in 1..n :
                         <<j, k>> \in L \/ (<<k, j>> \notin L /\ j < k)})]
             given == [k \in 1..n |-> 1 + Cardinality({j \in 1..n :
                         transactionOrder(s[j], s[k]) \/ (~transactionOrder(s[k], s[j]) /\ j < k)})]
  <1>1. n \in Nat /\ n = Len(s) /\ \A k \in 1..n : s[k] \in S
    OBVIOUS
  <1>2. r = [i \in 1..n |-> s[CHOOSE k \in 1..n : given[k] = i]]
    BY DEF stableSort
  <1>3. \A j, k \in 1..n : <<j, k>> \in L <=> transactionOrder(s[j], s[k])
    BY DEF TransferLess
  <1>4. given = place
    <2>1. \A k \in 1..n : {j \in 1..n : transactionOrder(s[j], s[k])
                                          \/ (~transactionOrder(s[k], s[j]) /\ j < k)}
                          = {j \in 1..n : <<j, k>> \in L \/ (<<k, j>> \notin L /\ j < k)}
      <3> HIDE DEF L, n
      <3> QED
        BY <1>3
    <2> HIDE DEF L, n
    <2> QED
      BY <2>1
  <1>5. place = [k \in 1..n |-> 1 + Cardinality({j \in 1..n :
                         <<j, k>> \in L \/ (<<k, j>> \notin L /\ j < k)})]
    OBVIOUS
  <1> HIDE DEF n, L, place, given
  <1>6. IsComparison(L, n)
    <2>1. \A j \in 1..n : IsPlaced(s[j])
      BY <1>1
    <2>2. \A j, k \in 1..n : <<j, k>> \in L => <<k, j>> \notin L
      BY <1>3, <2>1, TransactionOrderCompares, Zenon
    <2>3. \A j, k, l \in 1..n : <<j, k>> \notin L /\ <<k, l>> \notin L => <<j, l>> \notin L
      BY <1>3, <2>1, TransactionOrderCompares, Zenon
    <2> QED
      BY <2>2, <2>3 DEF IsComparison
  <1>7. ByPlaces(r, s, place)
    BY <1>1, <1>2, <1>4 DEF ByPlaces
  <1>8. IsSorting(r, s, StableOrder(L, n))
    BY <1>1, <1>5, <1>6, <1>7, StableSorting
  <1> QED
    BY <1>6, <1>8 DEF L, n

-----------------------------------------------------------------------------
(* The ends of the blocks                                                  *)

(* s holds transfers, of which those of the same place follow each other: a   *)
(* later one is not before an earlier one.                                   *)
IsInOrder(s) ==
  /\ s = [i \in 1..Len(s) |-> s[i]] /\ Len(s) \in Nat
  /\ \A i \in 1..Len(s) :
       /\ DOMAIN s[i] = {"from", "to", "value", "blockNumber", "transactionPosition",
                         "internalTxPosition", "type"}
       /\ IsPlaced(s[i])
  /\ \A i, j \in 1..Len(s) : i < j => ~transactionOrder(s[j], s[i])

(* The block b has one end in s, after which nothing of it comes. *)
IsClosed(s, b) ==
  \E i \in 1..Len(s) :
    /\ s[i].type = "EOB" /\ s[i].blockNumber = b
    /\ \A j \in 1..Len(s) : s[j].blockNumber = b => j <= i /\ (s[j].type = "EOB" => j = i)

(* Merging gives each block of the interval its end. *)
LEMMA MergedInOrder ==
  ASSUME NEW f \in Nat, NEW t \in Nat, f <= t,
         NEW transfers \in Seq(EthTransferOf(f..t, 0..2)),
         NEW m, m = mergeSortedArrays(transfers, collectEndOfBlocks(f, t))
  PROVE  IsInOrder(m) /\ \A b \in f..t : IsClosed(m, b)
  <1> DEFINE n == t - f + 1
             E == EthTransferOf(f..t, 0..2)
             End(b) == Transfer("zero", "zero", 0, b, maxTxPosition, "EOB")
             Ends == {End(b) : b \in f..t}
             S == E \cup Ends
             eobs == collectEndOfBlocks(f, t)
             all == eobs \o transfers
             N == Len(all)
             fields == {"from", "to", "value", "blockNumber", "transactionPosition",
                        "internalTxPosition", "type"}
  <1>1. \A b : /\ End(b).type = "EOB" /\ End(b).blockNumber = b
               /\ End(b).transactionPosition = maxTxPosition /\ End(b).internalTxPosition = 0
               /\ DOMAIN End(b) = fields
    BY DEF Transfer
  <1>2. maxTxPosition \in Int /\ maxTxPosition > 2
    BY DEF maxTxPosition
  <1>3. \A e \in E : /\ e.type # "EOB" /\ e.blockNumber \in f..t /\ e.transactionPosition \in 0..2
                     /\ e.internalTxPosition \in Int /\ DOMAIN e = fields
    BY DEF EthTransferOf, TransferTypes, TraceTypes
  <1>4. n \in Nat /\ \A b \in f..t : b - f + 1 \in 1..n
    OBVIOUS
  <1>5. eobs = [i \in 1..n |-> End(f + i - 1)]
    BY DEF collectEndOfBlocks
  <1> HIDE DEF n, End, E, fields, eobs
  <1>6. \A e \in S : IsPlaced(e) /\ DOMAIN e = fields
    <2>1. \A e \in E : IsPlaced(e) /\ DOMAIN e = fields
      BY <1>3 DEF IsPlaced
    <2>2. \A b \in f..t : IsPlaced(End(b)) /\ DOMAIN End(b) = fields
      BY <1>1, <1>2 DEF IsPlaced
    <2> QED
      BY <2>1, <2>2
  <1>7. eobs \in Seq(S) /\ Len(eobs) = n
    <2>1. \A i \in 1..n : End(f + i - 1) \in S
      <3>1. \A i \in 1..n : f + i - 1 \in f..t
        BY DEF n
      <3> QED
        BY <3>1
    <2> HIDE DEF S
    <2> QED
      BY <1>4, <1>5, <2>1
  <1>8. transfers \in Seq(S)
    <2>1. transfers \in Seq(E) /\ E \subseteq S
      BY DEF E
    <2> HIDE DEF S
    <2> QED
      BY ONLY <2>1
  <1> HIDE DEF S
  <1>9. /\ all \in Seq(S) /\ N \in Nat /\ N = n + Len(transfers)
        /\ \A k \in 1..n : all[k] = eobs[k]
        /\ \A k \in 1..N : k > n => k - n \in 1..Len(transfers) /\ all[k] = transfers[k - n]
    BY <1>4, <1>7, <1>8
  <1>10. \A k \in 1..n : all[k].type = "EOB" /\ all[k].blockNumber = f + k - 1
                         /\ all[k].transactionPosition = maxTxPosition
    BY <1>1, <1>5, <1>9, ZenonT(60)
  <1>11. \A k \in 1..N : k > n => all[k].type # "EOB" /\ all[k].transactionPosition \in 0..2
    <2> SUFFICES ASSUME NEW k \in 1..N, k > n
                 PROVE  all[k].type # "EOB" /\ all[k].transactionPosition \in 0..2
      OBVIOUS
    <2>1. PICK d \in 1..Len(transfers) : all[k] = transfers[d]
      BY <1>9
    <2>2. transfers[d] \in E
      BY DEF E
    <2> QED
      BY <1>3, <2>1, <2>2
  <1>12. m = stableSort(all, transactionOrder)
    BY DEF mergeSortedArrays, all, eobs
  <1> HIDE DEF all, N
  <1> DEFINE L == TransferLess(all)
             R == StableOrder(L, N)
  <1>13. N = Len(all)
    BY DEF N
  <1>14. IsSorting(m, all, R)
    BY <1>6, <1>9, <1>12, <1>13, TransfersSorting
  <1>15. \A j, k \in 1..N : <<j, k>> \in R =>
           (<<k, j>> \notin L \/ <<j, k>> \in L) /\ (<<j, k>> \notin L => j < k)
    BY DEF StableOrder
  <1>16. \A j, k \in 1..N : <<j, k>> \in L <=> transactionOrder(all[j], all[k])
    BY <1>13 DEF TransferLess
  <1>17. \A j, k \in 1..N : <<j, k>> \in R => ~transactionOrder(all[k], all[j]) /\ j # k
    <2> TAKE j, k \in 1..N
    <2>1. IsPlaced(all[j]) /\ IsPlaced(all[k])
      BY <1>6, <1>9, <1>13
    <2>2. transactionOrder(all[j], all[k]) => ~transactionOrder(all[k], all[j])
      BY <2>1, TransactionOrderCompares
    <2>3. ~(j < j)
      OBVIOUS
    <2> QED
      BY <1>15, <1>16, <2>2, <2>3, Zenon
  <1> HIDE DEF L, R
  <1>18. PICK at \in [1..N -> 1..N] :
           /\ m = [i \in 1..N |-> all[at[i]]]
           /\ \A k \in 1..N : \E i \in 1..N : at[i] = k
           /\ \A i, j \in 1..N : i < j => <<at[i], at[j]>> \in R
    BY <1>13, <1>14, Zenon DEF IsSorting
  <1>19. Len(m) = N
    BY <1>9, <1>18
  <1>20. \A i \in 1..N : at[i] \in 1..N /\ m[i] = all[at[i]]
    BY <1>18
  <1>21. \A i, j \in 1..N : i < j => ~transactionOrder(m[j], m[i]) /\ at[i] # at[j]
    <2> SUFFICES ASSUME NEW i \in 1..N, NEW j \in 1..N, i < j
                 PROVE  ~transactionOrder(m[j], m[i]) /\ at[i] # at[j]
      OBVIOUS
    <2>1. at[i] \in 1..N /\ at[j] \in 1..N /\ <<at[i], at[j]>> \in R
      BY <1>18, <1>20
    <2>2. m[i] = all[at[i]] /\ m[j] = all[at[j]]
      BY <1>20
    <2>3. ~transactionOrder(all[at[j]], all[at[i]]) /\ at[i] # at[j]
      BY ONLY <1>17, <2>1
    <2> QED
      BY ONLY <2>2, <2>3
  <1>22. IsInOrder(m)
    <2>1. m = [i \in 1..N |-> m[i]]
      BY <1>18
    <2>2. \A i \in 1..N : DOMAIN m[i] = fields /\ IsPlaced(m[i])
      <3> TAKE i \in 1..N
      <3>1. all \in Seq(S) /\ at[i] \in 1..Len(all)
        BY <1>9, <1>13, <1>20, Zenon
      <3>2. all[at[i]] \in S
        BY ONLY <3>1
      <3> QED
        BY <1>6, <1>20, <3>2
    <2> QED
      BY <1>9, <1>19, <1>21, <2>1, <2>2 DEF IsInOrder, fields
  <1>23. ASSUME NEW b \in f..t PROVE IsClosed(m, b)
    <2> DEFINE k == b - f + 1
    <2>1. k \in 1..n /\ f + k - 1 = b /\ k \in 1..N
      <3>1. k \in 1..n /\ f + k - 1 = b
        BY DEF n
      <3>2. Len(transfers) \in Nat
        OBVIOUS
      <3> QED
        BY <1>4, <1>9, <3>1, <3>2
    <2>2. PICK i \in 1..N : at[i] = k
      BY <1>18, <2>1
    <2>3. m[i].type = "EOB" /\ m[i].blockNumber = b /\ m[i].transactionPosition = maxTxPosition
      BY <1>10, <1>20, <2>1, <2>2
    <2>4. ASSUME NEW j \in 1..N, m[j].blockNumber = b, j # i
          PROVE  j < i /\ m[j].type # "EOB"
      <3> DEFINE l == at[j]
      <3>1. l \in 1..N /\ m[j] = all[l]
        BY <1>20
      <3>2. l # k
        <4>1. i < j \/ j < i
          BY <2>4
        <4> QED
          BY <1>21, <2>2, <4>1
      <3> HIDE DEF l, k
      <3>3. l > n
        <4>1. l \in 1..n => f + l - 1 = b
          BY <1>10, <2>4, <3>1
        <4>2. l \in Int /\ k \in Int /\ f \in Int /\ n \in Int /\ 1 <= l
          BY <1>4, <2>1, <3>1
        <4> QED
          BY <2>1, <3>2, <4>1, <4>2
      <3>4. m[j].type # "EOB" /\ m[j].transactionPosition \in 0..2
        BY <1>11, <3>1, <3>3
      <3>5. transactionOrder(m[j], m[i])
        <4>1. m[j].transactionPosition < m[i].transactionPosition
          BY <1>2, <2>3, <3>4
        <4> QED
          BY <2>3, <2>4, <4>1 DEF transactionOrder
      <3>6. ~(i < j)
        BY <1>21, <3>5
      <3> QED
        BY <2>4, <3>4, <3>6
    <2>5. \A j \in 1..N : m[j].blockNumber = b => j <= i /\ (m[j].type = "EOB" => j = i)
      BY <2>4
    <2> QED
      BY <1>19, <2>3, <2>5 DEF IsClosed
  <1> QED
    BY <1>22, <1>23

(* Counting from 0 within each transaction puts equals apart and leaves the   *)
(* rest of the order as it is.                                               *)
LEMMA AssignedInOrder ==
  ASSUME NEW m, IsInOrder(m), NEW a, a = assignInternalTransactionPosition(m)
  PROVE  /\ Len(a) = Len(m) /\ a = [i \in 1..Len(m) |-> a[i]]
         /\ \A i \in 1..Len(m) : /\ a[i].blockNumber = m[i].blockNumber /\ a[i].type = m[i].type
                                 /\ a[i].transactionPosition = m[i].transactionPosition
                                 /\ DOMAIN a[i] = DOMAIN m[i]
         /\ \A i \in 1..(Len(m) - 1) : transactionOrder(a[i], a[i + 1])
  <1> DEFINE n == Len(m)
             Before(i) == {j \in 1..(i - 1) :
                             /\ m[j].blockNumber = m[i].blockNumber
                             /\ m[j].transactionPosition = m[i].transactionPosition}
  <1>1. /\ n \in Nat /\ m = [i \in 1..n |-> m[i]]
        /\ \A i \in 1..n : /\ DOMAIN m[i] = {"from", "to", "value", "blockNumber",
                                             "transactionPosition", "internalTxPosition", "type"}
                           /\ IsPlaced(m[i])
        /\ \A i, j \in 1..n : i < j => ~transactionOrder(m[j], m[i])
    BY DEF IsInOrder
  <1>2. a = [i \in 1..n |-> [m[i] EXCEPT !.internalTxPosition = Cardinality(Before(i))]]
    BY <1>1 DEF assignInternalTransactionPosition
  <1> HIDE DEF n
  <1>3. Len(a) = n /\ a = [i \in 1..n |-> a[i]]
    BY <1>1, <1>2
  <1>4. \A i \in 1..n : /\ a[i].blockNumber = m[i].blockNumber /\ a[i].type = m[i].type
                        /\ a[i].transactionPosition = m[i].transactionPosition
                        /\ DOMAIN a[i] = DOMAIN m[i]
                        /\ a[i].internalTxPosition = Cardinality(Before(i))
    <2> TAKE i \in 1..n
    <2> DEFINE c == Cardinality(Before(i))
    <2>1. a[i] = [m[i] EXCEPT !.internalTxPosition = c]
      BY <1>2
    <2> HIDE DEF c
    <2>2. /\ a[i].blockNumber = m[i].blockNumber /\ a[i].type = m[i].type
          /\ a[i].transactionPosition = m[i].transactionPosition
          /\ DOMAIN a[i] = DOMAIN m[i] /\ a[i].internalTxPosition = c
      BY <1>1, <2>1
    <2> QED
      BY <2>2 DEF c
  <1>5. ASSUME NEW i \in 1..(n - 1) PROVE transactionOrder(a[i], a[i + 1])
    <2> DEFINE k == i + 1
    <2>1. i \in 1..n /\ k \in 1..n /\ i < k /\ i \in Nat /\ k - 1 = i
      BY <1>1
    <2> HIDE DEF k
    <2>2. IsPlaced(m[i]) /\ IsPlaced(m[k]) /\ ~transactionOrder(m[k], m[i])
      BY <1>1, <2>1
    <2>3. \/ m[i].blockNumber < m[k].blockNumber
          \/ /\ m[i].blockNumber = m[k].blockNumber
             /\ m[i].transactionPosition < m[k].transactionPosition
          \/ /\ m[i].blockNumber = m[k].blockNumber
             /\ m[i].transactionPosition = m[k].transactionPosition
      BY <2>2 DEF transactionOrder, IsPlaced
    <2>4. CASE /\ m[i].blockNumber = m[k].blockNumber
               /\ m[i].transactionPosition = m[k].transactionPosition
      <3>1. Before(k) = Before(i) \cup {i} /\ i \notin Before(i)
        BY <2>1, <2>4
      <3>2. IsFiniteSet(Before(i)) /\ Cardinality(Before(i)) \in Nat
        <4>1. IsFiniteSet(1..(i - 1))
          BY <2>1, FS_Interval
        <4>2. Before(i) \subseteq 1..(i - 1)
          OBVIOUS
        <4> HIDE DEF Before
        <4> QED
          BY <4>1, <4>2, FS_Subset, FS_CardinalityType
      <3>3. Cardinality(Before(k)) = Cardinality(Before(i)) + 1
        <4> HIDE DEF Before
        <4> QED
          BY <3>1, <3>2, FS_AddElement
      <3> DEFINE x == Cardinality(Before(i))
                 y == Cardinality(Before(k))
      <3>4. a[i].internalTxPosition = x /\ a[k].internalTxPosition = y /\ x \in Nat /\ y = x + 1
        BY <1>4, <2>1, <3>2, <3>3
      <3> HIDE DEF x, y
      <3>5. a[i].internalTxPosition < a[k].internalTxPosition
        BY <3>4
      <3> QED
        BY <1>4, <2>1, <2>4, <3>5 DEF transactionOrder, k
    <2>5. CASE \/ m[i].blockNumber < m[k].blockNumber
               \/ /\ m[i].blockNumber = m[k].blockNumber
                  /\ m[i].transactionPosition < m[k].transactionPosition
      BY <1>4, <2>1, <2>5 DEF transactionOrder, k
    <2> QED
      BY <2>3, <2>4, <2>5
  <1> HIDE DEF Before
  <1> QED
    BY <1>3, <1>4, <1>5 DEF n

(* What BlocksAreClosed says of the events of the blocks from f to t *)
IsClosedBatch(e, f, t) ==
  /\ \A i \in 1..(Len(e) - 1) : transactionOrder(e[i], e[i + 1])
  /\ \A b \in f..t :
       LET ofBlock == {i \in DOMAIN e : e[i].blockNumber = b}
       IN {i \in ofBlock : e[i].type = "EOB"} = {Max(ofBlock)}

(* Transfers with their positions and keys, and the ends of the blocks, are a *)
(* closed batch.                                                             *)
LEMMA KeysKeepOrder ==
  ASSUME NEW m, IsInOrder(m), NEW f, NEW t, \A b \in f..t : IsClosed(m, b),
         NEW a, a = assignInternalTransactionPosition(m), NEW key,
         NEW e, e = [i \in 1..Len(a) |-> Extend(a[i], [primaryKey |-> key + i])]
  PROVE  IsClosedBatch(e, f, t)
  <1> DEFINE n == Len(m)
  <1>1. n \in Nat /\ \A i \in 1..n :
          DOMAIN m[i] = {"from", "to", "value", "blockNumber", "transactionPosition",
                         "internalTxPosition", "type"}
    BY DEF IsInOrder
  <1>2. /\ Len(a) = n
        /\ \A i \in 1..n : /\ a[i].blockNumber = m[i].blockNumber /\ a[i].type = m[i].type
                           /\ a[i].transactionPosition = m[i].transactionPosition
                           /\ DOMAIN a[i] = DOMAIN m[i]
        /\ \A i \in 1..(n - 1) : transactionOrder(a[i], a[i + 1])
    BY AssignedInOrder
  <1> HIDE DEF n
  <1>3. DOMAIN e = 1..n /\ Len(e) = n
    BY <1>1, <1>2
  <1>4. \A i \in 1..n : /\ e[i].blockNumber = a[i].blockNumber /\ e[i].type = a[i].type
                        /\ e[i].transactionPosition = a[i].transactionPosition
                        /\ e[i].internalTxPosition = a[i].internalTxPosition
    <2> TAKE i \in 1..n
    <2> DEFINE x == a[i]
               y == [primaryKey |-> key + i]
    <2>1. e[i] = Extend(x, y) /\ DOMAIN y = {"primaryKey"}
      BY <1>2
    <2>2. DOMAIN x = {"from", "to", "value", "blockNumber", "transactionPosition",
                      "internalTxPosition", "type"}
      BY <1>1, <1>2
    <2> HIDE DEF x, y
    <2>3. /\ Extend(x, y).blockNumber = x.blockNumber /\ Extend(x, y).type = x.type
          /\ Extend(x, y).transactionPosition = x.transactionPosition
          /\ Extend(x, y).internalTxPosition = x.internalTxPosition
      BY <2>1, <2>2 DEF Extend
    <2> QED
      BY <2>1, <2>3 DEF x
  <1>5. \A i \in 1..(n - 1) : transactionOrder(e[i], e[i + 1])
    <2> TAKE i \in 1..(n - 1)
    <2> DEFINE k == i + 1
    <2>1. i \in 1..n /\ k \in 1..n
      BY <1>1
    <2>2. transactionOrder(a[i], a[k])
      BY <1>2
    <2> HIDE DEF k
    <2>3. transactionOrder(e[i], e[k])
      BY <1>4, <2>1, <2>2 DEF transactionOrder
    <2> QED
      BY <2>3 DEF k
  <1>6. ASSUME NEW b \in f..t
        PROVE  {i \in {k \in DOMAIN e : e[k].blockNumber = b} : e[i].type = "EOB"}
                 = {Max({k \in DOMAIN e : e[k].blockNumber = b})}
    <2> DEFINE ofBlock == {k \in DOMAIN e : e[k].blockNumber = b}
               max == Max(ofBlock)
    <2>1. PICK i \in 1..n :
            /\ m[i].type = "EOB" /\ m[i].blockNumber = b
            /\ \A j \in 1..n : m[j].blockNumber = b => j <= i /\ (m[j].type = "EOB" => j = i)
      BY <1>6, Zenon DEF IsClosed, n
    <2>2. \A j \in 1..n : e[j].blockNumber = m[j].blockNumber /\ e[j].type = m[j].type
      BY <1>2, <1>4
    <2>3. i \in ofBlock /\ \A j \in ofBlock : j <= i /\ (e[j].type = "EOB" => j = i)
      BY <1>3, <2>1, <2>2, ZenonT(30)
    <2>4. ofBlock \subseteq Int /\ i \in Int
      BY <1>1, <1>3
    <2>5. max = Max(ofBlock) /\ e[i].type = "EOB"
      BY <2>1, <2>2
    <2> HIDE DEF max, ofBlock
    <2>6. max \in ofBlock /\ \A j \in ofBlock : j <= max
      BY <2>3, <2>4, <2>5, MaxExists
    <2>7. max = i
      <3>1. max \in Int /\ i \in Int /\ max <= i /\ i <= max
        BY <2>3, <2>4, <2>6
      <3> QED
        BY ONLY <3>1
    <2>8. {k \in ofBlock : e[k].type = "EOB"} = {max}
      BY <2>3, <2>5, <2>7
    <2> QED
      BY <2>8 DEF max, ofBlock
  <1> QED
    BY <1>3, <1>5, <1>6 DEF IsClosedBatch

(* What the node answers for the interval *)
LEMMA FetchedBlocksAnswer ==
  ASSUME chain \in [Block -> 1..4], NEW lossy,
         Interval.fromBlock \in Nat, Interval.toBlock \in Nat, Interval.toBlock <= MaxBlock
  PROVE  BlocksAnswer(fetchData(lossy), Interval.fromBlock, Interval.toBlock)
  <1> DEFINE f == Interval.fromBlock
             t == Interval.toBlock
             n == t - f + 1
             blocks == fetchData(lossy)
  <1>1. f \in Nat /\ t \in Nat /\ t <= MaxBlock /\ MaxBlock \in Nat
    BY EvmWorkersAssumption
  <1>2. blocks = [i \in 1..n |-> AnsweredBlock(f + i - 1, lossy)]
    BY DEF fetchData
  <1> HIDE DEF f, t, blocks
  <1>3. ASSUME NEW i \in 1..n PROVE IsAnswer(blocks[i], f + i - 1)
    <2> DEFINE b == f + i - 1
    <2>1. b \in 0..MaxBlock /\ blocks[i] = AnsweredBlock(b, lossy)
      BY <1>1, <1>2
    <2> HIDE DEF b
    <2>2. IsAnswer(blocks[i], b)
      BY <2>1, AnsweredBlockIsAnswer
    <2> QED
      BY <2>2 DEF b
  <1>4. blocks = [i \in 1..n |-> blocks[i]]
    BY <1>2
  <1> QED
    BY <1>3, <1>4 DEF BlocksAnswer, f, t, blocks

(* The sorted transfers of the interval *)
LEMMA SortedTransfersAre ==
  ASSUME NEW f \in Nat, NEW t \in Nat, f <= t, NEW blocks, BlocksAnswer(blocks, f, t),
         Interval.fromBlock = f, Interval.toBlock = t
  PROVE  SortedTransfers(blocks) \in Seq(EthTransferOf(f..t, 0..2))
  <1> DEFINE E == EthTransferOf(f..t, 0..2)
             s == transformPastEvents(f, t, blocks)
             r == stableSort(s, transactionOrder)
  <1>1. s \in Seq(E)
    BY PastEventsAre
  <1>2. \A e \in E : IsPlaced(e)
    BY DEF EthTransferOf, IsPlaced
  <1>3. SortedTransfers(blocks) = r /\ r = stableSort(s, transactionOrder)
    BY DEF SortedTransfers
  <1> HIDE DEF E, s, r
  <1> DEFINE R == StableOrder(TransferLess(s), Len(s))
  <1>4. IsSorting(r, s, R)
    BY <1>1, <1>2, <1>3, TransfersSorting
  <1> HIDE DEF R
  <1>5. r \in Seq(E)
    BY <1>1, <1>4, SortingMembers
  <1> QED
    BY <1>3, <1>5 DEF E

(* A batch of the ETH worker is closed when it is returned. *)
LEMMA WorkClosesBlocks ==
  ASSUME Types, Heights, HasWork, NEW lossy, WorkOnBlocks(SortedTransfers(fetchData(lossy)))
  PROVE  BlocksAreClosed'
  <1> DEFINE f == Interval.fromBlock
             t == Interval.toBlock
             blocks == fetchData(lossy)
             transfers == SortedTransfers(blocks)
             m == mergeSortedArrays(transfers, collectEndOfBlocks(f, t))
             a == assignInternalTransactionPosition(m)
             e == [i \in 1..Len(a) |-> Extend(a[i], [primaryKey |-> lastPrimaryKey + i])]
  <1>1. f = saved.block + 1 /\ f \in Nat /\ t \in Nat /\ f <= t /\ t <= MaxBlock
    BY IntervalBounds, EvmWorkersAssumption DEF Types
  <1>2. BlocksAnswer(blocks, f, t)
    BY <1>1, FetchedBlocksAnswer DEF Types
  <1>3. transfers \in Seq(EthTransferOf(f..t, 0..2))
    <2>1. Interval.fromBlock = f /\ Interval.toBlock = t /\ transfers = SortedTransfers(blocks)
      OBVIOUS
    <2> HIDE DEF f, t, blocks, transfers
    <2> QED
      BY <1>1, <1>2, <2>1, SortedTransfersAre
  <1>4. CASE Throw
    BY <1>4 DEF Throw, Fresh, BlocksAreClosed
  <1>5. CASE \E key : Return(e, key)
    <2>1. PICK key : Return(e, key)
      BY <1>5
    <2>2. events' = e /\ lastExportedBlock' = t /\ saved' = saved
      BY <2>1 DEF Return
    <2>3. m = mergeSortedArrays(transfers, collectEndOfBlocks(f, t))
      OBVIOUS
    <2>4. a = assignInternalTransactionPosition(m)
      OBVIOUS
    <2>5. e = [i \in 1..Len(a) |-> Extend(a[i], [primaryKey |-> lastPrimaryKey + i])]
      OBVIOUS
    <2> HIDE DEF f, t, blocks, transfers, m, a, e
    <2>6. IsInOrder(m) /\ \A b \in f..t : IsClosed(m, b)
      BY <1>1, <1>3, <2>3, MergedInOrder
    <2>7. IsClosedBatch(e, f, t)
      BY <2>4, <2>5, <2>6, KeysKeepOrder
    <2>8. IsClosedBatch(events', saved'.block + 1, lastExportedBlock')
      BY <1>1, <2>2, <2>7
    <2> QED
      BY <2>8 DEF BlocksAreClosed, IsClosedBatch
  <1>6. Throw \/ \E key : Return(e, key)
    BY DEF WorkOnBlocks
  <1> QED
    BY <1>4, <1>5, <1>6

(* The ends of the blocks are in place when a batch is sent: every block of   *)
(* the batch is ended once, by its last event, and the events go up in their *)
(* position, whatever the node left out of its answers.                      *)
THEOREM EveryBlockIsClosed == Spec => []BlocksAreClosed
  <1>1. Init => BlocksAreClosed
    BY DEF Init, BlocksAreClosed
  <1>2. ASSUME Types, Heights, BlocksAreClosed, [Next]_vars PROVE BlocksAreClosed'
    <2>1. CASE WorkEth
      BY <1>2, <2>1, WorkClosesBlocks DEF WorkEth
    <2>2. CASE WorkEthLossy
      BY <1>2, <2>2, WorkClosesBlocks DEF WorkEthLossy
    <2>3. CASE WorkTokens \/ WorkRecords
      <3>1. mode # "eth" /\ mode' = mode
        BY <2>3 DEF WorkTokens, WorkRecords, Return, nodeVars, TokenModes, RecordModes
      <3> QED
        BY <3>1 DEF BlocksAreClosed
    <2>4. CASE InitWorker \/ WorkIdle \/ Store \/ Save
      <3>1. pc' # "store"
        BY <2>4 DEF InitWorker, WorkIdle, Store, Save
      <3> QED
        BY <3>1 DEF BlocksAreClosed
    <2>5. CASE WorkThrows \/ Crash
      <3>1. pc' # "store"
        BY <2>5 DEF WorkThrows, Throw, Crash, Fresh
      <3> QED
        BY <3>1 DEF BlocksAreClosed
    <2>6. CASE GrowChain \/ UNCHANGED vars
      <3>1. UNCHANGED <<mode, pc, events, saved, lastExportedBlock>>
        BY <2>6 DEF GrowChain, vars, nodeVars, workerVars
      <3> QED
        BY <1>2, <3>1, ZenonT(60) DEF BlocksAreClosed
    <2> QED
      BY <1>2, <2>1, <2>2, <2>3, <2>4, <2>5, <2>6 DEF Next, Step
  <1> QED
    BY <1>1, <1>2, TypesAndHeights, PTL DEF Spec

-----------------------------------------------------------------------------
(* The number of a transfer within its transaction                         *)

(* Of one transaction *)
SameTx(x, y) == x.blockNumber = y.blockNumber /\ x.transactionPosition = y.transactionPosition

(* The places in s of which the first comes before the second in their        *)
(* transaction                                                               *)
EarlierIn(s) ==
  {pair \in (1..Len(s)) \X (1..Len(s)) :
     /\ SameTx(s[pair[1]], s[pair[2]])
     /\ \/ s[pair[1]].internalTxPosition < s[pair[2]].internalTxPosition
        \/ /\ s[pair[1]].internalTxPosition = s[pair[2]].internalTxPosition
           /\ pair[1] < pair[2]}

EarlierThan(s, k) == {j \in 1..Len(s) : <<j, k>> \in EarlierIn(s)}

(* A transfer of s with its number *)
Numbered(s, k) == [s[k] EXCEPT !.internalTxPosition = Cardinality(EarlierThan(s, k))]

(* What comes earlier, in words of the elements *)
LEMMA EarlierMeans ==
  ASSUME NEW s, NEW j \in 1..Len(s), NEW k \in 1..Len(s)
  PROVE  <<j, k>> \in EarlierIn(s) <=>
           /\ SameTx(s[j], s[k])
           /\ \/ s[j].internalTxPosition < s[k].internalTxPosition
              \/ s[j].internalTxPosition = s[k].internalTxPosition /\ j < k
  BY DEF EarlierIn

(* SameTx is an equivalence. *)
LEMMA SameTxAlike ==
  ASSUME NEW x, NEW y, NEW z
  PROVE  /\ SameTx(x, x) /\ (SameTx(x, y) => SameTx(y, x))
         /\ SameTx(x, y) /\ SameTx(y, z) => SameTx(x, z)
  BY DEF SameTx

(* at says which element of s each of r is; within a transaction r has them   *)
(* in the order of s.                                                        *)
Orders(at, r, s) ==
  /\ at \in [1..Len(s) -> 1..Len(s)]
  /\ r = [i \in 1..Len(s) |-> s[at[i]]]
  /\ \A k \in 1..Len(s) : \E i \in 1..Len(s) : at[i] = k
  /\ \A i, j \in 1..Len(s) : at[i] = at[j] => i = j
  /\ \A i, j \in 1..Len(s) : SameTx(r[i], r[j]) => (i < j <=> <<at[i], at[j]>> \in EarlierIn(s))

(* So does sorting. *)
LEMMA SortingOrders ==
  ASSUME NEW S, NEW s \in Seq(S), \A e \in S : IsPlaced(e),
         NEW r, r = stableSort(s, transactionOrder)
  PROVE  \E at : Orders(at, r, s)
  <1> DEFINE N == Len(s)
             L == TransferLess(s)
             R == StableOrder(L, N)
  <1>1. N \in Nat /\ N = Len(s) /\ \A k \in 1..N : IsPlaced(s[k])
    OBVIOUS
  <1>2. IsSorting(r, s, R)
    BY TransfersSorting
  <1>3. \A j, k \in 1..N : <<j, k>> \in R <=>
          (transactionOrder(s[j], s[k]) \/ (~transactionOrder(s[k], s[j]) /\ j < k))
    BY DEF StableOrder, TransferLess
  <1> HIDE DEF N, L, R
  <1>4. PICK at \in [1..N -> 1..N] :
          /\ r = [i \in 1..N |-> s[at[i]]]
          /\ \A k \in 1..N : \E i \in 1..N : at[i] = k
          /\ \A i, j \in 1..N : i < j => <<at[i], at[j]>> \in R
    BY <1>1, <1>2, Zenon DEF IsSorting
  <1>5. \A i \in 1..N : at[i] \in 1..N /\ r[i] = s[at[i]]
    BY <1>4
  <1>6. \A j, k \in 1..N : SameTx(s[j], s[k]) =>
          (<<j, k>> \in R <=> <<j, k>> \in EarlierIn(s))
    <2> TAKE j, k \in 1..N
    <2> HAVE SameTx(s[j], s[k])
    <2>1. IsPlaced(s[j]) /\ IsPlaced(s[k]) /\ j \in Int /\ k \in Int
      BY <1>1
    <2>2. <<j, k>> \in EarlierIn(s) <=>
            \/ s[j].internalTxPosition < s[k].internalTxPosition
            \/ s[j].internalTxPosition = s[k].internalTxPosition /\ j < k
      BY <1>1, EarlierMeans
    <2>3. (transactionOrder(s[j], s[k]) \/ (~transactionOrder(s[k], s[j]) /\ j < k)) <=>
            \/ s[j].internalTxPosition < s[k].internalTxPosition
            \/ s[j].internalTxPosition = s[k].internalTxPosition /\ j < k
      <3> DEFINE x == s[j]
                 y == s[k]
      <3>1. IsPlaced(x) /\ IsPlaced(y) /\ SameTx(x, y) /\ j \in Int /\ k \in Int
        BY <2>1
      <3> HIDE DEF x, y
      <3>2. transactionOrder(x, y) <=> x.internalTxPosition < y.internalTxPosition
        BY ONLY <3>1 DEF transactionOrder, IsPlaced, SameTx
      <3>3. transactionOrder(y, x) <=> y.internalTxPosition < x.internalTxPosition
        BY ONLY <3>1 DEF transactionOrder, IsPlaced, SameTx
      <3>4. (transactionOrder(x, y) \/ (~transactionOrder(y, x) /\ j < k)) <=>
              \/ x.internalTxPosition < y.internalTxPosition
              \/ x.internalTxPosition = y.internalTxPosition /\ j < k
        BY ONLY <3>1, <3>2, <3>3 DEF IsPlaced
      <3> QED
        BY <3>4 DEF x, y
    <2> QED
      BY <1>3, <2>2, <2>3
  <1>7. \A j, k \in 1..N : <<j, k>> \in R => <<k, j>> \notin R
    <2> TAKE j, k \in 1..N
    <2>1. IsPlaced(s[j]) /\ IsPlaced(s[k])
      BY <1>1
    <2>2. transactionOrder(s[j], s[k]) => ~transactionOrder(s[k], s[j])
      BY <2>1, TransactionOrderCompares
    <2>3. transactionOrder(s[k], s[j]) => ~transactionOrder(s[j], s[k])
      BY <2>1, TransactionOrderCompares
    <2>4. ~(j < k /\ k < j)
      BY <1>1
    <2> QED
      BY <1>3, <2>2, <2>3, <2>4
  <1>8. \A i, j \in 1..N : i < j <=> <<at[i], at[j]>> \in R
    <2> TAKE i, j \in 1..N
    <2>1. i < j \/ i = j \/ j < i
      BY <1>1
    <2>2. i < j => <<at[i], at[j]>> \in R
      BY <1>4
    <2>3. j < i => <<at[j], at[i]>> \in R
      BY <1>4
    <2>4. at[i] \in 1..N /\ at[j] \in 1..N
      BY <1>5
    <2>5. ~(i < i) /\ (i < j => ~(j < i))
      BY <1>1
    <2> QED
      BY <1>7, <2>1, <2>2, <2>3, <2>4, <2>5, Zenon
  <1>9. \A i, j \in 1..N : at[i] = at[j] => i = j
    <2> TAKE i, j \in 1..N
    <2>1. i < j \/ i = j \/ j < i
      BY <1>1
    <2>2. at[i] \in 1..N /\ at[j] \in 1..N
      BY <1>5
    <2> QED
      BY <1>7, <1>8, <2>1, <2>2, Zenon
  <1>10. \A i, j \in 1..N : SameTx(r[i], r[j]) => (i < j <=> <<at[i], at[j]>> \in EarlierIn(s))
    BY <1>5, <1>6, <1>8
  <1>11. Orders(at, r, s)
    BY <1>1, <1>4, <1>9, <1>10 DEF Orders
  <1> QED
    BY <1>11

EndOf(b) == Transfer("zero", "zero", 0, b, maxTxPosition, "EOB")

(* The end of a block has its own position. *)
LEMMA EndFields ==
  ASSUME NEW b
  PROVE  /\ EndOf(b).type = "EOB" /\ EndOf(b).blockNumber = b
         /\ EndOf(b).transactionPosition = maxTxPosition /\ EndOf(b).internalTxPosition = 0
         /\ DOMAIN EndOf(b) = {"from", "to", "value", "blockNumber", "transactionPosition",
                               "internalTxPosition", "type"}
         /\ [EndOf(b) EXCEPT !.internalTxPosition = 0] = EndOf(b)
  BY DEF EndOf, Transfer

(* The places of all are those of the ends and, after them, those of r, which *)
(* has its elements from s.                                                  *)
IsMerged(all, n, f, r, s) ==
  /\ Len(all) = n + Len(s) /\ Len(r) = Len(s)
  /\ \A k \in 1..n : all[k] = EndOf(f + k - 1)
  /\ \A k \in 1..Len(s) : all[n + k] = r[k]
  /\ \A k \in 1..Len(s) : IsPlaced(s[k]) /\ s[k].transactionPosition \in 0..2

(* In the merged list, what comes earlier in a transaction is what does in s. *)
LEMMA MergedEarlier ==
  ASSUME NEW n \in Nat, NEW f, NEW all, NEW r, NEW s, Len(s) \in Nat,
         IsMerged(all, n, f, r, s), NEW at, Orders(at, r, s),
         NEW p \in 1..Len(s), NEW q \in 1..Len(s), SameTx(r[p], r[q])
  PROVE  <<n + p, n + q>> \in EarlierIn(all) <=> <<at[p], at[q]>> \in EarlierIn(s)
  <1> DEFINE u == n + p
             v == n + q
             x == r[p]
             y == r[q]
  <1>1. u \in 1..Len(all) /\ v \in 1..Len(all) /\ all[u] = x /\ all[v] = y
    BY DEF IsMerged
  <1>2. /\ at[p] \in 1..Len(s) /\ at[q] \in 1..Len(s) /\ s[at[p]] = x /\ s[at[q]] = y
        /\ p < q <=> <<at[p], at[q]>> \in EarlierIn(s)
    BY DEF Orders
  <1>3. IsPlaced(x) /\ IsPlaced(y)
    BY <1>2 DEF IsMerged
  <1>4. u < v <=> p < q
    OBVIOUS
  <1>5. SameTx(x, y)
    OBVIOUS
  <1> HIDE DEF u, v, x, y
  <1>6. <<u, v>> \in EarlierIn(all) <=>
          x.internalTxPosition < y.internalTxPosition
            \/ (x.internalTxPosition = y.internalTxPosition /\ u < v)
    BY <1>1, <1>5, EarlierMeans
  <1>7. <<at[p], at[q]>> \in EarlierIn(s) <=>
          x.internalTxPosition < y.internalTxPosition
            \/ (x.internalTxPosition = y.internalTxPosition /\ at[p] < at[q])
    BY <1>2, <1>5, EarlierMeans
  <1>8. <<at[q], at[p]>> \in EarlierIn(s) <=>
          y.internalTxPosition < x.internalTxPosition
            \/ (y.internalTxPosition = x.internalTxPosition /\ at[q] < at[p])
    <2>1. SameTx(y, x)
      BY <1>5, SameTxAlike
    <2> QED
      BY <1>2, <2>1, EarlierMeans
  <1> DEFINE a == x.internalTxPosition
             b == y.internalTxPosition
             c == at[p]
             d == at[q]
  <1>9. a \in Int /\ b \in Int /\ c \in Int /\ d \in Int
    BY <1>2, <1>3 DEF IsPlaced
  <1>10. /\ <<u, v>> \in EarlierIn(all) <=> (a < b \/ (a = b /\ p < q))
         /\ <<c, d>> \in EarlierIn(s) <=> (a < b \/ (a = b /\ c < d))
         /\ p < q <=> <<c, d>> \in EarlierIn(s)
    BY <1>2, <1>4, <1>6, <1>7
  <1> HIDE DEF a, b, c, d
  <1>11. <<u, v>> \in EarlierIn(all) <=> <<c, d>> \in EarlierIn(s)
    BY ONLY <1>9, <1>10
  <1> QED
    BY <1>11 DEF u, v, c, d

(* The transfers of s with their numbers, and the ends of the blocks *)
NumberedIn(s) == {Numbered(s, k) : k \in 1..Len(s)}

(* a has the numbered transfers of s and the ends of the blocks, no others.   *)
IsNumberedBatch(a, s, f, t) ==
  /\ \A i \in 1..Len(a) : a[i] \in NumberedIn(s) \cup {EndOf(b) : b \in f..t}
  /\ \A x \in NumberedIn(s) \cup {EndOf(b) : b \in f..t} : \E i \in 1..Len(a) : a[i] = x
  /\ Len(a) \in Nat

(* The batch has the transfers with their numbers, and the ends. *)
LEMMA BatchIsNumbered ==
  ASSUME NEW f \in Nat, NEW t \in Nat, f <= t, NEW s \in Seq(EthTransferOf(f..t, 0..2)),
         NEW r, r = stableSort(s, transactionOrder),
         NEW m, m = mergeSortedArrays(r, collectEndOfBlocks(f, t)),
         NEW a, a = assignInternalTransactionPosition(m)
  PROVE  IsNumberedBatch(a, s, f, t)
  <1> DEFINE n == t - f + 1
             M == Len(s)
             N == n + M
             E == EthTransferOf(f..t, 0..2)
             eobs == collectEndOfBlocks(f, t)
             all == eobs \o r
  <1>1. n \in Nat /\ M \in Nat /\ N \in Nat /\ \A b \in f..t : b - f + 1 \in 1..n /\ f + (b - f + 1) - 1 = b
    OBVIOUS
  <1>2. \A k \in 1..n : f + k - 1 \in f..t
    OBVIOUS
  <1>3. maxTxPosition \in Int /\ maxTxPosition > 2
    BY DEF maxTxPosition
  <1>4. \A e \in E : IsPlaced(e) /\ e.transactionPosition \in 0..2
    BY DEF EthTransferOf, IsPlaced
  <1>5. s \in Seq(E) /\ \A k \in 1..M : s[k] \in E
    OBVIOUS
  <1>6. eobs = [i \in 1..n |-> EndOf(f + i - 1)]
    BY DEF collectEndOfBlocks, EndOf
  <1>7. m = stableSort(all, transactionOrder)
    BY DEF mergeSortedArrays
  <1> HIDE DEF E, eobs
  <1>8. PICK at \in [1..M -> 1..M] : Orders(at, r, s)
    <2>1. \E x : Orders(x, r, s)
      BY <1>4, <1>5, SortingOrders
    <2> QED
      BY <2>1 DEF Orders
  <1>9. Len(r) = M /\ \A k \in 1..M : at[k] \in 1..M /\ r[k] = s[at[k]]
    BY <1>1, <1>8, SMTT(30) DEF Orders
  <1> DEFINE S == E \cup {EndOf(b) : b \in f..t}
  <1>10. \A e \in S : IsPlaced(e)
    <2>1. \A b \in f..t : IsPlaced(EndOf(b))
      BY <1>3, EndFields DEF IsPlaced
    <2> QED
      BY <1>4, <2>1
  <1>11. eobs \in Seq(S) /\ Len(eobs) = n
    <2>1. \A i \in 1..n : EndOf(f + i - 1) \in S
      BY <1>2
    <2> HIDE DEF S, n
    <2> QED
      BY <1>1, <1>6, <2>1
  <1>12. r \in Seq(S)
    <2>1. \A k \in 1..M : r[k] \in S
      BY <1>5, <1>9
    <2>2. r = [k \in 1..M |-> r[k]]
      BY <1>8, <1>9 DEF Orders
    <2>3. M \in Nat
      BY <1>1
    <2> HIDE DEF S, M
    <2>4. r \in [1..M -> S]
      BY ONLY <2>1, <2>2
    <2> QED
      BY ONLY <2>3, <2>4
  <1> HIDE DEF S, n, M
  <1>13. /\ all \in Seq(S) /\ Len(all) = N
         /\ \A k \in 1..n : all[k] = EndOf(f + k - 1)
         /\ \A k \in 1..M : all[n + k] = r[k]
    <2>1. all = eobs \o r /\ Len(r) = M
      BY <1>9
    <2>2. \A k \in 1..n : eobs[k] = EndOf(f + k - 1)
      BY <1>6
    <2> HIDE DEF all, N
    <2>3. Appended(all, eobs, r, S)
      BY ONLY <1>11, <1>12, <2>1, NextPart
    <2>4. \A k \in 1..Len(eobs) : all[k] = eobs[k]
      BY ONLY <2>3 DEF Appended
    <2>5. \A k \in 1..Len(r) : all[Len(eobs) + k] = r[k]
      BY ONLY <2>3 DEF Appended
    <2>6. all \in Seq(S) /\ Len(all) = n + M
      BY ONLY <1>11, <2>1, <2>3 DEF Appended
    <2> QED
      BY <1>11, <2>1, <2>2, <2>4, <2>5, <2>6 DEF N
  <1> HIDE DEF all
  <1>14. IsMerged(all, n, f, r, s)
    BY <1>4, <1>5, <1>9, <1>13 DEF IsMerged, M
  <1>15. PICK to : Orders(to, m, all)
    BY <1>7, <1>10, <1>13, SortingOrders
  <1>16. /\ to \in [1..N -> 1..N] /\ m = [i \in 1..N |-> all[to[i]]] /\ Len(m) = N
         /\ \A k \in 1..N : \E i \in 1..N : to[i] = k
         /\ \A i, j \in 1..N : to[i] = to[j] => i = j
         /\ \A i, j \in 1..N : SameTx(m[i], m[j]) => (i < j <=> <<to[i], to[j]>> \in EarlierIn(all))
    <2>1. Len(all) = N /\ N \in Nat
      BY <1>1, <1>13
    <2> HIDE DEF N
    <2>2. m = [i \in 1..N |-> all[to[i]]]
      BY <1>15, <2>1 DEF Orders
    <2>3. Len(m) = N
      BY ONLY <2>1, <2>2
    <2> QED
      BY <1>15, <2>1, <2>3, Zenon DEF Orders
  <1>17. \A i \in 1..N : to[i] \in 1..N /\ m[i] = all[to[i]]
    BY <1>16
  <1> DEFINE P(i) == {j \in 1..(i - 1) : SameTx(m[j], m[i])}
  <1>18. /\ a = [i \in 1..N |-> [m[i] EXCEPT !.internalTxPosition = Cardinality(P(i))]]
         /\ Len(a) = N
    <2>1. a = [i \in DOMAIN m |-> [m[i] EXCEPT !.internalTxPosition = Cardinality(P(i))]]
      BY DEF assignInternalTransactionPosition, SameTx
    <2>2. DOMAIN m = 1..N
      BY <1>16
    <2> HIDE DEF P, N
    <2> QED
      BY <1>1, <2>1, <2>2
  <1>19. \A i \in 1..N : a[i] = [m[i] EXCEPT !.internalTxPosition = Cardinality(P(i))]
    BY <1>18
  <1>20. \A k \in 1..N : k \in 1..n \/ (k - n \in 1..M /\ k = n + (k - n))
    BY <1>1
  <1>21. \A k \in 1..M : n + k \in 1..N /\ n + k \notin 1..n
    BY <1>1
  <1>22. \A k \in 1..n : k \in 1..N
    BY <1>1
  <1>23. \A k \in 1..M : r[k].transactionPosition # maxTxPosition
    <2> TAKE k \in 1..M
    <2>1. r[k] \in E
      BY <1>5, <1>9
    <2>2. r[k].transactionPosition \in 0..2
      BY <1>4, <2>1
    <2> QED
      BY <1>3, <2>2
  <1>24. ASSUME NEW i \in 1..N, to[i] \in 1..n PROVE a[i] = EndOf(f + to[i] - 1)
    <2> DEFINE x == EndOf(f + to[i] - 1)
    <2>1. m[i] = x
      BY <1>13, <1>17, <1>24
    <2>2. P(i) = {}
      <3> SUFFICES ASSUME NEW j \in 1..(i - 1), SameTx(m[j], m[i]) PROVE FALSE
        OBVIOUS
      <3>1. j \in 1..N /\ j # i
        BY <1>1
      <3>2. CASE to[j] \in 1..n
        <4>1. m[j].blockNumber = f + to[j] - 1 /\ m[i].blockNumber = f + to[i] - 1
          BY <1>13, <1>17, <2>1, <3>1, <3>2, EndFields
        <4>2. f + to[j] - 1 = f + to[i] - 1
          BY <4>1 DEF SameTx
        <4>3. to[j] \in Int /\ to[i] \in Int
          BY <1>17, <3>1
        <4>4. to[j] = to[i]
          BY <4>2, <4>3
        <4> QED
          BY <1>16, <3>1, <4>4
      <3>3. CASE to[j] \notin 1..n
        <4>1. to[j] \in 1..N
          BY <1>17, <3>1
        <4>2. to[j] - n \in 1..M /\ to[j] = n + (to[j] - n)
          BY <1>20, <3>3, <4>1
        <4>3. m[j] = r[to[j] - n]
          BY <1>13, <1>17, <3>1, <4>2
        <4>4. m[i].transactionPosition = maxTxPosition
          BY <2>1, EndFields
        <4> QED
          BY <1>23, <4>2, <4>3, <4>4 DEF SameTx
      <3> QED
        BY <3>2, <3>3
    <2>3. Cardinality(P(i)) = 0
      BY <2>2, FS_EmptySet
    <2>4. a[i] = [x EXCEPT !.internalTxPosition = 0]
      BY <1>19, <2>1, <2>3
    <2> QED
      BY <2>4, EndFields
  <1>25. ASSUME NEW i \in 1..N, NEW k \in 1..M, to[i] = n + k PROVE a[i] = Numbered(s, at[k])
    <2>1. m[i] = r[k] /\ m[i] = s[at[k]] /\ at[k] \in 1..M
      BY <1>9, <1>13, <1>17, <1>25
    <2> DEFINE B == EarlierThan(s, at[k])
               g == [j \in P(i) |-> at[to[j] - n]]
    <2>2. ASSUME NEW j \in P(i)
          PROVE  /\ to[j] - n \in 1..M /\ to[j] = n + (to[j] - n) /\ j \in 1..N
                 /\ m[j] = r[to[j] - n] /\ SameTx(r[to[j] - n], r[k])
                 /\ at[to[j] - n] \in B
      <3>1. j \in 1..N /\ j < i /\ SameTx(m[j], m[i])
        BY <1>1, <2>2
      <3>2. to[j] \notin 1..n
        <4>1. to[j] \in 1..n => m[j].transactionPosition = maxTxPosition
          BY <1>13, <1>17, <3>1, EndFields
        <4> QED
          BY <1>23, <2>1, <3>1, <4>1 DEF SameTx
      <3>3. to[j] - n \in 1..M /\ to[j] = n + (to[j] - n)
        BY <1>17, <1>20, <3>1, <3>2
      <3> DEFINE q == to[j] - n
      <3>4. q \in 1..M /\ to[j] = n + q
        BY <3>3
      <3> HIDE DEF q
      <3>5. m[j] = r[q]
        BY <1>13, <1>17, <3>1, <3>4
      <3>6. SameTx(r[q], r[k])
        BY <2>1, <3>1, <3>5
      <3>7. <<n + q, n + k>> \in EarlierIn(all)
        BY <1>16, <1>25, <3>1, <3>4
      <3>8. <<at[q], at[k]>> \in EarlierIn(s)
        BY <1>1, <1>8, <1>14, <3>4, <3>6, <3>7, MergedEarlier, ZenonT(60) DEF M
      <3>9. at[q] \in B
        BY <1>9, <3>4, <3>8 DEF EarlierThan, M
      <3> QED
        BY <3>1, <3>3, <3>5, <3>6, <3>9 DEF q
    <2>3. g \in [P(i) -> B]
      BY <2>2
    <2>4. \A x, y \in P(i) : g[x] = g[y] => x = y
      <3> TAKE x, y \in P(i)
      <3> HAVE g[x] = g[y]
      <3>1. at[to[x] - n] = at[to[y] - n] /\ to[x] - n \in 1..M /\ to[y] - n \in 1..M
        BY <2>2
      <3>2. to[x] - n = to[y] - n
        BY <1>8, <3>1 DEF Orders, M
      <3>3. to[x] = to[y]
        BY <2>2, <3>2
      <3> QED
        BY <1>16, <2>2, <3>3
    <2>5. \A z \in B : \E x \in P(i) : g[x] = z
      <3> TAKE z \in B
      <3>1. z \in 1..M /\ <<z, at[k]>> \in EarlierIn(s)
        BY DEF EarlierThan, M
      <3>2. PICK q \in 1..M : at[q] = z
        BY <1>8, <3>1 DEF Orders, M
      <3>3. SameTx(s[z], s[at[k]])
        BY <2>1, <3>1, EarlierMeans DEF M
      <3>4. SameTx(r[q], r[k])
        BY <1>9, <3>2, <3>3
      <3>5. <<n + q, n + k>> \in EarlierIn(all)
        BY <1>1, <1>8, <1>14, <3>1, <3>2, <3>4, MergedEarlier DEF M
      <3>6. PICK j \in 1..N : to[j] = n + q
        BY <1>16, <1>21, <3>2
      <3>7. m[j] = r[q]
        BY <1>13, <1>17, <3>2, <3>6
      <3>8. SameTx(m[j], m[i])
        BY <2>1, <3>4, <3>7
      <3>9. j < i
        BY <1>16, <1>25, <3>5, <3>6, <3>8
      <3>10. j \in P(i)
        BY <1>1, <3>8, <3>9
      <3>11. to[j] - n = q
        BY <1>1, <3>2, <3>6
      <3> QED
        BY <3>2, <3>10, <3>11
    <2>6. IsFiniteSet(P(i))
      <3>1. IsFiniteSet(1..(i - 1))
        <4>1. 1 \in Int /\ i - 1 \in Int
          BY <1>1
        <4> QED
          BY <4>1, FS_Interval
      <3>2. P(i) \in SUBSET (1..(i - 1))
        OBVIOUS
      <3> HIDE DEF P
      <3> QED
        BY <3>1, <3>2, FS_Subset
    <2> HIDE DEF g, B, P
    <2>7. Cardinality(P(i)) = Cardinality(B)
      BY <2>3, <2>4, <2>5, <2>6, CountsEqual
    <2> QED
      BY <1>19, <2>1, <2>7 DEF Numbered, B
  <1> HIDE DEF P, N
  <1>26. ASSUME NEW i \in 1..Len(a)
         PROVE  a[i] \in NumberedIn(s) \cup {EndOf(b) : b \in f..t}
    <2>1. i \in 1..N /\ to[i] \in 1..N
      BY <1>17, <1>18
    <2>2. CASE to[i] \in 1..n
      BY <1>2, <1>24, <2>1, <2>2 DEF n
    <2>3. CASE to[i] \notin 1..n
      <3>1. PICK k \in 1..M : to[i] = n + k
        BY <1>20, <2>1, <2>3 DEF N
      <3>2. a[i] = Numbered(s, at[k]) /\ at[k] \in 1..M
        BY <1>9, <1>25, <2>1, <3>1
      <3> QED
        BY <3>2 DEF NumberedIn, M
    <2> QED
      BY <2>2, <2>3
  <1>27. ASSUME NEW x \in NumberedIn(s) \cup {EndOf(b) : b \in f..t}
         PROVE  \E i \in 1..Len(a) : a[i] = x
    <2>1. CASE x \in NumberedIn(s)
      <3>1. PICK l \in 1..M : x = Numbered(s, l)
        BY <2>1 DEF NumberedIn, M
      <3>2. PICK k \in 1..M : at[k] = l
        BY <1>8, <3>1 DEF Orders, M
      <3>3. PICK i \in 1..N : to[i] = n + k
        BY <1>16, <1>21, <3>2
      <3> QED
        BY <1>18, <1>25, <3>1, <3>2, <3>3
    <2>2. CASE x \in {EndOf(b) : b \in f..t}
      <3>1. PICK b \in f..t : x = EndOf(b)
        BY <2>2
      <3> DEFINE k == b - f + 1
      <3>2. k \in 1..n /\ f + k - 1 = b
        BY <1>1
      <3> HIDE DEF k
      <3>3. PICK i \in 1..N : to[i] = k
        BY <1>16, <1>22, <3>2
      <3> QED
        BY <1>18, <1>24, <3>1, <3>2, <3>3
    <2> QED
      BY <2>1, <2>2
  <1> QED
    BY <1>1, <1>18, <1>26, <1>27 DEF IsNumberedBatch, N

-----------------------------------------------------------------------------
(* The transfers of one block                                              *)

(* p has the transfers of the block b in s, as they stand; g says where. *)
PartAt(g, p, s, b) ==
  /\ g \in [1..Len(p) -> 1..Len(s)]
  /\ \A k \in 1..Len(p) : s[g[k]] = p[k] /\ p[k].blockNumber = b
  /\ \A j, k \in 1..Len(p) : j < k => g[j] < g[k]
  /\ \A i \in 1..Len(s) : s[i].blockNumber = b => \E k \in 1..Len(p) : g[k] = i

IsPartOf(p, s, b) == \E g : PartAt(g, p, s, b)

(* A block's transfers are all of themselves. *)
LEMMA PartWhole ==
  ASSUME NEW s, Len(s) \in Nat, NEW b, \A i \in 1..Len(s) : s[i].blockNumber = b
  PROVE  IsPartOf(s, s, b)
  <1> DEFINE g == [k \in 1..Len(s) |-> k]
  <1>1. PartAt(g, s, s, b)
    BY DEF PartAt
  <1> QED
    BY <1>1 DEF IsPartOf

(* Another block's hold none. *)
LEMMA PartNone ==
  ASSUME NEW s, Len(s) \in Nat, NEW b, \A i \in 1..Len(s) : s[i].blockNumber # b
  PROVE  IsPartOf(<<>>, s, b)
  <1> DEFINE g == [k \in 1..0 |-> k]
  <1>1. Len(<<>>) = 0 /\ 1..0 = {}
    OBVIOUS
  <1>2. PartAt(g, <<>>, s, b)
    BY <1>1 DEF PartAt
  <1> QED
    BY <1>2 DEF IsPartOf

(* Parts of lists are parts of the lists one after the other. *)
LEMMA PartAppend ==
  ASSUME NEW S, NEW s \in Seq(S), NEW t \in Seq(S), NEW p \in Seq(S), NEW q \in Seq(S), NEW b,
         IsPartOf(p, s, b), IsPartOf(q, t, b)
  PROVE  IsPartOf(p \o q, s \o t, b)
  <1>1. PICK g : PartAt(g, p, s, b)
    BY DEF IsPartOf
  <1>2. PICK h : PartAt(h, q, t, b)
    BY DEF IsPartOf
  <1> DEFINE K == Len(p)
             L == Len(q)
             M == Len(s)
             N == Len(t)
             u == s \o t
             v == p \o q
             f == [k \in 1..(K + L) |-> IF k <= K THEN g[k] ELSE M + h[k - K]]
  <1>3. K \in Nat /\ L \in Nat /\ M \in Nat /\ N \in Nat
    OBVIOUS
  <1>4. Appended(u, s, t, S) /\ Appended(v, p, q, S)
    BY NextPart
  <1>5. /\ \A k \in 1..K : g[k] \in 1..M /\ s[g[k]] = p[k] /\ p[k].blockNumber = b
        /\ \A j, k \in 1..K : j < k => g[j] < g[k]
        /\ \A i \in 1..M : s[i].blockNumber = b => \E k \in 1..K : g[k] = i
    BY <1>1 DEF PartAt
  <1>6. /\ \A k \in 1..L : h[k] \in 1..N /\ t[h[k]] = q[k] /\ q[k].blockNumber = b
        /\ \A j, k \in 1..L : j < k => h[j] < h[k]
        /\ \A i \in 1..N : t[i].blockNumber = b => \E k \in 1..L : h[k] = i
    BY <1>2 DEF PartAt
  <1>7. /\ Len(u) = M + N /\ \A i \in 1..M : u[i] = s[i]
        /\ \A i \in 1..N : u[M + i] = t[i]
        /\ Len(v) = K + L /\ \A i \in 1..K : v[i] = p[i]
        /\ \A i \in 1..L : v[K + i] = q[i]
    BY <1>4 DEF Appended
  <1> HIDE DEF K, L, M, N, u, v
  <1>8. \A k \in 1..(K + L) : k \in 1..K \/ (k - K \in 1..L /\ k = K + (k - K) /\ ~(k <= K))
    BY <1>3
  <1>9. \A k \in 1..K : k \in 1..(K + L) /\ k <= K
    BY <1>3
  <1>10. \A k \in 1..L : K + k \in 1..(K + L) /\ ~(K + k <= K) /\ K + k - K = k
    BY <1>3
  <1>11. \A k \in 1..(K + L) : f[k] = IF k <= K THEN g[k] ELSE M + h[k - K]
    OBVIOUS
  <1>12. \A k \in 1..K : f[k] = g[k]
    BY <1>9, <1>11
  <1>13. \A k \in 1..L : f[K + k] = M + h[k]
    <2> TAKE k \in 1..L
    <2> DEFINE i == K + k
    <2>1. i \in 1..(K + L) /\ ~(i <= K) /\ i - K = k
      BY ONLY <1>3, k \in 1..L
    <2> HIDE DEF i, f
    <2>2. f[i] = M + h[i - K]
      BY <1>11, <2>1
    <2> QED
      BY <2>1, <2>2 DEF i
  <1>14. f = [k \in 1..(K + L) |-> f[k]]
    OBVIOUS
  <1> HIDE DEF f
  <1>15. \A k \in 1..(K + L) : f[k] \in 1..(M + N) /\ u[f[k]] = v[k] /\ v[k].blockNumber = b
    <2> TAKE k \in 1..(K + L)
    <2>1. CASE k \in 1..K
      <3>1. f[k] = g[k] /\ g[k] \in 1..M
        BY <1>5, <1>12, <2>1
      <3>2. f[k] \in 1..(M + N)
        BY <1>3, <3>1
      <3> QED
        BY <1>5, <1>7, <2>1, <3>1, <3>2
    <2>2. CASE ~(k \in 1..K)
      <3> DEFINE l == k - K
      <3>1. l \in 1..L /\ k = K + l
        BY <1>8, <2>2
      <3> HIDE DEF l
      <3>2. f[k] = M + h[l] /\ h[l] \in 1..N
        BY <1>6, <1>13, <3>1
      <3>3. f[k] \in 1..(M + N)
        BY <1>3, <3>2
      <3> QED
        BY <1>6, <1>7, <3>1, <3>2, <3>3
    <2> QED
      BY <2>1, <2>2
  <1>16. \A j, k \in 1..(K + L) : j < k => f[j] < f[k]
    <2> TAKE j, k \in 1..(K + L)
    <2> HAVE j < k
    <2>1. CASE k \in 1..K
      <3>1. j \in 1..K
        BY <1>3, <2>1
      <3> QED
        BY <1>5, <1>12, <2>1, <3>1
    <2>2. CASE ~(k \in 1..K)
      <3> DEFINE l == k - K
      <3>1. l \in 1..L /\ k = K + l
        BY <1>8, <2>2
      <3> HIDE DEF l
      <3>2. f[k] = M + h[l] /\ h[l] \in 1..N
        BY <1>6, <1>13, <3>1
      <3>3. CASE j \in 1..K
        <4>1. f[j] \in 1..M
          BY <1>5, <1>12, <3>3
        <4> QED
          BY <1>3, <3>2, <4>1
      <3>4. CASE ~(j \in 1..K)
        <4> DEFINE i == j - K
        <4>1. i \in 1..L /\ j = K + i
          BY <1>8, <3>4
        <4> HIDE DEF i
        <4>2. f[j] = M + h[i] /\ h[i] \in 1..N
          BY <1>6, <1>13, <4>1
        <4>3. i < l
          BY <1>3, <3>1, <4>1
        <4>4. h[i] < h[l]
          BY <1>6, <3>1, <4>1, <4>3
        <4> QED
          BY <1>3, <3>2, <4>2, <4>4
      <3> QED
        BY <3>3, <3>4
    <2> QED
      BY <2>1, <2>2
  <1>17. \A i \in 1..(M + N) : u[i].blockNumber = b => \E k \in 1..(K + L) : f[k] = i
    <2> TAKE i \in 1..(M + N)
    <2> HAVE u[i].blockNumber = b
    <2>1. CASE i \in 1..M
      <3>1. PICK k \in 1..K : g[k] = i
        BY <1>5, <1>7, <2>1
      <3> QED
        BY <1>9, <1>12, <3>1
    <2>2. CASE ~(i \in 1..M)
      <3> DEFINE l == i - M
      <3>1. l \in 1..N /\ i = M + l
        BY <1>3, <2>2
      <3> HIDE DEF l
      <3>2. PICK k \in 1..L : h[k] = l
        BY <1>6, <1>7, <3>1
      <3> QED
        BY <1>10, <1>13, <3>1, <3>2
    <2> QED
      BY <2>1, <2>2
  <1>18. PartAt(f, v, u, b)
    BY <1>7, <1>14, <1>15, <1>16, <1>17 DEF PartAt
  <1> QED
    BY <1>18 DEF IsPartOf, u, v

(* A transfer has the same number in its block as in all. *)
LEMMA PartCounts ==
  ASSUME NEW s, Len(s) \in Nat, NEW p, Len(p) \in Nat, NEW b, NEW g, PartAt(g, p, s, b),
         NEW k \in 1..Len(p)
  PROVE  Cardinality(EarlierThan(p, k)) = Cardinality(EarlierThan(s, g[k]))
  <1> DEFINE A == EarlierThan(p, k)
             B == EarlierThan(s, g[k])
             h == [j \in A |-> g[j]]
             K == Len(p)
             M == Len(s)
  <1>1. /\ \A i \in 1..K : g[i] \in 1..M /\ s[g[i]] = p[i] /\ p[i].blockNumber = b
        /\ \A i, j \in 1..K : i < j => g[i] < g[j]
        /\ \A i \in 1..M : s[i].blockNumber = b => \E j \in 1..K : g[j] = i
    BY DEF PartAt
  <1>2. K \in Nat /\ M \in Nat /\ k \in 1..K /\ g[k] \in 1..M
    BY <1>1
  <1>3. \A i, j \in 1..K : i < j <=> g[i] < g[j]
    <2> TAKE i, j \in 1..K
    <2>1. i < j => g[i] < g[j]
      BY <1>1
    <2>2. j < i => g[j] < g[i]
      BY <1>1
    <2>3. i = j => g[i] = g[j]
      OBVIOUS
    <2>4. g[i] \in 1..M /\ g[j] \in 1..M
      BY <1>1
    <2> DEFINE c == g[i]
               d == g[j]
    <2> HIDE DEF c, d
    <2>5. c \in Int /\ d \in Int /\ i \in Int /\ j \in Int
      BY <2>4 DEF c, d
    <2>6. (i < j => c < d) /\ (j < i => d < c) /\ (i = j => c = d)
      BY <2>1, <2>2, <2>3 DEF c, d
    <2>7. i < j <=> c < d
      BY ONLY <2>5, <2>6
    <2> QED
      BY <2>7 DEF c, d
  <1>4. \A i, j \in 1..K : g[i] = g[j] => i = j
    <2> TAKE i, j \in 1..K
    <2>1. ~(g[i] < g[j]) /\ ~(g[j] < g[i]) <=> g[i] = g[j]
      BY <1>1, <1>2
    <2>2. ~(i < j) /\ ~(j < i) => i = j
      BY <1>2
    <2> QED
      BY <1>3, <2>1, <2>2
  <1>5. \A i \in 1..K : i \in A <=> g[i] \in B
    <2> TAKE i \in 1..K
    <2> DEFINE c == g[i]
               d == g[k]
    <2>1. c \in 1..M /\ d \in 1..M /\ s[c] = p[i] /\ s[d] = p[k] /\ (i < k <=> c < d)
      BY <1>1, <1>2, <1>3
    <2> HIDE DEF c, d
    <2>2. <<i, k>> \in EarlierIn(p) <=>
            /\ SameTx(p[i], p[k])
            /\ \/ p[i].internalTxPosition < p[k].internalTxPosition
               \/ p[i].internalTxPosition = p[k].internalTxPosition /\ i < k
      BY <1>2, EarlierMeans DEF K
    <2>3. <<c, d>> \in EarlierIn(s) <=>
            /\ SameTx(s[c], s[d])
            /\ \/ s[c].internalTxPosition < s[d].internalTxPosition
               \/ s[c].internalTxPosition = s[d].internalTxPosition /\ c < d
      BY <2>1, EarlierMeans DEF M
    <2>4. <<i, k>> \in EarlierIn(p) <=> <<c, d>> \in EarlierIn(s)
      BY <2>1, <2>2, <2>3
    <2> QED
      BY <1>2, <2>1, <2>4 DEF EarlierThan, c, d, K, M
  <1>6. A \subseteq 1..K /\ B \subseteq 1..M
    BY DEF EarlierThan
  <1>7. \A z \in B : \E j \in A : h[j] = z
    <2> TAKE z \in B
    <2>1. z \in 1..M /\ <<z, g[k]>> \in EarlierIn(s)
      BY DEF EarlierThan
    <2>2. SameTx(s[z], s[g[k]])
      BY <1>2, <2>1, EarlierMeans
    <2>3. s[z].blockNumber = b
      BY <1>1, <1>2, <2>2 DEF SameTx
    <2>4. PICK j \in 1..K : g[j] = z
      BY <1>1, <2>1, <2>3
    <2>5. j \in A
      BY <1>5, <2>4
    <2> QED
      BY <2>4, <2>5
  <1>8. IsFiniteSet(A)
    <2> DEFINE T == 1..K
    <2>1. IsFiniteSet(T)
      <3>1. 1 \in Int /\ K \in Int
        BY <1>2
      <3> QED
        BY <3>1, FS_Interval
    <2>2. A \subseteq T
      BY <1>6
    <2> HIDE DEF A, T
    <2> QED
      BY <2>1, <2>2, FS_Subset
  <1>9. h \in [A -> B]
    BY <1>5, <1>6
  <1>10. \A i, j \in A : h[i] = h[j] => i = j
    BY <1>4, <1>6
  <1> HIDE DEF h, A, B
  <1>11. Cardinality(A) = Cardinality(B)
    BY <1>7, <1>8, <1>9, <1>10, CountsEqual
  <1> QED
    BY <1>11 DEF A, B

(* The numbered transfers of a block are those of the whole that are of it. *)
LEMMA PartNumbered ==
  ASSUME NEW C, NEW P, NEW s \in Seq(EthTransferOf(C, P)), NEW p, Len(p) \in Nat, NEW b,
         IsPartOf(p, s, b)
  PROVE  \A x : x \in NumberedIn(p) <=> x \in NumberedIn(s) /\ x.blockNumber = b
  <1> DEFINE E == EthTransferOf(C, P)
  <1>1. PICK g : PartAt(g, p, s, b)
    BY DEF IsPartOf
  <1>2. Len(s) \in Nat /\ \A k \in 1..Len(s) : s[k] \in E
    OBVIOUS
  <1> HIDE DEF E
  <1>3. /\ \A i \in 1..Len(p) : g[i] \in 1..Len(s) /\ s[g[i]] = p[i] /\ p[i].blockNumber = b
        /\ \A i \in 1..Len(s) : s[i].blockNumber = b => \E j \in 1..Len(p) : g[j] = i
    BY <1>1 DEF PartAt
  <1>4. \A k \in 1..Len(p) : Numbered(p, k) = Numbered(s, g[k])
    BY <1>1, <1>2, <1>3, PartCounts DEF Numbered
  <1>5. \A k \in 1..Len(s) : Numbered(s, k).blockNumber = s[k].blockNumber
    <2> TAKE k \in 1..Len(s)
    <2>1. s[k] \in E
      BY <1>2
    <2> DEFINE x == s[k]
               c == Cardinality(EarlierThan(s, k))
    <2>2. x \in E /\ Numbered(s, k) = [x EXCEPT !.internalTxPosition = c]
      BY <2>1 DEF Numbered
    <2> HIDE DEF x, c
    <2>3. [x EXCEPT !.internalTxPosition = c].blockNumber = x.blockNumber
      BY <2>2 DEF E, EthTransferOf
    <2> QED
      BY <2>2, <2>3 DEF x
  <1>6. ASSUME NEW x \in NumberedIn(p) PROVE x \in NumberedIn(s) /\ x.blockNumber = b
    <2>1. PICK k \in 1..Len(p) : x = Numbered(p, k)
      BY DEF NumberedIn
    <2> QED
      BY <1>3, <1>4, <1>5, <2>1 DEF NumberedIn
  <1>7. ASSUME NEW x \in NumberedIn(s), x.blockNumber = b PROVE x \in NumberedIn(p)
    <2>1. PICK k \in 1..Len(s) : x = Numbered(s, k)
      BY DEF NumberedIn
    <2>2. s[k].blockNumber = b
      BY <1>5, <1>7, <2>1
    <2>3. PICK j \in 1..Len(p) : g[j] = k
      BY <1>3, <2>2
    <2> QED
      BY <1>4, <2>1, <2>3 DEF NumberedIn
  <1> QED
    BY <1>6, <1>7

(* The part of a flattened list *)
LEMMA FlattenPart ==
  ASSUME NEW S, NEW ss \in Seq(Seq(S)), NEW b, NEW m \in 1..Len(ss),
         \A i \in 1..Len(ss) : \A k \in 1..Len(ss[i]) : ss[i][k].blockNumber = b <=> i = m
  PROVE  IsPartOf(ss[m], FlattenSeq(ss), b)
  <1> DEFINE flat == FlattenSeq(ss)
             p == ss[m]
             K == Len(p)
  <1>1. /\ flat \in Seq(S)
        /\ \E off : IsLayout(off, ss) /\ IsFlat(off, ss, flat)
    BY FlattenLayout
  <1>2. PICK off : IsLayout(off, ss) /\ IsFlat(off, ss, flat)
    BY <1>1
  <1>3. Len(flat) \in Nat /\ Len(ss) \in Nat /\ K \in Nat
    BY <1>1
  <1>4. \A i \in 1..Len(ss) : \A k \in 1..Len(ss[i]) :
          /\ flat[off[i - 1] + k] = ss[i][k]
          /\ ss[i][k].blockNumber = b <=> i = m
    BY <1>2 DEF IsFlat
  <1>5. \A q \in 1..Len(flat) : \E i \in 1..Len(ss) : \E k \in 1..Len(ss[i]) : q = off[i - 1] + k
    BY <1>2 DEF IsFlat
  <1> DEFINE c == off[m - 1]
             g == [k \in 1..K |-> c + k]
  <1>6. c \in Nat /\ off[m] = c + K /\ off[m] <= Len(flat)
    <2>1. m - 1 \in 0..Len(ss) /\ m \in 0..Len(ss) /\ Len(ss) \in 0..Len(ss) /\ m <= Len(ss)
      BY <1>3
    <2>2. off[m - 1] \in Nat /\ off[m] <= off[Len(ss)]
      BY <1>2, <2>1 DEF IsLayout
    <2>3. off[m] = off[m - 1] + Len(ss[m])
      BY <1>2 DEF IsLayout
    <2>4. Len(flat) = off[Len(ss)]
      BY <1>2 DEF IsFlat
    <2> QED
      BY <2>2, <2>3, <2>4
  <1>7. \A k \in 1..K : flat[c + k] = p[k] /\ p[k].blockNumber = b
    BY <1>4
  <1>8. \A q \in 1..Len(flat) : flat[q].blockNumber = b => \E k \in 1..K : c + k = q
    <2> TAKE q \in 1..Len(flat)
    <2> HAVE flat[q].blockNumber = b
    <2>1. PICK i \in 1..Len(ss) : \E k \in 1..Len(ss[i]) : q = off[i - 1] + k
      BY <1>5
    <2>2. PICK k \in 1..Len(ss[i]) : q = off[i - 1] + k
      BY <2>1
    <2>3. ss[i][k].blockNumber = b
      BY <1>4, <2>2
    <2>4. i = m
      BY <1>4, <2>3
    <2> QED
      BY <2>2, <2>4
  <1> HIDE DEF flat, p, K, c
  <1>9. \A k \in 1..K : c + k \in 1..Len(flat)
    BY <1>3, <1>6
  <1>10. \A j, k \in 1..K : j < k => c + j < c + k
    BY <1>3, <1>6
  <1>11. g \in [1..K -> 1..Len(flat)] /\ \A k \in 1..K : g[k] = c + k
    BY <1>9
  <1> HIDE DEF g
  <1>12. PartAt(g, p, flat, b)
    BY <1>7, <1>8, <1>10, <1>11 DEF PartAt, K
  <1> QED
    BY <1>12 DEF IsPartOf, flat, p

(* u is s with d put in after its first c elements. *)
IsInserted(u, s, d, c) ==
  /\ c \in 0..Len(s) /\ Len(s) \in Nat /\ Len(d) \in Nat /\ Len(u) = Len(s) + Len(d)
  /\ \A i \in 1..Len(s) : u[IF i <= c THEN i ELSE Len(d) + i] = s[i]
  /\ \A i \in 1..Len(d) : u[c + i] = d[i]

(* Splicing inserts. *)
LEMMA SplicedIn ==
  ASSUME NEW S, NEW s \in Seq(S), NEW d \in Seq(S), NEW c \in 0..Len(s)
  PROVE  IsInserted(SubSeq(s, 1, c) \o d \o SubSeq(s, c + 1, Len(s)), s, d, c)
  <1> DEFINE N == Len(s)
             D == Len(d)
             a == SubSeq(s, 1, c)
             z == SubSeq(s, c + 1, N)
             e == a \o d
             u == e \o z
  <1>1. N \in Nat /\ D \in Nat /\ c \in Nat /\ c <= N
    OBVIOUS
  <1>2. a \in Seq(S) /\ Len(a) = c /\ \A i \in 1..c : a[i] = s[i]
    BY <1>1, SubSeqProperties
  <1>3. z \in Seq(S) /\ Len(z) = N - c /\ \A i \in 1..(N - c) : z[i] = s[c + i]
    <2>1. c + 1 \in Int /\ N \in Int /\ N - (c + 1) + 1 = N - c
      BY <1>1
    <2> DEFINE f == c + 1
    <2>2. f \in Int /\ 1 <= f /\ f <= N + 1 /\ N - f + 1 = N - c
      BY <1>1
    <2>3. \A i \in 1..(N - c) : f + i - 1 = c + i
      BY <1>1
    <2> DEFINE w == SubSeq(s, f, N)
    <2>4. w \in Seq(S) /\ Len(w) = IF f <= N THEN N - f + 1 ELSE 0
      <3> HIDE DEF f
      <3> QED
        BY <1>1, <2>2, SubSeqProperties
    <2>5. \A i \in 1..(N - f + 1) : w[i] = s[f + i - 1]
      <3> HIDE DEF f
      <3> QED
        BY <1>1, <2>2, SubSeqProperties
    <2>6. Len(w) = N - c
      <3> HIDE DEF N, f, w
      <3> QED
        BY ONLY <1>1, <2>2, <2>4
    <2>7. \A i \in 1..(N - c) : w[i] = s[c + i]
      BY <2>2, <2>3, <2>5
    <2> QED
      BY <2>4, <2>6, <2>7
  <1> HIDE DEF N, a, z
  <1>4. Appended(e, a, d, S) /\ Appended(u, e, z, S)
    <2>1. e \in Seq(S)
      BY <1>2
    <2> QED
      BY <1>2, <1>3, <2>1, NextPart
  <1> HIDE DEF e, u
  <1>5. /\ Len(e) = c + D /\ (\A i \in 1..c : e[i] = s[i]) /\ \A i \in 1..D : e[c + i] = d[i]
    BY <1>2, <1>4 DEF Appended
  <1>6. /\ Len(u) = (c + D) + (N - c)
        /\ \A i \in 1..(c + D) : u[i] = e[i]
        /\ \A i \in 1..(N - c) : u[c + D + i] = s[c + i]
    BY <1>3, <1>4, <1>5 DEF Appended
  <1> HIDE DEF D
  <1>7. Len(u) = N + D
    BY <1>1, <1>6
  <1>8. ASSUME NEW i \in 1..N PROVE u[IF i <= c THEN i ELSE D + i] = s[i]
    <2>1. CASE i <= c
      <3>1. i \in 1..c /\ i \in 1..(c + D)
        BY <1>1, <2>1
      <3> QED
        BY <1>5, <1>6, <2>1, <3>1
    <2>2. CASE ~(i <= c)
      <3> DEFINE k == i - c
      <3>1. k \in 1..(N - c) /\ c + k = i /\ c + D + k = D + i
        BY <1>1, <2>2
      <3> HIDE DEF k
      <3>2. u[c + D + k] = s[c + k]
        BY <1>6, <3>1
      <3> QED
        BY <2>2, <3>1, <3>2
    <2> QED
      BY <2>1, <2>2
  <1>9. ASSUME NEW i \in 1..D PROVE u[c + i] = d[i]
    <2> DEFINE k == c + i
    <2>1. k \in 1..(c + D)
      BY <1>1
    <2>2. e[k] = d[i]
      BY <1>5
    <2> HIDE DEF k
    <2>3. u[k] = d[i]
      BY <1>6, <2>1, <2>2
    <2> QED
      BY <2>3 DEF k
  <1>10. IsInserted(u, s, d, c)
    BY <1>1, <1>7, <1>8, <1>9 DEF IsInserted, N, D
  <1> QED
    BY <1>10 DEF u, e, a, z, N

(* What is put in is there or after it. *)
LEMMA InsertedPlaces ==
  ASSUME NEW u, NEW s, NEW d, NEW c, IsInserted(u, s, d, c), NEW i \in 1..Len(u)
  PROVE  \/ \E k \in 1..Len(s) : i = (IF k <= c THEN k ELSE Len(d) + k)
         \/ \E k \in 1..Len(d) : i = c + k
  <1>1. c \in Nat /\ c <= Len(s) /\ Len(s) \in Nat /\ Len(d) \in Nat /\ i \in 1..(Len(s) + Len(d))
    BY DEF IsInserted
  <1>2. CASE i <= c
    BY <1>1, <1>2
  <1>3. CASE c < i /\ i <= c + Len(d)
    <2>1. i - c \in 1..Len(d) /\ i = c + (i - c)
      BY <1>1, <1>3
    <2> QED
      BY <2>1
  <1>4. CASE c + Len(d) < i
    <2>1. i - Len(d) \in 1..Len(s) /\ ~(i - Len(d) <= c) /\ i = Len(d) + (i - Len(d))
      BY <1>1, <1>4
    <2> QED
      BY <2>1
  <1> QED
    BY <1>1, <1>2, <1>3, <1>4

(* Other blocks do not notice. *)
LEMMA InsertedElsewhere ==
  ASSUME NEW u, NEW s, NEW d, NEW c, IsInserted(u, s, d, c), NEW p, Len(p) \in Nat, NEW b,
         IsPartOf(p, s, b), \A i \in 1..Len(d) : d[i].blockNumber # b
  PROVE  IsPartOf(p, u, b)
  <1>1. PICK g : PartAt(g, p, s, b)
    BY DEF IsPartOf
  <1> DEFINE K == Len(p)
             M == Len(s)
             D == Len(d)
             At(i) == IF i <= c THEN i ELSE D + i
             f == [k \in 1..K |-> At(g[k])]
  <1>2. /\ \A i \in 1..K : g[i] \in 1..M /\ s[g[i]] = p[i] /\ p[i].blockNumber = b
        /\ \A i, j \in 1..K : i < j => g[i] < g[j]
        /\ \A i \in 1..M : s[i].blockNumber = b => \E j \in 1..K : g[j] = i
    BY <1>1 DEF PartAt
  <1>3. /\ c \in 0..M /\ M \in Nat /\ D \in Nat /\ Len(u) = M + D /\ c \in Nat
        /\ \A i \in 1..M : u[At(i)] = s[i]
        /\ \A i \in 1..D : u[c + i] = d[i]
    BY DEF IsInserted
  <1> HIDE DEF K, M, D
  <1>4. \A i \in 1..M : At(i) \in 1..(M + D)
    BY <1>3
  <1>5. \A i, j \in 1..M : i < j => At(i) < At(j)
    BY <1>3
  <1>6. \A i \in 1..(M + D) : (\E k \in 1..M : i = At(k)) \/ \E k \in 1..D : i = c + k
    BY <1>3, InsertedPlaces, SMTT(30) DEF M, D
  <1> HIDE DEF At
  <1>7. f \in [1..K -> 1..Len(u)] /\ \A k \in 1..K : f[k] = At(g[k])
    BY <1>2, <1>3, <1>4
  <1> HIDE DEF f
  <1>8. \A k \in 1..K : u[f[k]] = p[k] /\ p[k].blockNumber = b
    BY <1>2, <1>3, <1>7
  <1>9. \A j, k \in 1..K : j < k => f[j] < f[k]
    BY <1>2, <1>5, <1>7
  <1>10. \A i \in 1..Len(u) : u[i].blockNumber = b => \E k \in 1..K : f[k] = i
    <2> TAKE i \in 1..Len(u)
    <2> HAVE u[i].blockNumber = b
    <2>1. ASSUME NEW k \in 1..M, i = At(k) PROVE \E j \in 1..K : f[j] = i
      <3>1. PICK j \in 1..K : g[j] = k
        BY <1>2, <1>3, <2>1
      <3> QED
        BY <1>7, <2>1, <3>1
    <2>2. ASSUME NEW k \in 1..D, i = c + k PROVE FALSE
      BY <1>3, <2>2 DEF D
    <2> QED
      BY <1>3, <1>6, <2>1, <2>2
  <1>11. PartAt(f, p, u, b)
    BY <1>7, <1>8, <1>9, <1>10 DEF PartAt, K
  <1> QED
    BY <1>11 DEF IsPartOf


(* In their own block they come first. *)
LEMMA InsertedBefore ==
  ASSUME NEW S, NEW u, NEW s, NEW d \in Seq(S), NEW c, IsInserted(u, s, d, c),
         NEW p \in Seq(S), NEW b, NEW g, PartAt(g, p, s, b),
         \A k \in 1..Len(p) : c < g[k], \A i \in 1..Len(d) : d[i].blockNumber = b
  PROVE  IsPartOf(d \o p, u, b)
  <1> DEFINE K == Len(p)
             M == Len(s)
             D == Len(d)
             v == d \o p
             f == [k \in 1..(D + K) |-> IF k <= D THEN c + k ELSE D + g[k - D]]
  <1>1. /\ \A i \in 1..K : g[i] \in 1..M /\ s[g[i]] = p[i] /\ p[i].blockNumber = b
        /\ \A i, j \in 1..K : i < j => g[i] < g[j]
        /\ \A i \in 1..M : s[i].blockNumber = b => \E j \in 1..K : g[j] = i
        /\ \A i \in 1..K : c < g[i]
    BY DEF PartAt
  <1>2. /\ c \in 0..M /\ M \in Nat /\ D \in Nat /\ Len(u) = M + D /\ c \in Nat
        /\ \A i \in 1..M : u[IF i <= c THEN i ELSE D + i] = s[i]
        /\ \A i \in 1..D : u[c + i] = d[i]
    BY DEF IsInserted
  <1>3. Appended(v, d, p, S)
    BY NextPart
  <1>4. /\ Len(v) = D + K /\ \A i \in 1..D : v[i] = d[i]
        /\ \A i \in 1..K : v[D + i] = p[i]
    BY <1>3 DEF Appended
  <1>5. K \in Nat
    OBVIOUS
  <1>6. \A i \in 1..D : d[i].blockNumber = b
    OBVIOUS
  <1> HIDE DEF K, M, D, v
  <1>7. \A k \in 1..D : k \in 1..(D + K) /\ k <= D
    BY <1>2, <1>5
  <1>8. \A k \in 1..(D + K) : k \in 1..D \/ (k - D \in 1..K /\ k = D + (k - D) /\ ~(k <= D))
    BY <1>2, <1>5
  <1>9. \A k \in 1..D : f[k] = c + k
    BY <1>7
  <1>10. \A k \in 1..K : f[D + k] = D + g[k] /\ D + k \in 1..(D + K)
    <2> TAKE k \in 1..K
    <2> DEFINE i == D + k
    <2>1. i \in 1..(D + K) /\ ~(i <= D) /\ i - D = k
      BY ONLY <1>2, <1>5, k \in 1..K
    <2>2. \A j \in 1..(D + K) : f[j] = IF j <= D THEN c + j ELSE D + g[j - D]
      OBVIOUS
    <2> HIDE DEF i, f
    <2>3. f[i] = D + g[i - D]
      BY <2>1, <2>2
    <2> QED
      BY <2>1, <2>3 DEF i
  <1>11. f = [k \in 1..(D + K) |-> f[k]]
    OBVIOUS
  <1> HIDE DEF f
  <1>12. \A i \in 1..K : u[D + g[i]] = p[i]
    <2> TAKE i \in 1..K
    <2>1. g[i] \in 1..M /\ ~(g[i] <= c)
      BY <1>1, <1>2
    <2> QED
      BY <1>1, <1>2, <2>1
  <1>13. \A k \in 1..(D + K) : f[k] \in 1..(M + D) /\ u[f[k]] = v[k] /\ v[k].blockNumber = b
    <2> TAKE k \in 1..(D + K)
    <2>1. CASE k \in 1..D
      <3>1. f[k] = c + k /\ c + k \in 1..(M + D)
        BY <1>2, <1>9, <2>1
      <3> QED
        BY <1>2, <1>4, <1>6, <2>1, <3>1
    <2>2. CASE ~(k \in 1..D)
      <3> DEFINE l == k - D
      <3>1. l \in 1..K /\ k = D + l
        BY <1>8, <2>2
      <3> HIDE DEF l
      <3>2. f[k] = D + g[l] /\ g[l] \in 1..M
        BY <1>1, <1>10, <3>1
      <3>3. f[k] \in 1..(M + D)
        BY <1>2, <3>2
      <3> QED
        BY <1>1, <1>4, <1>12, <3>1, <3>2, <3>3
    <2> QED
      BY <2>1, <2>2
  <1>14. \A j, k \in 1..(D + K) : j < k => f[j] < f[k]
    <2> TAKE j, k \in 1..(D + K)
    <2> HAVE j < k
    <2>1. CASE k \in 1..D
      <3>1. j \in 1..D
        BY <1>2, <2>1
      <3> QED
        BY <1>2, <1>9, <2>1, <3>1
    <2>2. CASE ~(k \in 1..D)
      <3> DEFINE l == k - D
      <3>1. l \in 1..K /\ k = D + l
        BY <1>8, <2>2
      <3> HIDE DEF l
      <3>2. f[k] = D + g[l] /\ g[l] \in 1..M /\ c < g[l]
        BY <1>1, <1>10, <3>1
      <3>3. CASE j \in 1..D
        <4>1. f[j] = c + j
          BY <1>9, <3>3
        <4> QED
          BY <1>2, <3>2, <3>3, <4>1
      <3>4. CASE ~(j \in 1..D)
        <4> DEFINE i == j - D
        <4>1. i \in 1..K /\ j = D + i
          BY <1>8, <3>4
        <4> HIDE DEF i
        <4>2. f[j] = D + g[i] /\ g[i] \in 1..M
          BY <1>1, <1>10, <4>1
        <4>3. i < l
          BY <1>2, <3>1, <4>1
        <4>4. g[i] < g[l]
          BY <1>1, <3>1, <4>1, <4>3
        <4> QED
          BY <1>2, <3>2, <4>2, <4>4
      <3> QED
        BY <3>3, <3>4
    <2> QED
      BY <2>1, <2>2
  <1>15. \A i \in 1..(M + D) : u[i].blockNumber = b => \E k \in 1..(D + K) : f[k] = i
    <2> TAKE i \in 1..(M + D)
    <2> HAVE u[i].blockNumber = b
    <2>1. ASSUME NEW k \in 1..M, i = (IF k <= c THEN k ELSE D + k)
          PROVE  \E j \in 1..(D + K) : f[j] = i
      <3>1. s[k].blockNumber = b
        BY <1>2, <2>1
      <3>2. PICK j \in 1..K : g[j] = k
        BY <1>1, <2>1, <3>1
      <3>3. c < k /\ k \in Int /\ c \in Int
        BY <1>1, <1>2, <3>2
      <3>4. ~(k <= c)
        BY ONLY <3>3
      <3> QED
        BY <1>10, <2>1, <3>2, <3>4
    <2>2. ASSUME NEW k \in 1..D, i = c + k PROVE \E j \in 1..(D + K) : f[j] = i
      BY <1>7, <1>9, <2>2
    <2>3. i \in 1..Len(u)
      BY <1>2
    <2>4. \/ \E k \in 1..M : i = (IF k <= c THEN k ELSE D + k)
          \/ \E k \in 1..D : i = c + k
      BY <2>3, InsertedPlaces DEF M, D
    <2> QED
      BY <2>1, <2>2, <2>4
  <1>16. M + D = Len(u)
    BY <1>2
  <1>17. PartAt(f, v, u, b)
    BY <1>4, <1>11, <1>13, <1>14, <1>15, <1>16 DEF PartAt
  <1> QED
    BY <1>17 DEF IsPartOf, v

(* The transfers of the DAO come before the others of their block. *)
LEMMA InjectPart ==
  ASSUME NEW S, NEW s \in Seq(S), NEW p \in Seq(S), daoHackTransfers \in Seq(S), NEW b,
         IsPartOf(p, s, b)
  PROVE  IsPartOf(IF b = DAO_HACK_FORK_BLOCK THEN daoHackTransfers \o p ELSE p,
                  injectDAOHackTransfers(s), b)
  <1> DEFINE d == daoHackTransfers
             ofBlock == {i \in DOMAIN s : s[i].blockNumber = DAO_HACK_FORK_BLOCK}
             c == IF ofBlock # {} THEN Min(ofBlock) - 1
                  ELSE IF s = <<>> THEN 0 ELSE Len(s) - 1
             u == injectDAOHackTransfers(s)
  <1>1. u = SubSeq(s, 1, c) \o d \o SubSeq(s, c + 1, Len(s))
    BY DEF injectDAOHackTransfers
  <1>2. ofBlock # {} => /\ Min(ofBlock) \in ofBlock
                        /\ \A i \in ofBlock : Min(ofBlock) <= i
    <2> SUFFICES ASSUME ofBlock # {}
                 PROVE  Min(ofBlock) \in ofBlock /\ \A i \in ofBlock : Min(ofBlock) <= i
      OBVIOUS
    <2> DEFINE m == Min(ofBlock)
    <2>1. m = Min(ofBlock) /\ ofBlock \subseteq Nat
      OBVIOUS
    <2> HIDE DEF m, ofBlock
    <2>2. m \in ofBlock /\ \A i \in ofBlock : m <= i
      BY <2>1, MinExists
    <2> QED
      BY <2>2 DEF m
  <1>3. Len(s) \in Nat /\ DOMAIN s = 1..Len(s)
    OBVIOUS
  <1>4. \A i \in 1..Len(d) : d[i].blockNumber = DAO_HACK_FORK_BLOCK
    <2> DEFINE E == EthTransferOf({DAO_HACK_FORK_BLOCK}, {0})
    <2>1. d \in Seq(E)
      BY IrregularTransfers
    <2>2. \A e \in E : e.blockNumber = DAO_HACK_FORK_BLOCK
      BY DEF EthTransferOf
    <2> HIDE DEF E, d
    <2> QED
      BY <2>1, <2>2
  <1>5. \A i \in 1..Len(s) : i \in ofBlock <=> s[i].blockNumber = DAO_HACK_FORK_BLOCK
    BY <1>3
  <1>6. ofBlock \subseteq 1..Len(s)
    BY <1>3
  <1>7. d \in Seq(S)
    OBVIOUS
  <1> HIDE DEF ofBlock, d
  <1>8. c \in 0..Len(s)
    <2>1. CASE ofBlock # {}
      <3> DEFINE m == Min(ofBlock)
      <3>1. m \in 1..Len(s) /\ c = m - 1
        BY <1>2, <1>6, <2>1
      <3> HIDE DEF m, c
      <3> QED
        BY <1>3, <3>1
    <2>2. CASE ofBlock = {}
      BY <1>3, <2>2
    <2> QED
      BY <2>1, <2>2
  <1>9. \A i \in ofBlock : c < i
    <2> TAKE i \in ofBlock
    <2> DEFINE m == Min(ofBlock)
    <2>1. m \in 1..Len(s) /\ c = m - 1 /\ m <= i /\ i \in 1..Len(s)
      BY <1>2, <1>6
    <2> HIDE DEF m, c
    <2> QED
      BY <1>3, <2>1
  <1> HIDE DEF c, u
  <1>10. IsInserted(u, s, d, c)
    BY <1>1, <1>7, <1>8, SplicedIn
  <1>11. CASE b = DAO_HACK_FORK_BLOCK
    <2>1. PICK g : PartAt(g, p, s, b)
      BY DEF IsPartOf
    <2>2. \A k \in 1..Len(p) : c < g[k]
      <3> TAKE k \in 1..Len(p)
      <3>1. g[k] \in 1..Len(s) /\ s[g[k]].blockNumber = b
        BY <2>1 DEF PartAt
      <3>2. g[k] \in ofBlock
        BY <1>5, <1>11, <3>1
      <3> QED
        BY <1>9, <3>2
    <2>3. IsPartOf(d \o p, u, b)
      BY <1>4, <1>7, <1>10, <1>11, <2>1, <2>2, InsertedBefore
    <2> QED
      BY <1>11, <2>3 DEF d, u
  <1>12. CASE b # DAO_HACK_FORK_BLOCK
    <2>1. \A i \in 1..Len(d) : d[i].blockNumber # b
      BY <1>4, <1>12
    <2>2. Len(p) \in Nat
      OBVIOUS
    <2>3. IsPartOf(p, u, b)
      BY <1>10, <2>1, <2>2, InsertedElsewhere
    <2> QED
      BY <1>12, <2>3 DEF u
  <1> QED
    BY <1>11, <1>12

(* The transfers of a block: before its own, those that are not its           *)
(* transactions'.                                                            *)
TracedAndPaid(A, b) ==
  (IF b = 0 THEN getGenesisTransfers ELSE <<>>)
    \o transformPastTransferEvents(A) \o transformPastTransactionEvents(A)

OwnTransfers(A, b) ==
  IF b = DAO_HACK_FORK_BLOCK THEN daoHackTransfers \o TracedAndPaid(A, b) ELSE TracedAndPaid(A, b)

(* The transfers of an answer are of its block, at the first positions. *)
LEMMA AnswerTransfersAre ==
  ASSUME NEW b \in Nat, NEW A, IsAnswer(A, b)
  PROVE  /\ transformPastTransferEvents(A) \in Seq(EthTransferOf({b}, 0..2))
         /\ transformPastTransactionEvents(A) \in Seq(EthTransferOf({b}, 0..2))
  <1> DEFINE Q == PositionsIn(A)
             P == 0..2
             B == {b}
             s == transformPastTransferEvents(A)
             u == transformPastTransactionEvents(A)
  <1>1. Q \subseteq P
    <2>1. \A k \in 1..Len(A.transactions) : A.transactions[k] \in PlacedTxs
      BY DEF IsAnswer
    <2>2. \A k \in 1..Len(A.transactions) : A.transactions[k].position \in 0..2
      BY <2>1, PlacedTxFields
    <2> QED
      BY <2>2 DEF PositionsIn
  <1>2. s \in Seq(EthTransferOf(B, Q)) /\ u \in Seq(EthTransferOf(B, Q))
    BY BlockTraceTransfers, BlockTransactionTransfers, ForksInOrder
  <1>3. B \subseteq B
    OBVIOUS
  <1> HIDE DEF Q, P, B, s, u
  <1>4. s \in Seq(EthTransferOf(B, P)) /\ u \in Seq(EthTransferOf(B, P))
    BY ONLY <1>1, <1>2, <1>3, TransfersOfMore
  <1> QED
    BY <1>4 DEF P, B, s, u

(* A sequence of transfers of a block is of that block. *)
LEMMA TransfersOfBlock ==
  ASSUME NEW B, NEW P, NEW s \in Seq(EthTransferOf(B, P))
  PROVE  Len(s) \in Nat /\ \A k \in 1..Len(s) : s[k].blockNumber \in B
  <1> DEFINE E == EthTransferOf(B, P)
  <1>1. \A e \in E : e.blockNumber \in B
    BY DEF EthTransferOf
  <1>2. s \in Seq(E)
    OBVIOUS
  <1> HIDE DEF E
  <1> QED
    BY <1>1, <1>2

(* In the transfers of an interval, those of a block are the ones of its      *)
(* answer.                                                                   *)
LEMMA OwnTransfersPart ==
  ASSUME NEW f \in Nat, NEW t \in Nat, f <= t, NEW blocks, BlocksAnswer(blocks, f, t),
         NEW b \in f..t, NEW A, A = blocks[b - f + 1]
  PROVE  /\ IsPartOf(OwnTransfers(A, b), transformPastEvents(f, t, blocks), b)
         /\ OwnTransfers(A, b) \in Seq(EthTransferOf({b}, 0..2))
  <1> DEFINE n == t - f + 1
             m == b - f + 1
             E == EthTransferOf(f..t, 0..2)
             Eb == EthTransferOf({b}, 0..2)
             genesis == IF f = 0 THEN getGenesisTransfers ELSE <<>>
             first == IF b = 0 THEN getGenesisTransfers ELSE <<>>
             moved == [i \in 1..Len(blocks) |-> transformPastTransferEvents(blocks[i])]
             paid == [i \in 1..Len(blocks) |-> transformPastTransactionEvents(blocks[i])]
             all == genesis \o FlattenSeq(moved) \o FlattenSeq(paid)
             own == TracedAndPaid(A, b)
             d == daoHackTransfers
  <1>1. n \in Nat /\ Len(blocks) = n /\ \A i \in 1..n : IsAnswer(blocks[i], f + i - 1)
    <2>1. n \in Nat
      OBVIOUS
    <2>2. blocks = [i \in 1..n |-> blocks[i]] /\ \A i \in 1..n : IsAnswer(blocks[i], f + i - 1)
      BY DEF BlocksAnswer
    <2> HIDE DEF n
    <2>3. Len(blocks) = n
      BY <2>1, <2>2
    <2> QED
      BY <2>1, <2>2, <2>3
  <1>2. transformPastEvents(f, t, blocks)
          = IF f <= DAO_HACK_FORK_BLOCK /\ DAO_HACK_FORK_BLOCK <= t
            THEN injectDAOHackTransfers(all) ELSE all
    BY DEF transformPastEvents
  <1>3. \A i \in 1..n : f + i - 1 \in f..t /\ f + i - 1 \in Nat /\ (f + i - 1 = b <=> i = m)
    OBVIOUS
  <1>4. m \in 1..n /\ f + m - 1 = b /\ b \in Nat
    OBVIOUS
  <1>5. IsAnswer(A, b)
    <2> DEFINE k == f + m - 1
    <2>1. IsAnswer(blocks[m], k) /\ k = b
      BY <1>1, <1>4
    <2> HIDE DEF k
    <2> QED
      BY <2>1
  <1>6. \A X \in SUBSET (f..t) : Seq(EthTransferOf(X, 0..2)) \subseteq Seq(E)
    <2> TAKE X \in SUBSET (f..t)
    <2> DEFINE P == 0..2
               Y == f..t
    <2>1. X \subseteq Y /\ P \subseteq P
      OBVIOUS
    <2> HIDE DEF P, Y
    <2>2. \A s \in Seq(EthTransferOf(X, P)) : s \in Seq(EthTransferOf(Y, P))
      BY ONLY <2>1, TransfersOfMore
    <2> QED
      BY <2>2 DEF P, Y
  <1>7. Seq(Eb) \subseteq Seq(E)
    <2>1. {b} \in SUBSET (f..t)
      OBVIOUS
    <2> QED
      BY <1>6, <2>1
  <1>8. /\ moved = [i \in 1..n |-> moved[i]] /\ paid = [i \in 1..n |-> paid[i]]
        /\ moved[m] = transformPastTransferEvents(A) /\ paid[m] = transformPastTransactionEvents(A)
    BY <1>1, <1>4
  <1>9. ASSUME NEW i \in 1..n
        PROVE  /\ moved[i] \in Seq(E) /\ paid[i] \in Seq(E)
               /\ \A k \in 1..Len(moved[i]) : moved[i][k].blockNumber = b <=> i = m
               /\ \A k \in 1..Len(paid[i]) : paid[i][k].blockNumber = b <=> i = m
    <2> DEFINE c == f + i - 1
               B == {c}
               x == moved[i]
               y == paid[i]
    <2>1. IsAnswer(blocks[i], c) /\ c \in Nat /\ B \in SUBSET (f..t) /\ (c = b <=> i = m)
      BY <1>1, <1>3
    <2>2. x = transformPastTransferEvents(blocks[i]) /\ y = transformPastTransactionEvents(blocks[i])
      BY <1>1
    <2> HIDE DEF c, x, y
    <2>3. x \in Seq(EthTransferOf(B, 0..2)) /\ y \in Seq(EthTransferOf(B, 0..2))
      BY <2>1, <2>2, AnswerTransfersAre
    <2> HIDE DEF B, E
    <2>4. x \in Seq(E) /\ y \in Seq(E)
      BY <1>6, <2>1, <2>3
    <2>5. (\A k \in 1..Len(x) : x[k].blockNumber \in B) /\ \A k \in 1..Len(y) : y[k].blockNumber \in B
      BY <2>3, TransfersOfBlock
    <2>6. /\ \A k \in 1..Len(x) : x[k].blockNumber = b <=> i = m
          /\ \A k \in 1..Len(y) : y[k].blockNumber = b <=> i = m
      BY ONLY <2>1, <2>5, SMTT(30) DEF B
    <2> HIDE DEF moved, paid
    <2> QED
      BY <2>4, <2>6 DEF x, y
  <1>10. moved[m] \in Seq(Eb) /\ paid[m] \in Seq(Eb)
    BY <1>4, <1>5, <1>8, AnswerTransfersAre
  <1>11. /\ genesis \in Seq(E) /\ first \in Seq(Eb)
         /\ IsPartOf(first, genesis, b)
    <2> DEFINE g == getGenesisTransfers
    <2>1. g \in Seq(EthTransferOf({0}, 0..2))
      <3>1. {0} \subseteq {0} /\ {0} \subseteq 0..2
        OBVIOUS
      <3> QED
        BY <3>1, IrregularTransfers, TransfersOfMore
    <2>2. Len(g) \in Nat /\ \A k \in 1..Len(g) : g[k].blockNumber \in {0}
      BY <2>1, TransfersOfBlock
    <2>3. f = 0 => {0} \in SUBSET (f..t)
      OBVIOUS
    <2>4. <<>> \in Seq(E) /\ <<>> \in Seq(Eb) /\ Len(<<>>) = 0
      OBVIOUS
    <2>5. genesis \in Seq(E)
      BY <1>6, <2>1, <2>3, <2>4
    <2>6. first \in Seq(Eb)
      BY <2>1, <2>4
    <2>7. CASE b = 0
      <3>1. first = g /\ genesis = g
        BY <2>7
      <3>2. \A k \in 1..Len(g) : g[k].blockNumber = b
        BY <2>2, <2>7
      <3> HIDE DEF g
      <3>3. IsPartOf(g, g, b)
        BY <2>2, <3>2, PartWhole
      <3> QED
        BY <2>5, <2>6, <3>1, <3>3
    <2>8. CASE b # 0
      <3>1. first = <<>>
        BY <2>8
      <3>2. Len(genesis) \in Nat /\ \A k \in 1..Len(genesis) : genesis[k].blockNumber # b
        <4>1. CASE f = 0
          BY <2>2, <2>8, <4>1
        <4>2. CASE f # 0
          BY <2>4, <4>2
        <4> QED
          BY <4>1, <4>2
      <3> HIDE DEF genesis
      <3>3. IsPartOf(<<>>, genesis, b)
        BY <3>2, PartNone
      <3> QED
        BY <2>5, <2>6, <3>1, <3>3
    <2> QED
      BY <2>7, <2>8
  <1> DEFINE M == FlattenSeq(moved)
             Q == FlattenSeq(paid)
             mm == moved[m]
             pm == paid[m]
  <1>12. /\ M \in Seq(E) /\ Q \in Seq(E)
         /\ IsPartOf(mm, M, b) /\ IsPartOf(pm, Q, b)
    <2> HIDE DEF moved, paid, n, E, m
    <2>1. moved \in [1..n -> Seq(E)] /\ paid \in [1..n -> Seq(E)]
      BY <1>8, <1>9
    <2>2. /\ moved \in Seq(Seq(E)) /\ Len(moved) = n
          /\ paid \in Seq(Seq(E)) /\ Len(paid) = n
      BY <1>1, <2>1
    <2>3. M \in Seq(E) /\ Q \in Seq(E)
      BY <2>2, FlattenMembers
    <2>4. IsPartOf(mm, M, b)
      BY <1>4, <1>9, <2>2, FlattenPart
    <2>5. IsPartOf(pm, Q, b)
      BY <1>4, <1>9, <2>2, FlattenPart
    <2> QED
      BY <2>3, <2>4, <2>5
  <1>13. own = first \o mm \o pm
    BY <1>8 DEF TracedAndPaid
  <1>14. mm \in Seq(Eb) /\ pm \in Seq(Eb) /\ mm \in Seq(E) /\ pm \in Seq(E) /\ first \in Seq(E)
    BY <1>7, <1>10, <1>11
  <1>15. all = genesis \o M \o Q
    OBVIOUS
  <1> HIDE DEF n, m, E, Eb, genesis, first, moved, paid, all, own, M, Q, mm, pm
  <1>16. \A X : \A p, q, r \in Seq(X) : p \o q \in Seq(X) /\ p \o q \o r \in Seq(X)
    OBVIOUS
  <1>17. IsPartOf(own, all, b)
    <2>1. IsPartOf(first \o mm, genesis \o M, b)
      BY <1>11, <1>12, <1>14, PartAppend
    <2> DEFINE p == first \o mm
               s == genesis \o M
    <2>2. p \in Seq(E) /\ s \in Seq(E) /\ own = p \o pm /\ all = s \o Q
      BY <1>11, <1>12, <1>13, <1>14, <1>15, <1>16
    <2>3. IsPartOf(p, s, b)
      BY <2>1
    <2> HIDE DEF p, s
    <2>4. IsPartOf(p \o pm, s \o Q, b)
      BY <1>12, <1>14, <2>2, <2>3, PartAppend
    <2> QED
      BY <2>2, <2>4
  <1>18. all \in Seq(E) /\ own \in Seq(Eb) /\ own \in Seq(E)
    BY <1>7, <1>11, <1>12, <1>13, <1>14, <1>15, <1>16
  <1>19. CASE f <= DAO_HACK_FORK_BLOCK /\ DAO_HACK_FORK_BLOCK <= t
    <2>1. d \in Seq(EthTransferOf({DAO_HACK_FORK_BLOCK}, 0..2))
      <3> DEFINE X == {DAO_HACK_FORK_BLOCK}
      <3>1. X \subseteq X /\ {0} \subseteq 0..2
        OBVIOUS
      <3> QED
        BY <3>1, IrregularTransfers, TransfersOfMore
    <2>2. {DAO_HACK_FORK_BLOCK} \in SUBSET (f..t)
      BY <1>19, ForksInOrder
    <2>3. d \in Seq(E)
      BY <1>6, <2>1, <2>2 DEF E
    <2> DEFINE u == injectDAOHackTransfers(all)
               w == IF b = DAO_HACK_FORK_BLOCK THEN d \o own ELSE own
    <2>4. IsPartOf(w, u, b)
      BY <1>17, <1>18, <2>3, InjectPart
    <2>5. w = OwnTransfers(A, b)
      BY DEF OwnTransfers, own
    <2>6. u = transformPastEvents(f, t, blocks)
      BY <1>2, <1>19
    <2>7. w \in Seq(Eb)
      <3>1. CASE b = DAO_HACK_FORK_BLOCK
        <4>1. d \in Seq(Eb)
          BY <2>1, <3>1 DEF Eb
        <4> QED
          BY <1>16, <1>18, <3>1, <4>1
      <3>2. CASE b # DAO_HACK_FORK_BLOCK
        BY <1>18, <3>2
      <3> QED
        BY <3>1, <3>2
    <2> QED
      BY <2>4, <2>5, <2>6, <2>7 DEF Eb
  <1>20. CASE ~(f <= DAO_HACK_FORK_BLOCK /\ DAO_HACK_FORK_BLOCK <= t)
    <2>1. b # DAO_HACK_FORK_BLOCK
      BY <1>20, ForksInOrder
    <2>2. own = OwnTransfers(A, b)
      BY <2>1 DEF OwnTransfers, own
    <2>3. all = transformPastEvents(f, t, blocks)
      BY <1>2, <1>20
    <2> QED
      BY <1>17, <1>18, <2>2, <2>3 DEF Eb
  <1> QED
    BY <1>19, <1>20

(* s has transfers at the positions of the transactions of A, and for each of *)
(* these one.                                                                *)
AreOwn(s, A, b) ==
  /\ s \in Seq(EthTransferOf({b}, PositionsIn(A)))
  /\ \A i \in 1..Len(A.transactions) :
       \E k \in 1..Len(s) : s[k].transactionPosition = A.transactions[i].position
  /\ /\ A.transactions = <<>> /\ A.rewards = <<>> /\ A.withdrawals = <<>>
     /\ b # 0 /\ b # DAO_HACK_FORK_BLOCK
     => s = <<>>

(* So do the transfers of an answer. *)
LEMMA OwnTransfersHave ==
  ASSUME NEW b \in Nat, NEW A, IsAnswer(A, b), NEW s, s = OwnTransfers(A, b)
  PROVE  AreOwn(s, A, b)
  <1> DEFINE Q == PositionsIn(A)
             E == EthTransferOf({b}, Q)
             g == IF b = 0 THEN getGenesisTransfers ELSE <<>>
             m == transformPastTransferEvents(A)
             p == transformPastTransactionEvents(A)
             d == IF b = DAO_HACK_FORK_BLOCK THEN daoHackTransfers ELSE <<>>
             txs == A.transactions
             Of(i, x) == x.transactionPosition = txs[i].position
  <1>1. m \in Seq(E) /\ (txs = <<>> /\ A.rewards = <<>> => m = <<>>)
    BY BlockTraceTransfers
  <1>2. /\ p \in Seq(E)
        /\ \A i \in 1..Len(txs) : \E k \in 1..Len(p) : Of(i, p[k])
        /\ txs = <<>> /\ A.withdrawals = <<>> => p = <<>>
    BY BlockTransactionTransfers, ForksInOrder
  <1>3. <<>> \in Seq(E) /\ {0} \subseteq Q
    BY DEF PositionsIn
  <1>4. g \in Seq(E)
    <2>1. CASE b = 0
      <3> DEFINE B == {b}
      <3>1. getGenesisTransfers \in Seq(EthTransferOf(B, {0})) /\ B \subseteq B
        BY <2>1, IrregularTransfers
      <3> HIDE DEF B, Q
      <3>2. getGenesisTransfers \in Seq(EthTransferOf(B, Q))
        BY <1>3, <3>1, TransfersOfMore
      <3> QED
        BY <2>1, <3>2 DEF B
    <2>2. CASE b # 0
      BY <1>3, <2>2
    <2> QED
      BY <2>1, <2>2
  <1>5. d \in Seq(E)
    <2>1. CASE b = DAO_HACK_FORK_BLOCK
      <3> DEFINE B == {b}
      <3>1. daoHackTransfers \in Seq(EthTransferOf(B, {0})) /\ B \subseteq B
        BY <2>1, IrregularTransfers
      <3> HIDE DEF B, Q
      <3>2. daoHackTransfers \in Seq(EthTransferOf(B, Q))
        BY <1>3, <3>1, TransfersOfMore
      <3> QED
        BY <2>1, <3>2 DEF B
    <2>2. CASE b # DAO_HACK_FORK_BLOCK
      BY <1>3, <2>2
    <2> QED
      BY <2>1, <2>2
  <1>6. s = d \o (g \o m \o p)
    <2>1. \A x \in Seq(E) : <<>> \o x = x
      OBVIOUS
    <2>2. g \o m \o p \in Seq(E)
      BY <1>1, <1>2, <1>4
    <2>3. s = IF b = DAO_HACK_FORK_BLOCK THEN daoHackTransfers \o (g \o m \o p) ELSE g \o m \o p
      BY DEF OwnTransfers, TracedAndPaid
    <2> HIDE DEF g, m, p, E
    <2> QED
      BY <2>1, <2>2, <2>3
  <1>7. b # 0 /\ b # DAO_HACK_FORK_BLOCK => g = <<>> /\ d = <<>>
    OBVIOUS
  <1> DEFINE gm == g \o m
             gmp == gm \o p
  <1>8. s = d \o gmp
    BY <1>6
  <1> HIDE DEF g, m, p, d, E, txs, Of
  <1>9. gm \in Seq(E)
    BY <1>1, <1>4
  <1>10. gmp \in Seq(E) /\ \A k \in 1..Len(p) : gmp[Len(gm) + k] = p[k] /\ Len(gm) + k \in 1..Len(gmp)
    <2> HIDE DEF gm
    <2>1. Appended(gmp, gm, p, E)
      BY <1>2, <1>9, NextPart
    <2>2. Len(gm) \in Nat /\ Len(p) \in Nat
      BY <1>2, <1>9
    <2>3. \A k \in 1..Len(p) : Len(gm) + k \in 1..(Len(gm) + Len(p))
      BY ONLY <2>2
    <2> QED
      BY <2>1, <2>3 DEF Appended
  <1>11. s \in Seq(E) /\ \A k \in 1..Len(gmp) : s[Len(d) + k] = gmp[k] /\ Len(d) + k \in 1..Len(s)
    <2> HIDE DEF gmp
    <2>1. Appended(s, d, gmp, E)
      BY <1>5, <1>8, <1>10, NextPart
    <2>2. Len(d) \in Nat /\ Len(gmp) \in Nat
      BY <1>5, <1>10
    <2>3. \A k \in 1..Len(gmp) : Len(d) + k \in 1..(Len(d) + Len(gmp))
      BY ONLY <2>2
    <2> QED
      BY <2>1, <2>3 DEF Appended
  <1>12. ASSUME NEW i \in 1..Len(txs) PROVE \E k \in 1..Len(s) : Of(i, s[k])
    <2>1. PICK k \in 1..Len(p) : Of(i, p[k])
      BY <1>2
    <2>2. gmp[Len(gm) + k] = p[k] /\ Len(gm) + k \in 1..Len(gmp)
      BY <1>10
    <2> DEFINE j == Len(gm) + k
    <2>3. j \in 1..Len(gmp) /\ gmp[j] = p[k]
      BY <2>2
    <2> HIDE DEF j
    <2>4. s[Len(d) + j] = gmp[j] /\ Len(d) + j \in 1..Len(s)
      BY <1>11, <2>3
    <2> QED
      BY <2>1, <2>3, <2>4
  <1>13. ASSUME txs = <<>>, A.rewards = <<>>, A.withdrawals = <<>>, b # 0, b # DAO_HACK_FORK_BLOCK
         PROVE  s = <<>>
    <2>1. g = <<>> /\ m = <<>> /\ p = <<>> /\ d = <<>>
      BY <1>1, <1>2, <1>7, <1>13
    <2>2. <<>> \o <<>> = <<>>
      OBVIOUS
    <2> QED
      BY <1>8, <2>1, <2>2
  <1> QED
    BY <1>11, <1>12, <1>13 DEF AreOwn, E, txs, Of

(* A loss of WorkEthLossy *)
IsLoss(b) ==
  /\ b # 0
  /\ \/ Len(TrueBlock(b).transactions) = 3
     \/ /\ TrueBlock(b).transactions # <<>>
        /\ TrueBlock(b).rewards = <<>> /\ TrueBlock(b).withdrawals = <<>>

(* What is left of the block: a gap in the positions, or nothing. *)
LEMMA LossLeaves ==
  ASSUME chain \in [Block -> 1..4], NEW b \in 0..MaxBlock, IsLoss(b),
         NEW A, A = AnsweredBlock(b, b)
  PROVE  /\ TrueBlock(b).transactions # <<>>
         /\ \/ /\ \E i \in 1..Len(A.transactions) : A.transactions[i].position = 2
               /\ 1 \notin PositionsIn(A)
            \/ /\ A.transactions = <<>> /\ A.rewards = <<>> /\ A.withdrawals = <<>>
               /\ b # DAO_HACK_FORK_BLOCK
  <1> DEFINE T == TrueBlock(b)
             txs == T.transactions
             places == {i \in DOMAIN txs : Len(txs) = 3 /\ txs[i].position # 1}
             left == ElementsAt(txs, places)
  <1>1. A = [T EXCEPT !.transactions = left]
    BY DEF AnsweredBlock
  <1>2. /\ IsAnswer(T, b)
        /\ DOMAIN T = {"number", "miner", "baseFeePerGas", "transactions", "rewards", "withdrawals"}
        /\ T.rewards = IF b = 0 \/ (b >= THE_MERGE /\ Content(b) = 2) THEN <<>> ELSE <<Reward>>
    BY TrueBlockIsAnswer
  <1>3. Len(txs) \in 0..3 /\ \A i \in 1..Len(txs) : txs[i].position = i - 1
    BY TrueBlockFacts
  <1>4. txs \in Seq(PlacedTxs) /\ DOMAIN txs = 1..Len(txs)
    BY <1>2 DEF IsAnswer
  <1>5. left = ElementsAt(txs, places)
    OBVIOUS
  <1>6. b # 0 /\ (Len(txs) = 3 \/ (txs # <<>> /\ T.rewards = <<>> /\ T.withdrawals = <<>>))
    BY DEF IsLoss
  <1>7. \A i \in 1..Len(txs) : i \in places <=> Len(txs) = 3 /\ txs[i].position # 1
    BY <1>4
  <1> HIDE DEF left, places, T
  <1>8. A.transactions = left /\ A.rewards = T.rewards /\ A.withdrawals = T.withdrawals
    BY <1>1, <1>2
  <1> HIDE DEF txs
  <1>9. left \in Seq(PlacedTxs) /\ IsSelection(left, txs, places)
    BY <1>4, <1>5, ElementsAtPlaces
  <1>10. txs # <<>>
    <2>1. Len(txs) = 3 => txs # <<>>
      OBVIOUS
    <2> QED
      BY <1>6, <2>1
  <1>11. CASE Len(txs) = 3
    <2>1. 3 \in 1..Len(txs) /\ txs[3].position = 2
      BY <1>3, <1>11
    <2>2. 3 \in places
      BY <1>7, <1>11, <2>1
    <2>3. PICK k \in 1..Len(left) : left[k] = txs[3]
      BY <1>9, <2>1, <2>2 DEF IsSelection
    <2>4. \A i \in 1..Len(left) : left[i].position # 1
      <3> TAKE i \in 1..Len(left)
      <3>1. PICK j \in 1..Len(txs) : j \in places /\ left[i] = txs[j]
        BY <1>9 DEF IsSelection
      <3> QED
        BY <1>7, <3>1
    <2>5. 1 \notin PositionsIn(A)
      BY <1>8, <2>4 DEF PositionsIn
    <2> QED
      BY <1>8, <1>10, <2>1, <2>3, <2>5 DEF txs, T
  <1>12. CASE Len(txs) # 3
    <2>1. \A i \in 1..Len(txs) : i \notin places
      BY <1>7, <1>12
    <2>2. Len(left) = 0
      <3>1. Len(left) \in Nat
        BY <1>9
      <3>2. 1 \notin 1..Len(left)
        BY <1>9, <2>1 DEF IsSelection
      <3> QED
        BY <3>1, <3>2
    <2>3. left = <<>>
      BY <1>9, <2>2
    <2>4. T.rewards = <<>> /\ T.withdrawals = <<>>
      BY <1>6, <1>12
    <2>5. b >= THE_MERGE
      <3>1. <<Reward>> # <<>>
        OBVIOUS
      <3> QED
        BY <1>2, <1>6, <2>4, <3>1
    <2>6. b # DAO_HACK_FORK_BLOCK
      <3>1. b \in Nat
        OBVIOUS
      <3> QED
        BY <2>5, <3>1, ForksInOrder
    <2> QED
      BY <1>8, <1>10, <2>3, <2>4, <2>6 DEF txs, T
  <1> QED
    BY <1>11, <1>12

(* The check of the transfers sees the loss. *)
LEMMA LossNoticed ==
  ASSUME chain \in [Block -> 1..4], NEW f \in Nat, NEW t \in Nat, f <= t, t <= MaxBlock,
         Interval.fromBlock = f, Interval.toBlock = t, NEW b \in f..t, IsLoss(b),
         NEW r, r = SortedTransfers(fetchData(b)), NEW verified, verified[b] = TrueBlock(b)
  PROVE  ~checkETHTransfersQuality(r, f, t, verified)
  <1> DEFINE blocks == fetchData(b)
             A == blocks[b - f + 1]
             E == EthTransferOf(f..t, 0..2)
             s == transformPastEvents(f, t, blocks)
             p == OwnTransfers(A, b)
  <1>1. BlocksAnswer(blocks, f, t)
    BY FetchedBlocksAnswer
  <1>2. A = AnsweredBlock(b, b)
    <2> DEFINE n == t - f + 1
               m == b - f + 1
    <2>1. m \in 1..n /\ f + m - 1 = b
      OBVIOUS
    <2>2. blocks = [i \in 1..n |-> AnsweredBlock(f + i - 1, b)]
      BY DEF fetchData
    <2> HIDE DEF n
    <2>3. blocks[m] = AnsweredBlock(f + m - 1, b)
      BY <2>1, <2>2
    <2> QED
      BY <2>1, <2>3
  <1>3. b \in 0..MaxBlock /\ b \in Nat
    BY EvmWorkersAssumption
  <1>4. IsAnswer(A, b)
    BY <1>2, <1>3, AnsweredBlockIsAnswer
  <1>5. /\ TrueBlock(b).transactions # <<>>
        /\ \/ /\ \E i \in 1..Len(A.transactions) : A.transactions[i].position = 2
              /\ 1 \notin PositionsIn(A)
           \/ /\ A.transactions = <<>> /\ A.rewards = <<>> /\ A.withdrawals = <<>>
              /\ b # DAO_HACK_FORK_BLOCK
    BY <1>2, <1>3, LossLeaves
  <1>6. /\ p \in Seq(EthTransferOf({b}, PositionsIn(A)))
        /\ \A i \in 1..Len(A.transactions) :
             \E k \in 1..Len(p) : p[k].transactionPosition = A.transactions[i].position
        /\ /\ A.transactions = <<>> /\ A.rewards = <<>> /\ A.withdrawals = <<>>
           /\ b # 0 /\ b # DAO_HACK_FORK_BLOCK
           => p = <<>>
    <2>1. p = OwnTransfers(A, b)
      OBVIOUS
    <2> HIDE DEF p, A
    <2>2. AreOwn(p, A, b)
      BY <1>3, <1>4, <2>1, OwnTransfersHave
    <2> QED
      BY <2>2 DEF AreOwn
  <1>7. IsPartOf(p, s, b)
    <2> DEFINE q == blocks
    <2>1. A = q[b - f + 1] /\ BlocksAnswer(q, f, t)
      BY <1>1
    <2> HIDE DEF blocks, A
    <2> QED
      BY <2>1, OwnTransfersPart DEF blocks
  <1>8. s \in Seq(E) /\ r = stableSort(s, transactionOrder)
    BY <1>1, PastEventsAre DEF SortedTransfers
  <1>9. \A e \in E : IsPlaced(e)
    BY DEF EthTransferOf, IsPlaced
  <1> HIDE DEF blocks, A, E, s, p
  <1>10. /\ Len(r) = Len(s) /\ Len(s) \in Nat /\ DOMAIN r = 1..Len(s)
         /\ \A i \in 1..Len(s) : \E k \in 1..Len(s) : r[i] = s[k]
         /\ \A k \in 1..Len(s) : \E i \in 1..Len(s) : r[i] = s[k]
    <2> DEFINE N == Len(s)
    <2>1. PICK at : Orders(at, r, s)
      BY <1>8, <1>9, SortingOrders
    <2>2. N \in Nat /\ N = Len(s)
      BY <1>8
    <2> HIDE DEF N
    <2>3. /\ at \in [1..N -> 1..N] /\ r = [i \in 1..N |-> s[at[i]]]
          /\ \A k \in 1..N : \E i \in 1..N : at[i] = k
      BY <2>1, <2>2 DEF Orders
    <2>4. DOMAIN r = 1..N /\ r = [i \in 1..N |-> r[i]]
      BY ONLY <2>3
    <2>5. Len(r) = N
      BY ONLY <2>2, <2>4
    <2>6. \A i \in 1..N : at[i] \in 1..N /\ r[i] = s[at[i]]
      BY ONLY <2>3
    <2> QED
      BY ONLY <2>2, <2>3, <2>4, <2>5, <2>6
  <1>11. PICK g : PartAt(g, p, s, b)
    BY <1>7 DEF IsPartOf
  <1>12. /\ \A k \in 1..Len(p) : g[k] \in 1..Len(s) /\ s[g[k]] = p[k] /\ p[k].blockNumber = b
         /\ \A i \in 1..Len(s) : s[i].blockNumber = b => \E k \in 1..Len(p) : g[k] = i
    BY <1>11 DEF PartAt
  <1>13. \A i \in DOMAIN r : r[i].blockNumber = b => \E k \in 1..Len(p) : r[i] = p[k]
    <2> TAKE i \in DOMAIN r
    <2> HAVE r[i].blockNumber = b
    <2>1. PICK k \in 1..Len(s) : r[i] = s[k]
      BY <1>10
    <2>2. PICK j \in 1..Len(p) : g[j] = k
      BY <1>12, <2>1
    <2> QED
      BY <1>12, <2>1, <2>2
  <1>14. \A k \in 1..Len(p) : \E i \in DOMAIN r : r[i] = p[k] /\ r[i].blockNumber = b
    <2> TAKE k \in 1..Len(p)
    <2>1. g[k] \in 1..Len(s) /\ s[g[k]] = p[k] /\ p[k].blockNumber = b
      BY <1>12
    <2>2. PICK i \in 1..Len(s) : r[i] = s[g[k]]
      BY <1>10, <2>1
    <2>3. i \in DOMAIN r
      BY <1>10, <2>2
    <2> QED
      BY <2>1, <2>2, <2>3
  <1>15. CASE \E i \in 1..Len(A.transactions) : A.transactions[i].position = 2 /\ 1 \notin PositionsIn(A)
    <2>1. PICK k \in 1..Len(p) : p[k].transactionPosition = 2
      BY <1>6, <1>15
    <2> DEFINE ofBlock == {j \in DOMAIN r : r[j].blockNumber = b}
               positions == {r[i].transactionPosition : i \in ofBlock}
    <2>2. 2 \in positions
      BY <1>14, <2>1
    <2>3. 1 \notin positions
      <3> SUFFICES ASSUME NEW i \in DOMAIN r, r[i].blockNumber = b, r[i].transactionPosition = 1
                   PROVE  FALSE
        OBVIOUS
      <3>1. PICK j \in 1..Len(p) : r[i] = p[j]
        BY <1>13
      <3> DEFINE X == EthTransferOf({b}, PositionsIn(A))
      <3>2. p[j] \in X
        BY <1>6
      <3>3. p[j].transactionPosition \in PositionsIn(A)
        BY <3>2 DEF EthTransferOf
      <3> QED
        BY <1>15, <3>1, <3>3
    <2> HIDE DEF positions
    <2>4. ~(2 \in {0, 1} \/ 2 - 1 \in positions)
      BY <2>3
    <2>5. ~(\A q \in positions : q \in {0, 1} \/ q - 1 \in positions)
      BY <2>2, <2>4
    <2>6. ~assertTransfersWithinBlock(r, b)
      BY <2>5 DEF assertTransfersWithinBlock, positions
    <2> QED
      BY <2>6 DEF checkETHTransfersQuality
  <1>16. CASE /\ A.transactions = <<>> /\ A.rewards = <<>> /\ A.withdrawals = <<>>
              /\ b # DAO_HACK_FORK_BLOCK
    <2>1. p = <<>>
      BY <1>6, <1>16 DEF IsLoss
    <2>2. 1..Len(p) = {}
      BY <2>1
    <2>3. ~\E i \in DOMAIN r : r[i].blockNumber = b
      BY <1>13, <2>2
    <2>4. ~assertBlocksMatch(r, f, t, verified)
      BY <1>5, <2>3 DEF assertBlocksMatch
    <2> QED
      BY <2>4 DEF checkETHTransfersQuality
  <1> QED
    BY <1>5, <1>15, <1>16

-----------------------------------------------------------------------------
(* What the ETH worker exports for a block                                 *)

BlockTransfers(b) == NumberedIn(OwnTransfers(TrueBlock(b), b)) \cup {EndOf(b)}

EthFields == {"from", "to", "value", "blockNumber", "transactionPosition", "internalTxPosition", "type"}

IsRecordOf(x, fields) == x = [field \in fields |-> x[field]]

(* A numbered transfer keeps its block and its transaction. *)
LEMMA NumberedFields ==
  ASSUME NEW B, NEW P, NEW s \in Seq(EthTransferOf(B, P)), NEW k \in 1..Len(s),
         NEW x, x = Numbered(s, k)
  PROVE  /\ IsRecordOf(x, EthFields) /\ x.blockNumber \in B /\ x.transactionPosition \in P
         /\ x.blockNumber = s[k].blockNumber /\ x.transactionPosition = s[k].transactionPosition
         /\ x.internalTxPosition = Cardinality(EarlierThan(s, k))
  <1> DEFINE E == EthTransferOf(B, P)
             y == s[k]
             c == Cardinality(EarlierThan(s, k))
  <1>1. y \in E
    OBVIOUS
  <1>2. x = [y EXCEPT !.internalTxPosition = c]
    BY DEF Numbered
  <1> HIDE DEF y, c
  <1>3. /\ IsRecordOf(x, EthFields) /\ x.blockNumber \in B /\ x.transactionPosition \in P
        /\ x.blockNumber = y.blockNumber /\ x.transactionPosition = y.transactionPosition
        /\ x.internalTxPosition = c
    BY <1>1, <1>2 DEF E, EthTransferOf, IsRecordOf, EthFields
  <1> QED
    BY <1>3 DEF y, c

(* What is exported for a block is of it. *)
LEMMA BlockTransferFields ==
  ASSUME chain \in [Block -> 1..4], NEW b \in 0..MaxBlock, NEW x \in BlockTransfers(b)
  PROVE  IsRecordOf(x, EthFields) /\ x.blockNumber = b
  <1> DEFINE p == OwnTransfers(TrueBlock(b), b)
  <1>1. p \in Seq(EthTransferOf({b}, PositionsIn(TrueBlock(b))))
    <2>1. IsAnswer(TrueBlock(b), b)
      BY TrueBlockIsAnswer
    <2>2. b \in Nat
      OBVIOUS
    <2>3. AreOwn(p, TrueBlock(b), b)
      BY <2>1, <2>2, OwnTransfersHave
    <2> QED
      BY <2>3 DEF AreOwn
  <1> HIDE DEF p
  <1>2. CASE x = EndOf(b)
    BY <1>2 DEF EndOf, Transfer, IsRecordOf, EthFields
  <1>3. CASE x \in NumberedIn(p)
    <2>1. PICK k \in 1..Len(p) : x = Numbered(p, k)
      BY <1>3 DEF NumberedIn
    <2> DEFINE B == {b}
               P == PositionsIn(TrueBlock(b))
    <2>2. p \in Seq(EthTransferOf(B, P))
      BY <1>1
    <2> HIDE DEF B, P
    <2>3. IsRecordOf(x, EthFields) /\ x.blockNumber \in B
      BY <2>1, <2>2, NumberedFields
    <2> QED
      BY <2>3 DEF B
  <1> QED
    BY <1>2, <1>3 DEF BlockTransfers, p

(* Without its key an event is what it was made of. *)
LEMMA KeyIsExtra ==
  ASSUME NEW x, IsRecordOf(x, EthFields), NEW v
  PROVE  WithoutKey(Extend(x, [primaryKey |-> v])) = x
  <1> DEFINE m == [primaryKey |-> v]
             y == Extend(x, m)
  <1>1. DOMAIN m = {"primaryKey"} /\ DOMAIN x = EthFields /\ "primaryKey" \notin EthFields
    BY DEF IsRecordOf, EthFields
  <1> HIDE DEF m
  <1>2. DOMAIN y = EthFields \cup {"primaryKey"} /\ \A field \in EthFields : y[field] = x[field]
    BY <1>1 DEF Extend
  <1> HIDE DEF y
  <1>3. DOMAIN y \ {"primaryKey"} = EthFields
    BY <1>1, <1>2
  <1>4. WithoutKey(y) = [field \in EthFields |-> y[field]]
    BY <1>3 DEF WithoutKey
  <1>5. WithoutKey(y) = [field \in EthFields |-> x[field]]
    BY <1>2, <1>4
  <1> QED
    BY <1>5 DEF IsRecordOf, y, m

(* Every block of the range was answered as it is. *)
Complete(blocks, f, t) == \A b \in f..t : blocks[b - f + 1] = TrueBlock(b)

(* The events of a are those of the blocks f to t. *)
IsBatchOf(a, f, t) ==
  /\ \A i \in 1..Len(a) : \E b \in f..t : a[i] \in BlockTransfers(b)
  /\ \A b \in f..t : \A x \in BlockTransfers(b) : \E i \in 1..Len(a) : a[i] = x
  /\ Len(a) \in Nat

(* A batch of complete answers has what is exported for its blocks. *)
LEMMA BatchHasBlocks ==
  ASSUME chain \in [Block -> 1..4], NEW f \in Nat, NEW t \in Nat, f <= t, t <= MaxBlock,
         NEW blocks, BlocksAnswer(blocks, f, t), Complete(blocks, f, t),
         NEW s, s = transformPastEvents(f, t, blocks),
         NEW r, r = stableSort(s, transactionOrder),
         NEW m, m = mergeSortedArrays(r, collectEndOfBlocks(f, t)),
         NEW a, a = assignInternalTransactionPosition(m)
  PROVE  IsBatchOf(a, f, t)
  <1> DEFINE C == f..t
             P == 0..2
  <1>1. s \in Seq(EthTransferOf(C, P))
    BY PastEventsAre
  <1>2. /\ \A i \in 1..Len(a) : a[i] \in NumberedIn(s) \cup {EndOf(b) : b \in C}
        /\ \A x \in NumberedIn(s) \cup {EndOf(b) : b \in C} : \E i \in 1..Len(a) : a[i] = x
        /\ Len(a) \in Nat
    <2>1. IsNumberedBatch(a, s, f, t)
      BY <1>1, BatchIsNumbered
    <2> QED
      BY <2>1 DEF IsNumberedBatch
  <1>3. ASSUME NEW b \in C
        PROVE  \A x : x \in NumberedIn(OwnTransfers(TrueBlock(b), b)) <=>
                        x \in NumberedIn(s) /\ x.blockNumber = b
    <2> DEFINE A == TrueBlock(b)
               p == OwnTransfers(A, b)
    <2>1. A = blocks[b - f + 1]
      BY DEF Complete
    <2> HIDE DEF A
    <2>2. IsPartOf(p, s, b) /\ p \in Seq(EthTransferOf({b}, P))
      BY <2>1, OwnTransfersPart
    <2>3. Len(p) \in Nat
      BY <2>2
    <2> HIDE DEF C, P, p
    <2>4. \A x : x \in NumberedIn(p) <=> x \in NumberedIn(s) /\ x.blockNumber = b
      BY <1>1, <2>2, <2>3, PartNumbered
    <2> QED
      BY <2>4 DEF p, A
  <1> HIDE DEF C, P
  <1>4. ASSUME NEW i \in 1..Len(a) PROVE \E b \in C : a[i] \in BlockTransfers(b)
    <2>1. CASE a[i] \in NumberedIn(s)
      <3>1. PICK k \in 1..Len(s) : a[i] = Numbered(s, k)
        BY <2>1 DEF NumberedIn
      <3> DEFINE x == a[i]
      <3> HIDE DEF x
      <3>2. x = Numbered(s, k)
        BY <3>1 DEF x
      <3>3. x.blockNumber \in C
        BY <1>1, <3>2, NumberedFields
      <3>4. x \in NumberedIn(OwnTransfers(TrueBlock(x.blockNumber), x.blockNumber))
        BY <1>3, <2>1, <3>3 DEF x
      <3> QED
        BY <3>3, <3>4 DEF BlockTransfers, x
    <2>2. CASE a[i] \in {EndOf(b) : b \in C}
      BY <2>2 DEF BlockTransfers
    <2> QED
      BY <1>2, <2>1, <2>2
  <1>5. ASSUME NEW b \in C, NEW x \in BlockTransfers(b) PROVE \E i \in 1..Len(a) : a[i] = x
    <2>1. x \in NumberedIn(s) \cup {EndOf(c) : c \in C}
      BY <1>3 DEF BlockTransfers
    <2> QED
      BY <1>2, <2>1
  <1> QED
    BY <1>2, <1>4, <1>5 DEF C, IsBatchOf

(* The events of E have all of X, apart from keys. *)
Sent(E, X) == \A x \in X : \E e \in E : WithoutKey(e) = x

(* Kafka has transfers of the blocks only, all those of the blocks up to the  *)
(* saved position, and once a batch is stored those of its blocks too.       *)
BlocksExported ==
  mode = "eth" =>
    /\ \A e \in topic : \E b \in 0..MaxBlock : WithoutKey(e) \in BlockTransfers(b)
    /\ \A b \in 0..saved.block : Sent(topic, BlockTransfers(b))
    /\ pc = "store" =>
         /\ \A e \in ToSet(events) : \E b \in 0..MaxBlock : WithoutKey(e) \in BlockTransfers(b)
         /\ \A b \in (saved.block + 1)..lastExportedBlock : Sent(ToSet(events), BlockTransfers(b))
    /\ pc = "save" => \A b \in 0..lastExportedBlock : Sent(topic, BlockTransfers(b))

(* A batch with something left out is thrown away. *)
LEMMA LossyWorkThrows ==
  ASSUME Types, Heights, WorkEthLossy
  PROVE  Throw
  <1> DEFINE f == Interval.fromBlock
             t == Interval.toBlock
             verified == [b \in f..t |-> TrueBlock(b)]
  <1>1. f \in Nat /\ t \in Nat /\ f <= t /\ t <= MaxBlock
    BY IntervalBounds, EvmWorkersAssumption DEF Types, WorkEthLossy
  <1>2. PICK b \in f..t : IsLoss(b) /\ WorkOnBlocks(SortedTransfers(fetchData(b)))
    <2>1. PICK b \in (f..t) \ {0} :
            /\ \/ Len(TrueBlock(b).transactions) = 3
               \/ /\ TrueBlock(b).transactions # <<>>
                  /\ TrueBlock(b).rewards = <<>> /\ TrueBlock(b).withdrawals = <<>>
            /\ WorkOnBlocks(SortedTransfers(fetchData(b)))
      BY DEF WorkEthLossy
    <2>2. b \in f..t /\ b # 0
      OBVIOUS
    <2>3. IsLoss(b)
      BY <2>1, <2>2 DEF IsLoss
    <2> QED
      BY <2>1, <2>2, <2>3
  <1> DEFINE r == SortedTransfers(fetchData(b))
  <1>3. verified[b] = TrueBlock(b)
    OBVIOUS
  <1>4. ~checkETHTransfersQuality(r, f, t, verified)
    <2>1. /\ Interval.fromBlock = f /\ Interval.toBlock = t /\ r = SortedTransfers(fetchData(b))
          /\ chain \in [Block -> 1..4]
      BY DEF Types
    <2> HIDE DEF f, t, r, verified
    <2> QED
      BY <1>1, <1>2, <1>3, <2>1, LossNoticed
  <1>5. WorkOnBlocks(r)
    BY <1>2
  <1> HIDE DEF r
  <1> QED
    BY <1>4, <1>5 DEF WorkOnBlocks

(* What a batch returns *)
LEMMA WorkSendsBlocks ==
  ASSUME Types, Heights, WorkEth
  PROVE  \/ Throw
         \/ /\ pc' = "store" /\ topic' = topic /\ saved' = saved /\ lastExportedBlock' \in Int
            /\ \A e \in ToSet(events') : \E b \in 0..MaxBlock : WithoutKey(e) \in BlockTransfers(b)
            /\ \A b \in (saved.block + 1)..lastExportedBlock' :
                 Sent(ToSet(events'), BlockTransfers(b))
  <1> DEFINE f == Interval.fromBlock
             t == Interval.toBlock
             blocks == fetchData(-1)
             s == transformPastEvents(f, t, blocks)
             r == SortedTransfers(blocks)
             m == mergeSortedArrays(r, collectEndOfBlocks(f, t))
             a == assignInternalTransactionPosition(m)
             ev == [i \in 1..Len(a) |-> Extend(a[i], [primaryKey |-> lastPrimaryKey + i])]
             verified == [b \in f..t |-> TrueBlock(b)]
  <1>1. /\ f = saved.block + 1 /\ f \in Nat /\ t \in Nat /\ f <= t /\ t <= MaxBlock
        /\ MaxBlock \in Nat
    BY IntervalBounds, EvmWorkersAssumption DEF Types, WorkEth
  <1>2. BlocksAnswer(blocks, f, t) /\ chain \in [Block -> 1..4]
    BY <1>1, FetchedBlocksAnswer DEF Types
  <1>3. Complete(blocks, f, t)
    <2> SUFFICES ASSUME NEW b \in f..t PROVE blocks[b - f + 1] = TrueBlock(b)
      BY DEF Complete
    <2> DEFINE n == t - f + 1
               i == b - f + 1
    <2>1. i \in 1..n /\ f + i - 1 = b /\ b # -1
      BY <1>1
    <2>2. blocks = [k \in 1..n |-> AnsweredBlock(f + k - 1, -1)]
      BY DEF fetchData
    <2> HIDE DEF f, t, blocks
    <2>3. blocks[i] = AnsweredBlock(b, -1)
      <3> HIDE DEF i, n
      <3> QED
        BY <2>1, <2>2
    <2>4. AnsweredBlock(b, -1) = TrueBlock(b)
      BY <2>1 DEF AnsweredBlock
    <2> QED
      BY <2>3, <2>4
  <1>4. /\ s = transformPastEvents(f, t, blocks) /\ r = stableSort(s, transactionOrder)
        /\ m = mergeSortedArrays(r, collectEndOfBlocks(f, t))
        /\ a = assignInternalTransactionPosition(m)
        /\ ev = [i \in 1..Len(a) |-> Extend(a[i], [primaryKey |-> lastPrimaryKey + i])]
    BY DEF SortedTransfers
  <1>5. \/ Throw
        \/ \E key : Return(ev, key)
    BY DEF WorkEth, WorkOnBlocks
  <1> HIDE DEF f, t, blocks, s, r, m, a, ev
  <1>6. /\ \A i \in 1..Len(a) : \E b \in f..t : a[i] \in BlockTransfers(b)
        /\ \A b \in f..t : \A x \in BlockTransfers(b) : \E i \in 1..Len(a) : a[i] = x
        /\ Len(a) \in Nat
    <2>1. IsBatchOf(a, f, t)
      BY <1>1, <1>2, <1>3, <1>4, BatchHasBlocks
    <2> QED
      BY <2>1 DEF IsBatchOf
  <1>7. \A i \in 1..Len(a) : WithoutKey(ev[i]) = a[i]
    <2> TAKE i \in 1..Len(a)
    <2>1. PICK b \in f..t : a[i] \in BlockTransfers(b)
      BY <1>6
    <2>2. b \in 0..MaxBlock
      BY <1>1
    <2> DEFINE x == a[i]
               v == lastPrimaryKey + i
    <2>3. IsRecordOf(x, EthFields)
      BY <1>2, <2>1, <2>2, BlockTransferFields
    <2>4. ev[i] = Extend(x, [primaryKey |-> v])
      BY <1>4
    <2> HIDE DEF x, v
    <2>5. WithoutKey(Extend(x, [primaryKey |-> v])) = x
      BY <2>3, KeyIsExtra
    <2> QED
      BY <2>4, <2>5 DEF x
  <1>8. DOMAIN ev = 1..Len(a)
    BY <1>4
  <1>9. CASE \E key : Return(ev, key)
    <2>1. PICK key : Return(ev, key)
      BY <1>9
    <2>2. /\ events' = ev /\ lastExportedBlock' = t /\ topic' = topic /\ saved' = saved
          /\ pc' = IF ev = <<>> THEN "save" ELSE "store"
      BY <2>1 DEF Return, t
    <2>3. ev # <<>>
      <3>1. f \in f..t
        BY <1>1
      <3>2. EndOf(f) \in BlockTransfers(f)
        BY DEF BlockTransfers
      <3>3. PICK i \in 1..Len(a) : a[i] = EndOf(f)
        BY <1>6, <3>1, <3>2
      <3>4. DOMAIN ev # {}
        BY <1>8, <3>3
      <3> QED
        BY <3>4
    <2>4. \A e \in ToSet(ev) : \E b \in 0..MaxBlock : WithoutKey(e) \in BlockTransfers(b)
      <3> TAKE e \in ToSet(ev)
      <3>1. PICK i \in 1..Len(a) : e = ev[i]
        BY <1>8 DEF ToSet
      <3>2. PICK b \in f..t : a[i] \in BlockTransfers(b)
        BY <1>6
      <3>3. b \in 0..MaxBlock
        BY <1>1
      <3> QED
        BY <1>7, <3>1, <3>2, <3>3
    <2>5. \A b \in f..t : Sent(ToSet(ev), BlockTransfers(b))
      <3> TAKE b \in f..t
      <3> SUFFICES ASSUME NEW x \in BlockTransfers(b)
                   PROVE  \E e \in ToSet(ev) : WithoutKey(e) = x
        BY DEF Sent
      <3>1. PICK i \in 1..Len(a) : a[i] = x
        BY <1>6
      <3>2. ev[i] \in ToSet(ev)
        BY <1>8 DEF ToSet
      <3> QED
        BY <1>7, <3>1, <3>2
    <2>6. f = saved.block + 1 /\ t \in Int
      BY <1>1
    <2> QED
      BY <2>2, <2>3, <2>4, <2>5, <2>6
  <1> QED
    BY <1>5, <1>9


(* Every step keeps to the blocks: what a batch sends is stored before its    *)
(* position is saved, and a batch with something left out is not sent.       *)
LEMMA BlocksExportedStep ==
  ASSUME Types, Heights, BlocksExported, [Next]_vars
  PROVE  BlocksExported'
  <1> DEFINE OfBlocks(E) == \A e \in E : \E b \in 0..MaxBlock : WithoutKey(e) \in BlockTransfers(b)
  <1>1. chain' = chain /\ mode' = mode
    BY StepKinds
  <1>2. \A b : BlockTransfers(b)' = BlockTransfers(b)
    BY <1>1 DEF BlockTransfers, OwnTransfers, TracedAndPaid, TrueBlock
  <1> SUFFICES ASSUME mode = "eth"
               PROVE  /\ OfBlocks(topic')
                      /\ \A b \in 0..(saved'.block) : Sent(topic', BlockTransfers(b))
                      /\ pc' = "store" =>
                           /\ OfBlocks(ToSet(events'))
                           /\ \A b \in (saved'.block + 1)..lastExportedBlock' :
                                Sent(ToSet(events'), BlockTransfers(b))
                      /\ pc' = "save" =>
                           \A b \in 0..lastExportedBlock' : Sent(topic', BlockTransfers(b))
    BY <1>1, <1>2 DEF BlocksExported, ToSet, Sent
  <1>3. /\ OfBlocks(topic)
        /\ \A b \in 0..saved.block : Sent(topic, BlockTransfers(b))
        /\ pc = "store" =>
             /\ OfBlocks(ToSet(events))
             /\ \A b \in (saved.block + 1)..lastExportedBlock :
                  Sent(ToSet(events), BlockTransfers(b))
        /\ pc = "save" => \A b \in 0..lastExportedBlock : Sent(topic, BlockTransfers(b))
    BY DEF BlocksExported
  <1>4. pc = "work" => lastExportedBlock = saved.block
    BY DEF Types, Heights
  <1>5. saved.block \in Int /\ lastExportedBlock \in Int
    BY DEF Types
  <1>6. CASE /\ pc' = pc /\ topic' = topic /\ saved' = saved
             /\ events' = events /\ lastExportedBlock' = lastExportedBlock
    BY <1>3, <1>6
  <1>7. CASE topic' = topic /\ saved' = saved /\ pc' \in {"init", "work"}
    BY <1>3, <1>7
  <1>8. CASE Throw \/ WorkThrows \/ Crash
    BY <1>7, <1>8 DEF WorkThrows, Throw, Crash, Fresh, nodeVars
  <1>9. CASE InitWorker
    BY <1>7, <1>9 DEF InitWorker, nodeVars
  <1>10. CASE WorkIdle
    <2>1. /\ topic' = topic /\ saved' = saved /\ pc' = "save" /\ pc = "work"
          /\ lastExportedBlock' = lastExportedBlock
      BY <1>10 DEF WorkIdle, nodeVars
    <2>2. lastExportedBlock = saved.block
      BY <1>4, <2>1, <1>5
    <2> QED
      BY <1>3, <2>1, <2>2
  <1>11. CASE WorkEth
    <2>1. CASE Throw
      BY <1>8, <2>1
    <2>2. CASE /\ pc' = "store" /\ topic' = topic /\ saved' = saved /\ lastExportedBlock' \in Int
               /\ OfBlocks(ToSet(events'))
               /\ \A b \in (saved.block + 1)..lastExportedBlock' :
                    Sent(ToSet(events'), BlockTransfers(b))
      BY <1>3, <2>2
    <2> QED
      BY <1>11, <2>1, <2>2, WorkSendsBlocks
  <1>12. CASE WorkEthLossy
    BY <1>8, <1>12, LossyWorkThrows
  <1>13. CASE Store
    <2>1. /\ pc = "store" /\ pc' = "save" /\ topic' = topic \cup ToSet(events) /\ saved' = saved
          /\ lastExportedBlock' = lastExportedBlock
      BY <1>13 DEF Store, nodeVars, workerVars
    <2>2. OfBlocks(topic')
      BY <1>3, <2>1
    <2>3. \A X : Sent(topic, X) \/ Sent(ToSet(events), X) => Sent(topic', X)
      BY <2>1 DEF Sent
    <2>4. \A b \in 0..lastExportedBlock :
            b \in 0..saved.block \/ b \in (saved.block + 1)..lastExportedBlock
      BY <1>5
    <2>5. \A b \in 0..lastExportedBlock : Sent(topic', BlockTransfers(b))
      BY <1>3, <2>1, <2>3, <2>4
    <2>6. \A b \in 0..saved.block : Sent(topic', BlockTransfers(b))
      BY <1>3, <2>3
    <2> QED
      BY <2>1, <2>2, <2>5, <2>6
  <1>14. CASE Save
    <2>1. /\ pc = "save" /\ pc' = "work" /\ topic' = topic /\ saved'.block = lastExportedBlock
      BY <1>14 DEF Save, nodeVars, workerVars
    <2> QED
      BY <1>3, <2>1
  <1>15. CASE GrowChain
    BY <1>6, <1>15 DEF GrowChain, workerVars
  <1>16. CASE UNCHANGED vars
    BY <1>6, <1>16 DEF vars, nodeVars, workerVars
  <1>17. ~WorkTokens /\ ~WorkRecords
    BY DEF WorkTokens, WorkRecords, TokenModes, RecordModes
  <1> QED
    BY <1>8, <1>9, <1>10, <1>11, <1>12, <1>13, <1>14, <1>15, <1>16, <1>17 DEF Next, Step

(* BlocksExported is the inductive strengthening of PositionsIdentify. *)
LEMMA BlocksAreExported == Spec => [](Types /\ Heights /\ BlocksExported)
  <1>1. Init => BlocksExported
    BY DEF Init, BlocksExported
  <1>2. Types /\ Heights /\ BlocksExported /\ [Next]_vars => BlocksExported'
    BY BlocksExportedStep
  <1> QED
    BY <1>1, <1>2, TypesAndHeights, PTL DEF Spec

(* What is exported is, block by block, what the blocks have. *)
LEMMA ExportedByBlock ==
  ASSUME Types, Heights, BlocksExported, mode = "eth"
  PROVE  /\ saved.block \in Int /\ -1 <= saved.block /\ saved.block <= MaxBlock
         /\ \A x \in Exported : x.blockNumber \in 0..saved.block
         /\ \A b \in 0..saved.block : {e \in Exported : e.blockNumber = b} = BlockTransfers(b)
  <1>1. /\ chain \in [Block -> 1..4] /\ saved.block \in Int /\ -1 <= saved.block /\ saved.block <= MaxBlock
        /\ MaxBlock \in Nat
    BY EvmWorkersAssumption DEF Types, Heights
  <1>2. \A c \in 0..MaxBlock : \A x \in BlockTransfers(c) : IsRecordOf(x, EthFields) /\ x.blockNumber = c
    BY <1>1, BlockTransferFields
  <1>3. \A e : IsRecordOf(WithoutKey(e), EthFields) => WithoutKey(e).blockNumber = e.blockNumber
    <2> TAKE e
    <2> HAVE IsRecordOf(WithoutKey(e), EthFields)
    <2> DEFINE D == DOMAIN e \ {"primaryKey"}
    <2>1. WithoutKey(e) = [field \in D |-> e[field]]
      BY DEF WithoutKey
    <2>2. DOMAIN WithoutKey(e) = EthFields
      BY DEF IsRecordOf
    <2>3. "blockNumber" \in D
      BY <2>1, <2>2 DEF EthFields
    <2> HIDE DEF D
    <2> QED
      BY <2>1, <2>3
  <1>4. ASSUME NEW x \in Exported PROVE x.blockNumber \in 0..saved.block /\ x \in BlockTransfers(x.blockNumber)
    <2>1. PICK e \in topic : e.blockNumber <= saved.block /\ x = WithoutKey(e)
      BY DEF Exported
    <2>2. PICK c \in 0..MaxBlock : WithoutKey(e) \in BlockTransfers(c)
      BY DEF BlocksExported
    <2>3. x.blockNumber = c /\ e.blockNumber = c
      BY <1>2, <1>3, <2>1, <2>2
    <2> QED
      BY <1>1, <2>1, <2>2, <2>3
  <1>5. ASSUME NEW b \in 0..saved.block, NEW x \in BlockTransfers(b)
        PROVE  x \in Exported /\ x.blockNumber = b
    <2>1. PICK e \in topic : WithoutKey(e) = x
      BY DEF BlocksExported, Sent
    <2>2. b \in 0..MaxBlock /\ b <= saved.block
      BY <1>1
    <2>3. x.blockNumber = b /\ e.blockNumber = b
      BY <1>2, <1>3, <2>1, <2>2
    <2> QED
      BY <2>1, <2>2, <2>3 DEF Exported
  <1>6. ASSUME NEW b \in 0..saved.block PROVE {e \in Exported : e.blockNumber = b} = BlockTransfers(b)
    BY <1>4, <1>5
  <1> QED
    BY <1>1, <1>4, <1>6

(* The places of the transfers of one transaction, and the numbers they get *)
PlacesOf(p, tp) == {k \in 1..Len(p) : p[k].transactionPosition = tp}

NumbersOf(p, tp) == [k \in PlacesOf(p, tp) |-> Cardinality(EarlierThan(p, k))]

(* The numbers go from 0, without a gap and without a repetition. *)
CountsUp(c, K) ==
  /\ IsFiniteSet(K)
  /\ \A k \in K : c[k] \in 0..(Cardinality(K) - 1)
  /\ \A i \in 0..(Cardinality(K) - 1) : \E k \in K : c[k] = i
  /\ \A j, k \in K : c[j] = c[k] => j = k

(* So do those of the transfers of a transaction. *)
LEMMA TransactionCounts ==
  ASSUME NEW b, NEW p \in Seq(EthTransferOf({b}, 0..2)), NEW tp
  PROVE  CountsUp(NumbersOf(p, tp), PlacesOf(p, tp))
  <1> DEFINE N == Len(p)
             K == PlacesOf(p, tp)
             R == EarlierIn(p)
             c == NumbersOf(p, tp)
  <1>1. N \in Nat /\ \A k \in 1..N : p[k].internalTxPosition \in 0..1 /\ p[k].blockNumber = b
    <2> DEFINE E == EthTransferOf({b}, 0..2)
    <2>1. \A e \in E : e.internalTxPosition \in 0..1 /\ e.blockNumber = b
      BY DEF EthTransferOf
    <2>2. p \in Seq(E)
      OBVIOUS
    <2> HIDE DEF E
    <2> QED
      BY <2>1, <2>2
  <1>2. K = {k \in 1..N : p[k].transactionPosition = tp}
    BY DEF PlacesOf
  <1>3. c = [k \in K |-> Cardinality(EarlierThan(p, k))]
    BY DEF NumbersOf
  <1> HIDE DEF K, c
  <1>4. IsFiniteSet(K)
    <2>1. IsFiniteSet(1..N)
      BY <1>1, FS_Interval
    <2> QED
      BY <1>2, <2>1, FS_Subset
  <1>5. IsStrictOn(R, K)
    <2>1. \A j, k \in K :
            <<j, k>> \in R <=>
              \/ p[j].internalTxPosition < p[k].internalTxPosition
              \/ p[j].internalTxPosition = p[k].internalTxPosition /\ j < k
      <3> TAKE j \in K, k \in K
      <3>1. j \in 1..Len(p) /\ k \in 1..Len(p) /\ SameTx(p[j], p[k])
        BY <1>1, <1>2 DEF SameTx
      <3> QED
        BY <3>1, EarlierMeans
    <2>2. \A k \in K : k \in Int /\ p[k].internalTxPosition \in Int
      BY <1>1, <1>2
    <2> HIDE DEF R
    <2> QED
      BY <2>1, <2>2 DEF IsStrictOn
  <1>6. \A k \in K : EarlierThan(p, k) = {j \in K : <<j, k>> \in R}
    <2> TAKE k \in K
    <2>1. \A j \in 1..N : <<j, k>> \in R => j \in K
      <3> TAKE j \in 1..N
      <3>1. <<j, k>> \in R => SameTx(p[j], p[k])
        BY <1>2, EarlierMeans
      <3> QED
        BY <1>2, <3>1 DEF SameTx
    <2> HIDE DEF R
    <2>2. EarlierThan(p, k) = {j \in 1..N : <<j, k>> \in R}
      BY DEF EarlierThan, R
    <2> QED
      BY <1>2, <2>1, <2>2
  <1> HIDE DEF R
  <1>7. c = [k \in K |-> Cardinality({j \in K : <<j, k>> \in R})]
    BY <1>3, <1>6
  <1> DEFINE n == Cardinality(K)
  <1>8. n = Cardinality(K)
    OBVIOUS
  <1> HIDE DEF n
  <1>9. /\ \A k \in K : c[k] \in 0..(n - 1)
        /\ \A i \in 0..(n - 1) : \E k \in K : c[k] = i
        /\ \A j, k \in K : c[j] = c[k] => j = k
    BY <1>4, <1>5, <1>7, <1>8, OrderCounts
  <1> QED
    BY <1>4, <1>8, <1>9 DEF CountsUp, K, c

(* A block's transfers of one transaction *)
TransactionMates(b, e) == {f \in BlockTransfers(b) : f.transactionPosition = e.transactionPosition}

(* The transfers of a transaction are numbered from 0, without a gap and      *)
(* without a repetition; the block's end is alone at its position.           *)
LEMMA BlockPositions ==
  ASSUME chain \in [Block -> 1..4], NEW b \in 0..MaxBlock, NEW e \in BlockTransfers(b)
  PROVE  {f.internalTxPosition : f \in TransactionMates(b, e)} = 0..(Cardinality(TransactionMates(b, e)) - 1)
  <1> DEFINE A == TrueBlock(b)
             p == OwnTransfers(A, b)
             N == Len(p)
             P == 0..2
             T == TransactionMates(b, e)
  <1>1. /\ p \in Seq(EthTransferOf({b}, P)) /\ N \in Nat
        /\ BlockTransfers(b) = {Numbered(p, k) : k \in 1..N} \cup {EndOf(b)}
    <2>1. b \in Nat
      BY EvmWorkersAssumption
    <2>2. IsAnswer(A, b)
      BY TrueBlockIsAnswer
    <2>3. p \in Seq(EthTransferOf({b}, P))
      <3> DEFINE Q == PositionsIn(A)
                 B == {b}
      <3>1. AreOwn(p, A, b)
        BY <2>1, <2>2, OwnTransfersHave
      <3>2. p \in Seq(EthTransferOf(B, Q))
        BY <3>1 DEF AreOwn
      <3>3. Q \subseteq P
        <4>1. \A k \in 1..Len(A.transactions) : A.transactions[k] \in PlacedTxs
          BY <2>2 DEF IsAnswer
        <4>2. \A k \in 1..Len(A.transactions) : A.transactions[k].position \in 0..2
          BY <4>1, PlacedTxFields
        <4> QED
          BY <4>2 DEF PositionsIn
      <3>4. B \subseteq B
        OBVIOUS
      <3> HIDE DEF B, Q, P, p
      <3>5. p \in Seq(EthTransferOf(B, P))
        BY ONLY <3>2, <3>3, <3>4, TransfersOfMore
      <3> QED
        BY <3>5 DEF B
    <2> QED
      BY <2>3 DEF BlockTransfers, NumberedIn
  <1>2. /\ \A k \in 1..N : /\ p[k].transactionPosition \in P /\ p[k].internalTxPosition \in 0..1
                           /\ p[k].blockNumber = b
    <2>1. \A k \in 1..N : p[k] \in EthTransferOf({b}, P)
      BY <1>1
    <2> QED
      BY <2>1 DEF EthTransferOf
  <1>3. \A k \in 1..N :
          /\ Numbered(p, k).transactionPosition = p[k].transactionPosition
          /\ Numbered(p, k).internalTxPosition = Cardinality(EarlierThan(p, k))
    <2> HIDE DEF p, P, N
    <2> TAKE k \in 1..N
    <2> DEFINE x == Numbered(p, k)
    <2>1. k \in 1..Len(p)
      BY DEF N
    <2> HIDE DEF x
    <2>2. x = Numbered(p, k)
      BY DEF x
    <2>3. /\ x.transactionPosition = p[k].transactionPosition
          /\ x.internalTxPosition = Cardinality(EarlierThan(p, k))
      BY ONLY <1>1, <2>1, <2>2, NumberedFields
    <2> QED
      BY <2>2, <2>3
  <1>4. EndOf(b).transactionPosition = maxTxPosition /\ EndOf(b).internalTxPosition = 0
    BY EndFields
  <1>5. maxTxPosition \notin P
    BY DEF maxTxPosition
  <1> HIDE DEF A, p
  <1>6. CASE e.transactionPosition = maxTxPosition
    <2>1. T = {EndOf(b)}
      BY <1>1, <1>2, <1>3, <1>4, <1>5, <1>6 DEF TransactionMates
    <2>2. Cardinality(T) = 1
      BY <2>1, FS_Singleton
    <2>3. {f.internalTxPosition : f \in T} = {0}
      BY <1>4, <2>1
    <2> QED
      BY <2>2, <2>3
  <1>7. CASE e.transactionPosition # maxTxPosition
    <2> DEFINE tp == e.transactionPosition
               K == PlacesOf(p, tp)
               c == NumbersOf(p, tp)
               g == [k \in K |-> Numbered(p, k)]
               n == Cardinality(K)
    <2>1. K = {k \in 1..N : p[k].transactionPosition = tp}
      BY DEF PlacesOf
    <2>2. T = {Numbered(p, k) : k \in K}
      <3> HIDE DEF K
      <3> QED
        BY <1>1, <1>3, <1>4, <1>7, <2>1 DEF TransactionMates
    <2>3. c = [k \in K |-> Cardinality(EarlierThan(p, k))]
      BY DEF NumbersOf
    <2>4. CountsUp(c, K)
      BY <1>1, TransactionCounts
    <2> HIDE DEF K, c
    <2>5. \A k \in K : g[k] = Numbered(p, k) /\ g[k].internalTxPosition = c[k]
      BY <1>3, <2>1, <2>3
    <2>6. g \in [K -> T] /\ \A z \in T : \E k \in K : g[k] = z
      BY <2>2
    <2> HIDE DEF g, T
    <2>7. /\ IsFiniteSet(K) /\ \A k \in K : c[k] \in 0..(n - 1)
          /\ \A i \in 0..(n - 1) : \E k \in K : c[k] = i
          /\ \A j, k \in K : c[j] = c[k] => j = k
      BY <2>4 DEF CountsUp
    <2>8. \A j, k \in K : g[j] = g[k] => j = k
      BY <2>5, <2>7
    <2>9. Cardinality(T) = n
      BY <2>6, <2>7, <2>8, CountsEqual
    <2> HIDE DEF n
    <2>10. {f.internalTxPosition : f \in T} = 0..(n - 1)
      <3>1. \A f \in T : f.internalTxPosition \in 0..(n - 1)
        <4> TAKE f \in T
        <4>1. PICK k \in K : g[k] = f
          BY <2>6
        <4> QED
          BY <2>5, <2>7, <4>1
      <3>2. \A i \in 0..(n - 1) : \E f \in T : f.internalTxPosition = i
        <4> TAKE i \in 0..(n - 1)
        <4>1. PICK k \in K : c[k] = i
          BY <2>7
        <4> QED
          BY <2>5, <2>6, <4>1
      <3> DEFINE I == 0..(n - 1)
      <3> HIDE DEF I
      <3>3. (\A f \in T : f.internalTxPosition \in I) /\ (\A i \in I : \E f \in T : f.internalTxPosition = i)
        BY <3>1, <3>2 DEF I
      <3>4. {f.internalTxPosition : f \in T} = I
        BY <3>3
      <3> QED
        BY <3>4 DEF I
    <2> QED
      BY <2>9, <2>10 DEF T
  <1> QED
    BY <1>6, <1>7

(* PositionsIdentify: however often and in whatever batches a block was       *)
(* exported, the transfers of one of its transactions are numbered from 0     *)
(* without a gap, and no two have one position: a repetition gives the same   *)
(* transfers the same positions, and a batch for which the node left          *)
(* transactions out of a block is never exported.                            *)
THEOREM TransferPositionsIdentify == Spec => []PositionsIdentify
  <1>1. Types /\ Heights /\ BlocksExported => PositionsIdentify
    <2> SUFFICES ASSUME Types, Heights, BlocksExported, mode = "eth",
                        NEW b \in 0..saved.block
                 PROVE  LET transfers == {e \in Exported : e.blockNumber = b}
                        IN \A e \in transfers :
                             LET together ==
                                   {f \in transfers : f.transactionPosition = e.transactionPosition}
                             IN {f.internalTxPosition : f \in together}
                                  = 0..(Cardinality(together) - 1)
      BY DEF PositionsIdentify
    <2> DEFINE transfers == {e \in Exported : e.blockNumber = b}
    <2>1. chain \in [Block -> 1..4] /\ saved.block \in Int /\ saved.block <= MaxBlock
          /\ transfers = BlockTransfers(b)
      BY ExportedByBlock DEF Types
    <2>2. b \in 0..MaxBlock
      BY <2>1, EvmWorkersAssumption
    <2> HIDE DEF transfers
    <2> SUFFICES ASSUME NEW e \in transfers
                 PROVE  {f.internalTxPosition :
                           f \in {g \in transfers : g.transactionPosition = e.transactionPosition}}
                          = 0..(Cardinality({g \in transfers :
                                   g.transactionPosition = e.transactionPosition}) - 1)
      BY DEF transfers
    <2>3. TransactionMates(b, e) = {g \in transfers : g.transactionPosition = e.transactionPosition}
      BY <2>1 DEF TransactionMates
    <2>4. {f.internalTxPosition : f \in TransactionMates(b, e)} = 0..(Cardinality(TransactionMates(b, e)) - 1)
      BY <2>1, <2>2, BlockPositions
    <2> QED
      BY <2>3, <2>4
  <1> QED
    BY <1>1, BlocksAreExported, PTL

-----------------------------------------------------------------------------
(* What the transfers of a block change on an account                      *)

(* What a transfer gives an account, less what it takes from it *)
Gain(e, account) ==
  (IF e.to = account THEN e.value ELSE 0) - (IF e.from = account THEN e.value ELSE 0)

Gains(b, account) == [e \in EthTransferOf({b}, 0..2) |-> Gain(e, account)]

(* The gains are numbers. *)
LEMMA GainsAreNumbers ==
  ASSUME NEW b, NEW account, NEW e \in EthTransferOf({b}, 0..2)
  PROVE  Gains(b, account)[e] = Gain(e, account) /\ Gains(b, account)[e] \in Int
  <1>1. e.value \in Int
    BY DEF EthTransferOf
  <1>2. Gains(b, account)[e] = Gain(e, account)
    BY DEF Gains
  <1>3. Gain(e, account) \in Int
    BY <1>1 DEF Gain
  <1> QED
    BY <1>2, <1>3

(* The gain from a transfer that is written down *)
LEMMA GainOfTransfer ==
  ASSUME NEW from, NEW to, NEW value, NEW b, NEW p, NEW type, NEW account
  PROVE  Gain(Transfer(from, to, value, b, p, type), account) =
           (IF to = account THEN value ELSE 0) - (IF from = account THEN value ELSE 0)
  BY DEF Gain, Transfer

(* The places of the traces that no error took back *)
KeptIn(traces) == {k \in DOMAIN traces : ~traces[k].error /\ ~HasFailedParent(traces, k)}

(* What a trace changes on an account *)
TraceGain(trace, b, account) ==
  IF IsEffective(trace, b) THEN Gain(decodeTransferTrace(trace, b, 0), account) ELSE 0

KeptGains(traces, b, account) ==
  [k \in 1..Len(traces) |-> IF k \in KeptIn(traces) THEN TraceGain(traces[k], b, account) ELSE 0]

(* What the traces of a transaction, or the rewards, change *)
LEMMA WeightOfTraces ==
  ASSUME NEW S, NEW traces \in Seq(S), \A x \in S : IsTrace(x), NEW b, NEW p \in 0..2, NEW account
  PROVE  /\ Summable(KeptGains(traces, b, account), 1..Len(traces))
         /\ Weight(Gains(b, account), TraceTransfers(traces, b, p)) =
              SumFunctionOnSet(KeptGains(traces, b, account), 1..Len(traces))
  <1> DEFINE kept == filterErrors(traces)
             moves == {k \in DOMAIN kept : IsEffective(kept[k], b)}
             s == parseEthInternalTrx(traces, b)
             r == TraceTransfers(traces, b, p)
             E == EthTransferOf({b}, 0..2)
             w == Gains(b, account)
             v == [x \in S |-> Gain(decodeTransferTrace(x, b, 0), account)]
             u == [x \in S |-> TraceGain(x, b, account)]
             places == KeptIn(traces)
  <1>1. kept = ElementsAt(traces, places) /\ s = ElementsAt(kept, moves)
    BY DEF filterErrors, parseEthInternalTrx, KeptIn
  <1>2. kept \in Seq(S)
    <2> HIDE DEF kept, s, moves, places
    <2> QED
      BY <1>1, ElementsAtPlaces
  <1>3. s \in Seq(S)
    <2> HIDE DEF kept, s, moves, places
    <2> QED
      BY <1>1, <1>2, ElementsAtPlaces
  <1>4. r = [i \in 1..Len(s) |-> decodeTransferTrace(s[i], b, p)]
    BY DEF TraceTransfers
  <1>5. r \in Seq(E)
    <2> DEFINE P == 0..2
    <2>1. 0 \in P /\ p \in P
      OBVIOUS
    <2> HIDE DEF P, r
    <2>2. TraceTransfers(traces, b, p) \in Seq(EthTransferOf({b}, P))
      BY <2>1, TraceTransfersAre
    <2> QED
      BY <2>2 DEF P, r
  <1>6. \A x \in S : Gain(decodeTransferTrace(x, b, p), account) = v[x] /\ v[x] \in Int /\ u[x] \in Int
    <2> TAKE x \in S
    <2>1. x.value \in Int
      BY DEF IsTrace
    <2>2. \A q : Gain(decodeTransferTrace(x, b, q), account) =
                   (IF x.to = account THEN x.value ELSE 0)
                     - (IF (IF x.type = "reward" THEN "mining_block" ELSE x.from) = account
                        THEN x.value ELSE 0)
      BY GainOfTransfer DEF decodeTransferTrace
    <2>3. v[x] = Gain(decodeTransferTrace(x, b, 0), account) /\ u[x] = TraceGain(x, b, account)
      OBVIOUS
    <2> HIDE DEF u, v
    <2> QED
      BY <2>1, <2>2, <2>3 DEF TraceGain
  <1> HIDE DEF kept, s, r, v, E
  <1>7. Weight(w, r) = Weight(v, s)
    <2>1. Len(s) \in Nat /\ \A i \in 1..Len(s) : s[i] \in S
      BY <1>3
    <2>2. Len(r) = Len(s)
      BY <1>4, <2>1
    <2>3. \A i \in 1..Len(r) : w[r[i]] = v[s[i]]
      <3> TAKE i \in 1..Len(r)
      <3>1. r[i] \in E
        BY <1>5
      <3>2. w[r[i]] = Gain(r[i], account)
        BY <3>1, GainsAreNumbers DEF E
      <3>3. r[i] = decodeTransferTrace(s[i], b, p) /\ s[i] \in S
        BY <1>4, <2>1, <2>2
      <3> QED
        BY <1>6, <3>2, <3>3
    <2> HIDE DEF w
    <2> QED
      BY <2>2, <2>3, WeightSame
  <1>8. Weight(v, s) = SumFunctionOnSet(WeightsAt(v, kept, moves), 1..Len(kept))
    <2> HIDE DEF moves
    <2> QED
      BY <1>1, <1>2, <1>6, WeightOfPlaces
  <1>9. WeightsAt(v, kept, moves) = Weights(u, kept)
    <2>1. \A i \in 1..Len(kept) : kept[i] \in S /\ (i \in moves <=> IsEffective(kept[i], b))
      BY <1>2
    <2>2. \A i \in 1..Len(kept) : (IF i \in moves THEN v[kept[i]] ELSE 0) = u[kept[i]]
      BY <2>1 DEF v, TraceGain
    <2> HIDE DEF moves, u
    <2> QED
      BY <2>2 DEF WeightsAt, Weights
  <1>10. /\ Summable(WeightsAt(u, traces, places), 1..Len(traces))
         /\ Weight(u, kept) = SumFunctionOnSet(WeightsAt(u, traces, places), 1..Len(traces))
    <2> HIDE DEF u, places
    <2> QED
      BY <1>1, <1>6, WeightOfPlaces
  <1>11. WeightsAt(u, traces, places) = KeptGains(traces, b, account)
    <2>1. \A k \in 1..Len(traces) : u[traces[k]] = TraceGain(traces[k], b, account)
      OBVIOUS
    <2> HIDE DEF u
    <2> QED
      BY <2>1 DEF WeightsAt, KeptGains
  <1> HIDE DEF u, w, moves, places
  <1>12. Weight(w, r) = SumFunctionOnSet(KeptGains(traces, b, account), 1..Len(traces))
    BY <1>7, <1>8, <1>9, <1>10, <1>11 DEF Weight
  <1> QED
    BY <1>10, <1>11, <1>12 DEF w, r

(* Where no trace failed, none is taken back. *)
LEMMA NothingTakenBack ==
  ASSUME NEW traces, NEW n \in Nat, DOMAIN traces = 1..n, \A k \in 1..n : ~traces[k].error
  PROVE  \A k \in 1..n : ~HasFailedParent(traces, k)
  <1>1. ASSUME NEW S, S \subseteq 1..n, S # {} PROVE ~traces[Max(S)].error
    <2> DEFINE max == Max(S)
    <2>1. PICK x : x \in S
      BY <1>1
    <2>2. S \subseteq Int /\ n \in Int /\ \A y \in S : y <= n
      BY <1>1
    <2>3. max = Max(S)
      OBVIOUS
    <2> HIDE DEF max
    <2>4. max \in S
      BY ONLY <2>1, <2>2, <2>3, MaxExists
    <2> QED
      BY <1>1, <2>3, <2>4
  <1>2. \A root, path : AtNode(traces, root, path) \subseteq 1..n
    BY DEF AtNode
  <1>3. \A root, path : AtNode(traces, root, path) # {} => ~traces[Max(AtNode(traces, root, path))].error
    BY <1>1, <1>2
  <1> QED
    BY <1>3, Zenon DEF HasFailedParent

(* The only trace at an address *)
IsOnlyAt(traces, n, k, path) == \A j \in 1..n : traces[j].traceAddress = path <=> j = k

(* A trace below a failed one is taken back. *)
LEMMA TakenBack ==
  ASSUME NEW traces, NEW n \in Nat, DOMAIN traces = 1..n, n >= 1, IsOnlyAt(traces, n, 1, <<>>),
         NEW k \in 1..n, NEW path, traces[k].traceAddress = path, IsOnlyAt(traces, n, k, path),
         NEW m \in 0..(Len(path) - 1), NEW a \in 1..n, IsOnlyAt(traces, n, a, SubSeq(path, 1, m)),
         traces[a].error
  PROVE  HasFailedParent(traces, k)
  <1>1. \A j \in 1..n : RootOf(traces, j) = 1
    BY FirstIsRoot DEF IsOnlyAt
  <1>2. \A q, j : j \in 1..n /\ IsOnlyAt(traces, n, j, q) => AtNode(traces, 1, q) = {j}
    <2> TAKE q, j
    <2> HAVE j \in 1..n /\ IsOnlyAt(traces, n, j, q)
    <2>1. AtNode(traces, 1, q) = {i \in 1..n : traces[i].traceAddress = q}
      BY <1>1 DEF AtNode
    <2> QED
      BY <2>1 DEF IsOnlyAt
  <1>3. \A j \in 1..n : Max({j}) = j
    BY DEF Max
  <1> DEFINE above == AtNode(traces, 1, SubSeq(path, 1, m))
             own == AtNode(traces, 1, path)
  <1>4. above = {a} /\ own = {k}
    BY <1>2
  <1>5. k = Max(own) /\ above # {} /\ traces[Max(above)].error
    BY <1>3, <1>4
  <1>6. RootOf(traces, k) = 1
    BY <1>1
  <1> QED
    BY <1>5, <1>6, Zenon DEF HasFailedParent

(* What stays of the traces of each transaction *)
LEMMA KeptOfTx ==
  /\ KeptIn(Plain.traces) = {1} /\ KeptIn(Creating.traces) = {1, 2, 3}
  /\ KeptIn(PartlyReverted.traces) \in {{1}, {1, 5}} /\ KeptIn(Failed.traces) = {}
  <1>1. KeptIn(Plain.traces) = {1}
    <2> DEFINE traces == Plain.traces
               n == 1
    <2>1. traces = <<Trace(<<>>, "call", "a", "b", 4, FALSE)>>
      BY DEF Plain, EthTx
    <2> HIDE DEF traces
    <2>2. n \in Nat /\ DOMAIN traces = 1..n /\ \A k \in 1..n : ~traces[k].error
      BY <2>1 DEF Trace
    <2> HIDE DEF n
    <2>3. \A k \in 1..n : ~HasFailedParent(traces, k)
      BY <2>2, NothingTakenBack
    <2>4. KeptIn(traces) = 1..n
      BY <2>2, <2>3 DEF KeptIn
    <2> QED
      BY <2>4 DEF n, traces
  <1>2. KeptIn(Creating.traces) = {1, 2, 3}
    <2> DEFINE traces == Creating.traces
               n == 3
    <2>1. traces = <<Trace(<<>>, "create", "b", "c", 3, FALSE), Trace(<<0>>, "create", "c", "d", 0, FALSE),
          Trace(<<1>>, "suicide", "c", "a", 3, FALSE)>>
      BY DEF Creating, EthTx
    <2> HIDE DEF traces
    <2>2. n \in Nat /\ DOMAIN traces = 1..n /\ \A k \in 1..n : ~traces[k].error
      BY <2>1 DEF Trace
    <2> HIDE DEF n
    <2>3. \A k \in 1..n : ~HasFailedParent(traces, k)
      BY <2>2, NothingTakenBack
    <2>4. KeptIn(traces) = 1..n
      BY <2>2, <2>3 DEF KeptIn
    <2> QED
      BY <2>4 DEF n, traces
  <1>3. KeptIn(PartlyReverted.traces) \in {{1}, {1, 5}}
    <2> DEFINE traces == PartlyReverted.traces
               n == 5
    <2>1. traces = <<Trace(<<>>, "call", "a", "c", 5, FALSE), Trace(<<0>>, "call", "c", "b", 2, TRUE),
          Trace(<<0, 0>>, "call", "b", "a", 1, FALSE), Trace(<<0, 0, 0>>, "create", "a", "b", 1, FALSE),
          Trace(<<1>>, "delegatecall", "a", "c", 5, FALSE)>>
      BY DEF PartlyReverted, EthTx
    <2> HIDE DEF traces
    <2>2. /\ DOMAIN traces = 1..n
          /\ ~traces[1].error /\ traces[2].error /\ ~traces[4].error /\ traces[4].type = "create"
          /\ traces[1].traceAddress = <<>> /\ traces[2].traceAddress = <<0>>
          /\ traces[3].traceAddress = <<0, 0>> /\ traces[4].traceAddress = <<0, 0, 0>>
          /\ traces[5].traceAddress = <<1>>
      BY <2>1 DEF Trace
    <2>3. HasFailedParent(traces, 4)
      <3>1. 4 \notin CreatedIn(traces) /\ 4 \in DOMAIN traces
        BY <2>2, RevertedCreation DEF traces
      <3> QED
        BY <2>2, <3>1 DEF CreatedIn
    <2>4. HasFailedParent(traces, 3)
      <3> DEFINE path == <<0, 0>>
      <3>1. /\ IsOnlyAt(traces, n, 1, <<>>) /\ IsOnlyAt(traces, n, 3, path)
            /\ IsOnlyAt(traces, n, 2, <<0>>)
        <4> DEFINE p1 == <<>>
                   p2 == <<0>>
                   p4 == <<0, 0, 0>>
                   p5 == <<1>>
        <4>1. /\ p1 # p2 /\ p1 # path /\ p1 # p4 /\ p1 # p5
              /\ p2 # path /\ p2 # p4 /\ p2 # p5 /\ path # p4 /\ path # p5
          <5>1. Len(p1) = 0 /\ Len(p2) = 1 /\ Len(path) = 2 /\ Len(p4) = 3 /\ Len(p5) = 1
                /\ p2[1] = 0 /\ p5[1] = 1
            OBVIOUS
          <5>2. 0 # 1 /\ 0 # 2 /\ 0 # 3 /\ 1 # 2 /\ 1 # 3 /\ 2 # 3
            OBVIOUS
          <5> HIDE DEF p1, p2, p4, p5, path
          <5> QED
            BY ONLY <5>1, <5>2, Zenon
        <4>2. /\ traces[1].traceAddress = p1 /\ traces[2].traceAddress = p2
              /\ traces[3].traceAddress = path /\ traces[4].traceAddress = p4
              /\ traces[5].traceAddress = p5
          BY <2>2
        <4>3. \A j \in 1..n : j = 1 \/ j = 2 \/ j = 3 \/ j = 4 \/ j = 5
          OBVIOUS
        <4> HIDE DEF p1, p2, p4, p5, path, n
        <4>4. IsOnlyAt(traces, n, 1, p1) /\ IsOnlyAt(traces, n, 2, p2) /\ IsOnlyAt(traces, n, 3, path)
          BY ONLY <4>1, <4>2, <4>3 DEF IsOnlyAt
        <4> QED
          BY <4>4 DEF p1, p2
      <3>2. SubSeq(path, 1, 1) = <<0>> /\ 1 \in 0..(Len(path) - 1)
        <4> DEFINE u == SubSeq(path, 1, 1)
        <4>1. path \in Seq(Int) /\ Len(path) = 2 /\ path[1] = 0 /\ path[1] \in Int
          OBVIOUS
        <4>2. u \in Seq(Int) /\ Len(u) = 1 /\ u[1] = 0
          <5> HIDE DEF path
          <5>1. \A i \in 1..1 : path[i] \in Int
            BY <4>1
          <5> QED
            BY <4>1, <5>1, SubSeqProperties, Z3
        <4>3. <<0>> \in Seq(Int) /\ Len(<<0>>) = 1 /\ <<0>>[1] = 0
          OBVIOUS
        <4> HIDE DEF u
        <4>4. \A i \in 1..Len(u) : u[i] = <<0>>[i]
          BY <4>2, <4>3
        <4>5. u = <<0>>
          BY ONLY <4>2, <4>3, <4>4, SeqEqual
        <4> QED
          BY <4>1, <4>5 DEF u
      <3>3. /\ n \in Nat /\ n >= 1 /\ 3 \in 1..n /\ 2 \in 1..n
            /\ DOMAIN traces = 1..n /\ traces[3].traceAddress = path /\ traces[2].error
        BY <2>2
      <3> HIDE DEF path, n
      <3>4. IsOnlyAt(traces, n, 2, SubSeq(path, 1, 1))
        BY ONLY <3>1, <3>2
      <3> QED
        BY ONLY <3>1, <3>2, <3>3, <3>4, TakenBack
    <2>5. ~HasFailedParent(traces, 1)
      <3>1. 0..(Len(traces[1].traceAddress) - 1) = {}
        BY <2>2
      <3> QED
        BY <3>1 DEF HasFailedParent
    <2>6. \A k \in 1..n : k \in KeptIn(traces) <=> ~traces[k].error /\ ~HasFailedParent(traces, k)
      BY <2>2 DEF KeptIn
    <2>7. 1 \in KeptIn(traces) /\ \A k \in {2, 3, 4} : k \notin KeptIn(traces)
      BY <2>2, <2>3, <2>4, <2>5, <2>6
    <2>8. KeptIn(traces) \subseteq {1, 2, 3, 4, 5}
      BY <2>2 DEF KeptIn
    <2> QED
      BY <2>7, <2>8 DEF traces
  <1>4. KeptIn(Failed.traces) = {}
    <2> DEFINE traces == Failed.traces
               n == 2
    <2>1. traces = <<Trace(<<>>, "call", "a", "b", 9, TRUE), Trace(<<0>>, "call", "b", "c", 1, FALSE)>>
      BY DEF Failed, EthTx
    <2> HIDE DEF traces
    <2>2. /\ DOMAIN traces = 1..n /\ traces[1].error
          /\ traces[1].traceAddress = <<>> /\ traces[2].traceAddress = <<0>>
      BY <2>1 DEF Trace
    <2>3. HasFailedParent(traces, 2)
      <3> DEFINE path == <<0>>
      <3>1. IsOnlyAt(traces, n, 1, <<>>) /\ IsOnlyAt(traces, n, 2, path)
        BY <2>2 DEF IsOnlyAt
      <3>2. SubSeq(path, 1, 0) = <<>> /\ 0 \in 0..(Len(path) - 1)
        OBVIOUS
      <3>3. /\ n \in Nat /\ n >= 1 /\ 2 \in 1..n /\ 1 \in 1..n
            /\ DOMAIN traces = 1..n /\ traces[2].traceAddress = path /\ traces[1].error
        BY <2>2
      <3> HIDE DEF path, n
      <3>4. IsOnlyAt(traces, n, 1, SubSeq(path, 1, 0))
        BY ONLY <3>1, <3>2
      <3> QED
        BY ONLY <3>1, <3>2, <3>3, <3>4, TakenBack
    <2> QED
      BY <2>2, <2>3 DEF KeptIn, traces
  <1> QED
    BY <1>1, <1>2, <1>3, <1>4

(* The accounts whose balances are compared *)
Holders == {"a", "b", "c", "m"}

(* What each kind of trace changes *)
LEMMA TraceGains ==
  ASSUME NEW path, NEW from, NEW to, NEW value \in Int, NEW error, NEW b, NEW account \in Holders
  PROVE  /\ \A type \in {"call", "create", "suicide"} :
              TraceGain(Trace(path, type, from, to, value, error), b, account) =
                (IF to = account THEN value ELSE 0) - (IF from = account THEN value ELSE 0)
         /\ TraceGain(Trace(path, "delegatecall", from, to, value, error), b, account) = 0
         /\ TraceGain(Trace(path, "reward", from, to, value, error), b, account) =
              IF b < THE_MERGE /\ to = account THEN value ELSE 0
  <1>1. ASSUME NEW type \in {"call", "create", "suicide"}
        PROVE  TraceGain(Trace(path, type, from, to, value, error), b, account) =
                 (IF to = account THEN value ELSE 0) - (IF from = account THEN value ELSE 0)
    <2> DEFINE x == Trace(path, type, from, to, value, error)
    <2>1. /\ x.type = type /\ x.type # "reward" /\ (x.type = "call" => x.callType = "call")
          /\ x.value = value /\ x.from = from /\ x.to = to
      BY DEF Trace
    <2> HIDE DEF x
    <2>2. IsEffective(x, b) <=> value # 0
      BY <2>1 DEF IsEffective
    <2>3. decodeTransferTrace(x, b, 0) = Transfer(from, to, value, b, 0, type)
      BY <2>1 DEF decodeTransferTrace
    <2>4. TraceGain(x, b, account) =
            IF value # 0 THEN (IF to = account THEN value ELSE 0) - (IF from = account THEN value ELSE 0)
            ELSE 0
      BY <2>2, <2>3, GainOfTransfer DEF TraceGain
    <2> QED
      BY <2>4 DEF x
  <1>2. TraceGain(Trace(path, "delegatecall", from, to, value, error), b, account) = 0
    BY DEF TraceGain, IsEffective, Trace
  <1>3. TraceGain(Trace(path, "reward", from, to, value, error), b, account) =
          IF b < THE_MERGE /\ to = account THEN value ELSE 0
    <2> DEFINE x == Trace(path, "reward", from, to, value, error)
    <2>1. x.type = "reward" /\ x.value = value /\ x.to = to
      BY DEF Trace
    <2> HIDE DEF x
    <2>2. IsEffective(x, b) <=> value # 0 /\ b < THE_MERGE
      BY <2>1 DEF IsEffective
    <2>3. decodeTransferTrace(x, b, 0) = Transfer("mining_block", to, value, b, 0, "reward")
      BY <2>1 DEF decodeTransferTrace
    <2>4. "mining_block" # account
      BY DEF Holders
    <2>5. TraceGain(x, b, account) =
            IF value # 0 /\ b < THE_MERGE THEN (IF to = account THEN value ELSE 0) - 0 ELSE 0
      BY <2>2, <2>3, <2>4, GainOfTransfer DEF TraceGain
    <2> QED
      BY <2>5 DEF x
  <1> QED
    BY <1>1, <1>2, <1>3

(* What the moves of a transaction change *)
MoveValues(tx) == [i \in DOMAIN tx.moves |-> tx.moves[i][3]]

MovesWith(tx, k, account) == {i \in DOMAIN tx.moves : tx.moves[i][k] = account}

MovedGain(tx, account) ==
  SumFunctionOnSet(MoveValues(tx), MovesWith(tx, 2, account))
    - SumFunctionOnSet(MoveValues(tx), MovesWith(tx, 1, account))

MoveGain(tx, account, i) ==
  (IF tx.moves[i][2] = account THEN tx.moves[i][3] ELSE 0)
    - (IF tx.moves[i][1] = account THEN tx.moves[i][3] ELSE 0)

MoveGains(tx, account) == [i \in DOMAIN tx.moves |-> MoveGain(tx, account, i)]

(* They add up. *)
LEMMA MovesAddUp ==
  ASSUME NEW tx, NEW n \in 0..5, DOMAIN tx.moves = 1..n, \A i \in 1..n : tx.moves[i][3] \in Int,
         NEW account, NEW g, g = MoveGains(tx, account)
  PROVE  MovedGain(tx, account) = TermsUpTo(g, n)
  <1> DEFINE f == MoveValues(tx)
             X == MovesWith(tx, 2, account)
             Y == MovesWith(tx, 1, account)
  <1>1. Summable(f, 1..n)
    <2>1. \A i \in 1..n : f[i] = tx.moves[i][3]
      BY DEF MoveValues
    <2>2. IsFiniteSet(1..n)
      BY FS_Interval
    <2> QED
      BY <2>1, <2>2 DEF Summable
  <1>2. IsDifference(g, f, 1..n, X, Y)
    <2>1. X \in SUBSET (1..n) /\ Y \in SUBSET (1..n)
      BY DEF MovesWith
    <2>2. \A i \in 1..n : g[i] = Term(f, X, i) - Term(f, Y, i)
      <3> TAKE i \in 1..n
      <3>1. f[i] = tx.moves[i][3] /\ g[i] = MoveGain(tx, account, i)
        BY DEF MoveValues, MoveGains
      <3>2. (i \in X <=> tx.moves[i][2] = account) /\ (i \in Y <=> tx.moves[i][1] = account)
        BY DEF MovesWith
      <3> HIDE DEF f, X, Y
      <3> QED
        BY <3>1, <3>2 DEF Term, MoveGain
    <2> QED
      BY <2>1, <2>2 DEF IsDifference
  <1> HIDE DEF f, X, Y
  <1>3. TermsUpTo(g, n) = SumFunctionOnSet(f, X) - SumFunctionOnSet(f, Y)
    BY ONLY <1>1, <1>2, n \in 0..5, SumsOfFew, ZenonT(60)
  <1> QED
    BY <1>3 DEF MovedGain, f, X, Y

(* Of the traces that stay, those of value report what moves. *)
LEMMA MovedByTraces ==
  ASSUME NEW tx \in EthTxs, NEW b, NEW account \in Holders,
         Summable(KeptGains(tx.traces, b, account), 1..Len(tx.traces))
  PROVE  SumFunctionOnSet(KeptGains(tx.traces, b, account), 1..Len(tx.traces)) = MovedGain(tx, account)
  <1> DEFINE h == KeptGains(tx.traces, b, account)
             n == Len(tx.traces)
             g == MoveGains(tx, account)
             Is(x, y) == IF y = account THEN x ELSE 0
             Gives(trace, x, to, from) == TraceGain(trace, b, account) = Is(x, to) - Is(x, from)
  <1>1. n \in 0..5 => SumFunctionOnSet(h, 1..n) = TermsUpTo(h, n)
    <2>1. Summable(h, 1..n)
      OBVIOUS
    <2> HIDE DEF h, n
    <2> QED
      BY <2>1, SumOfFew
  <1>2. \A k \in 1..n : h[k] = IF k \in KeptIn(tx.traces) THEN TraceGain(tx.traces[k], b, account) ELSE 0
    BY DEF KeptGains
  <1>3. \A k \in 0..5 : /\ DOMAIN tx.moves = 1..k /\ (\A i \in 1..k : tx.moves[i][3] \in Int)
                        => MovedGain(tx, account) = TermsUpTo(g, k)
    <2> HIDE DEF g
    <2> QED
      BY MovesAddUp DEF g
  <1>4. \A i \in DOMAIN tx.moves : g[i] = Is(tx.moves[i][3], tx.moves[i][2]) - Is(tx.moves[i][3], tx.moves[i][1])
    BY DEF MoveGains, MoveGain
  <1>5. ASSUME NEW path, NEW from, NEW to, NEW value \in Int, NEW error
        PROVE  Gives(Trace(path, "call", from, to, value, error), value, to, from)
    BY TraceGains
  <1>14. ASSUME NEW path, NEW from, NEW to, NEW value \in Int, NEW error
        PROVE  Gives(Trace(path, "create", from, to, value, error), value, to, from)
    BY TraceGains
  <1>15. ASSUME NEW path, NEW from, NEW to, NEW value \in Int, NEW error
        PROVE  Gives(Trace(path, "suicide", from, to, value, error), value, to, from)
    BY TraceGains
  <1>6. ASSUME NEW path, NEW from, NEW to, NEW value \in Int, NEW error
        PROVE  TraceGain(Trace(path, "delegatecall", from, to, value, error), b, account) = 0
    BY TraceGains
  <1>12. \A k \in 1..n : k \in KeptIn(tx.traces) => h[k] = TraceGain(tx.traces[k], b, account)
    BY <1>2
  <1>13. \A k \in 1..n : k \notin KeptIn(tx.traces) => h[k] = 0
    BY <1>2
  <1>7. \A x \in Int : \A y : Is(x, y) \in Int
    OBVIOUS
  <1> HIDE DEF h, g, Is, Gives
  <1>8. CASE tx = Plain
    <2>1. tx.traces = <<Trace(<<>>, "call", "a", "b", 4, FALSE)>> /\ tx.moves = <<<<"a", "b", 4>>>>
      BY <1>8 DEF Plain, EthTx
    <2>2. n = 1 /\ tx.traces[1] = Trace(<<>>, "call", "a", "b", 4, FALSE)
      BY <2>1
    <2>3. h[1] = Is(4, "b") - Is(4, "a")
      <3>1. 1 \in KeptIn(tx.traces) /\ 1 \in 1..n
        BY <1>8, <2>2, KeptOfTx
      <3>2. TraceGain(tx.traces[1], b, account) = Is(4, "b") - Is(4, "a")
        <4>1. Gives(tx.traces[1], 4, "b", "a")
          BY <1>5, <2>2, 4 \in Int, Zenon
        <4> QED
          BY <4>1 DEF Gives
      <3> QED
        BY <1>12, <3>1, <3>2, Zenon
    <2>4. DOMAIN tx.moves = 1..1 /\ tx.moves[1][3] = 4 /\ tx.moves[1][2] = "b" /\ tx.moves[1][1] = "a"
      BY <2>1
    <2>5. g[1] = Is(4, "b") - Is(4, "a")
      BY <1>4, <2>4
    <2>6. MovedGain(tx, account) = TermsUpTo(g, 1)
      BY <1>3, <2>4
    <2> HIDE DEF n
    <2> QED
      BY <1>1, <1>7, <2>2, <2>3, <2>5, <2>6 DEF TermsUpTo, TermAt, h, n
  <1>9. CASE tx = Creating
    <2>1. /\ tx.traces = <<Trace(<<>>, "create", "b", "c", 3, FALSE),
                           Trace(<<0>>, "create", "c", "d", 0, FALSE),
                           Trace(<<1>>, "suicide", "c", "a", 3, FALSE)>>
          /\ tx.moves = <<<<"b", "c", 3>>, <<"c", "a", 3>>>>
      BY <1>9 DEF Creating, EthTx
    <2>2. /\ n = 3 /\ tx.traces[1] = Trace(<<>>, "create", "b", "c", 3, FALSE)
          /\ tx.traces[2] = Trace(<<0>>, "create", "c", "d", 0, FALSE)
          /\ tx.traces[3] = Trace(<<1>>, "suicide", "c", "a", 3, FALSE)
      BY <2>1
    <2>3. /\ h[1] = Is(3, "c") - Is(3, "b") /\ h[2] = Is(0, "d") - Is(0, "c")
          /\ h[3] = Is(3, "a") - Is(3, "c")
      <3>1. \A k \in 1..3 : k \in KeptIn(tx.traces) /\ k \in 1..n
        BY <1>9, <2>2, KeptOfTx
      <3>2. TraceGain(tx.traces[1], b, account) = Is(3, "c") - Is(3, "b")
        <4>1. Gives(tx.traces[1], 3, "c", "b")
          BY <1>14, <2>2, 3 \in Int, Zenon
        <4> QED
          BY <4>1 DEF Gives
      <3>3. TraceGain(tx.traces[2], b, account) = Is(0, "d") - Is(0, "c")
        <4>1. Gives(tx.traces[2], 0, "d", "c")
          BY <1>14, <2>2, 0 \in Int, Zenon
        <4> QED
          BY <4>1 DEF Gives
      <3>4. TraceGain(tx.traces[3], b, account) = Is(3, "a") - Is(3, "c")
        <4>1. Gives(tx.traces[3], 3, "a", "c")
          BY <1>15, <2>2, 3 \in Int, Zenon
        <4> QED
          BY <4>1 DEF Gives
      <3> QED
        BY <1>12, <3>1, <3>2, <3>3, <3>4, 1 \in 1..3, 2 \in 1..3, 3 \in 1..3, Zenon
    <2>4. /\ DOMAIN tx.moves = 1..2 /\ tx.moves[1][3] = 3 /\ tx.moves[1][2] = "c" /\ tx.moves[1][1] = "b"
          /\ tx.moves[2][3] = 3 /\ tx.moves[2][2] = "a" /\ tx.moves[2][1] = "c"
      BY <2>1
    <2>5. g[1] = Is(3, "c") - Is(3, "b") /\ g[2] = Is(3, "a") - Is(3, "c")
      BY <1>4, <2>4
    <2>6. MovedGain(tx, account) = TermsUpTo(g, 2)
      BY <1>3, <2>4
    <2>7. Is(0, "d") = 0 /\ Is(0, "c") = 0
      BY DEF Is
    <2> HIDE DEF n
    <2> QED
      BY <1>1, <1>7, <2>2, <2>3, <2>5, <2>6, <2>7 DEF TermsUpTo, TermAt, h, n
  <1>10. CASE tx = PartlyReverted
    <2>1. /\ tx.traces = <<Trace(<<>>, "call", "a", "c", 5, FALSE), Trace(<<0>>, "call", "c", "b", 2, TRUE),
                           Trace(<<0, 0>>, "call", "b", "a", 1, FALSE),
                           Trace(<<0, 0, 0>>, "create", "a", "b", 1, FALSE),
                           Trace(<<1>>, "delegatecall", "a", "c", 5, FALSE)>>
          /\ tx.moves = <<<<"a", "c", 5>>>>
      BY <1>10 DEF PartlyReverted, EthTx
    <2>2. /\ n = 5 /\ tx.traces[1] = Trace(<<>>, "call", "a", "c", 5, FALSE)
          /\ tx.traces[5] = Trace(<<1>>, "delegatecall", "a", "c", 5, FALSE)
      BY <2>1
    <2>3. h[1] = Is(5, "c") - Is(5, "a") /\ h[2] = 0 /\ h[3] = 0 /\ h[4] = 0 /\ h[5] = 0
      <3>1. 1 \in KeptIn(tx.traces) /\ \A k \in {2, 3, 4} : k \notin KeptIn(tx.traces)
        BY <1>10, KeptOfTx
      <3>2. TraceGain(tx.traces[1], b, account) = Is(5, "c") - Is(5, "a")
        <4>1. Gives(tx.traces[1], 5, "c", "a")
          BY <1>5, <2>2, 5 \in Int, Zenon
        <4> QED
          BY <4>1 DEF Gives
      <3>3. TraceGain(tx.traces[5], b, account) = 0
        BY <1>6, <2>2, 5 \in Int, Zenon
      <3>4. \A k \in 1..5 : k \in 1..n
        BY <2>2
      <3>5. h[1] = Is(5, "c") - Is(5, "a")
        BY <1>12, <3>1, <3>2, <3>4, 1 \in 1..5, Zenon
      <3>6. h[2] = 0 /\ h[3] = 0 /\ h[4] = 0
        BY <1>13, <3>1, <3>4, 2 \in 1..5, 3 \in 1..5, 4 \in 1..5, Zenon
      <3>7. h[5] = 0
        BY <1>12, <1>13, <3>3, <3>4, 5 \in 1..5, Zenon
      <3> QED
        BY <3>5, <3>6, <3>7
    <2>4. DOMAIN tx.moves = 1..1 /\ tx.moves[1][3] = 5 /\ tx.moves[1][2] = "c" /\ tx.moves[1][1] = "a"
      BY <2>1
    <2>5. g[1] = Is(5, "c") - Is(5, "a")
      BY <1>4, <2>4
    <2>6. MovedGain(tx, account) = TermsUpTo(g, 1)
      BY <1>3, <2>4
    <2> HIDE DEF n
    <2> QED
      BY <1>1, <1>7, <2>2, <2>3, <2>5, <2>6 DEF TermsUpTo, TermAt, h, n
  <1>11. CASE tx = Failed
    <2>1. /\ tx.traces = <<Trace(<<>>, "call", "a", "b", 9, TRUE), Trace(<<0>>, "call", "b", "c", 1, FALSE)>>
          /\ tx.moves = <<>>
      BY <1>11 DEF Failed, EthTx
    <2>2. n = 2
      BY <2>1
    <2>3. h[1] = 0 /\ h[2] = 0
      BY <1>2, <1>11, <2>2, KeptOfTx
    <2>4. DOMAIN tx.moves = 1..0
      BY <2>1
    <2>5. MovedGain(tx, account) = TermsUpTo(g, 0)
      BY <1>3, <2>4
    <2> HIDE DEF n
    <2> QED
      BY <1>1, <2>2, <2>3, <2>5 DEF TermsUpTo, TermAt, h, n
  <1> QED
    BY <1>8, <1>9, <1>10, <1>11 DEF EthTxs

(* What the gas of a transaction changes *)
PerGas(tx, b, account) ==
  (IF account = "m" THEN (IF b >= LONDON_FORK_BLOCK THEN tx.gasPrice - 2 ELSE tx.gasPrice) ELSE 0)
    - (IF account = tx.from THEN tx.gasPrice ELSE 0)

PaidGain(tx, b, account) == PerGas(tx, b, account) * tx.gasUsed

FeesOf(x, A, b) ==
  IF b >= LONDON_FORK_BLOCK THEN getPostLondonForkFees(x, A) ELSE getPreLondonForkFees(x, A)

(* What a transaction pays *)
LEMMA TxPays ==
  ASSUME NEW tx \in EthTxs
  PROVE  tx.gasUsed = 2 /\ tx.from \in {"a", "b"} /\ tx.gasPrice \in 2..4
  <1>1. Plain.gasUsed = 2 /\ Plain.from = "a" /\ Plain.gasPrice = 3
    BY DEF Plain, EthTx
  <1>2. Failed.gasUsed = 2 /\ Failed.from = "a" /\ Failed.gasPrice = 3
    BY DEF Failed, EthTx
  <1>3. Creating.gasUsed = 2 /\ Creating.from = "b" /\ Creating.gasPrice = 2
    BY DEF Creating, EthTx
  <1>4. PartlyReverted.gasUsed = 2 /\ PartlyReverted.from = "a" /\ PartlyReverted.gasPrice = 4
    BY DEF PartlyReverted, EthTx
  <1> QED
    BY <1>1, <1>2, <1>3, <1>4 DEF EthTxs

(* The fees of a transaction say what its gas changes. *)
LEMMA WeightOfFees ==
  ASSUME NEW b \in Nat, NEW A, IsAnswer(A, b), NEW tx \in EthTxs, NEW p \in 0..2, NEW x, x = Extend(tx, [position |-> p]), NEW account \in Holders
  PROVE  /\ FeesOf(x, A, b) \in Seq(EthTransferOf({b}, 0..2))
         /\ Weight(Gains(b, account), FeesOf(x, A, b)) = PaidGain(tx, b, account)
  <1> DEFINE E == EthTransferOf({b}, 0..2)
             w == Gains(b, account)
             g == tx.gasPrice
             pays == IF account = tx.from THEN 1 ELSE 0
             gets == IF account = "m" THEN 1 ELSE 0
             whole == Transfer(tx.from, "m", g * 2, b, p, "fee")
             burnt == Transfer(tx.from, "burn", 2 * 2, b, p, "fee_burnt")
             tip == Transfer(tx.from, "m", (g - 2) * 2, b, p, "fee")
             fees == FeesOf(x, A, b)
  <1>1. tx.gasUsed = 2 /\ tx.from \in Accounts /\ tx.from # "m" /\ g \in 2..4
    BY TxPays DEF Accounts
  <1>2. x.position = p /\ x.gasUsed = 2 /\ x.from = tx.from /\ x.gasPrice = g
    BY <1>1, PlacedTx
  <1>3. /\ "m" \in Accounts /\ "burn" \in Accounts /\ "fee" \in TransferTypes
        /\ "fee_burnt" \in TransferTypes /\ account # "burn"
    BY DEF Accounts, TransferTypes, Holders
  <1>4. whole \in E /\ burnt \in E /\ tip \in E
    <2>1. g * 2 \in Int /\ 2 * 2 \in Int /\ (g - 2) * 2 \in Int /\ b \in {b}
      BY <1>1
    <2> QED
      BY <1>1, <1>3, <2>1, TransferIsOf
  <1>5. /\ w[whole] = gets * (g * 2) - pays * (g * 2)
        /\ w[burnt] = 0 - pays * 4
        /\ w[tip] = gets * ((g - 2) * 2) - pays * ((g - 2) * 2)
    <2>1. w[whole] = Gain(whole, account) /\ w[burnt] = Gain(burnt, account) /\ w[tip] = Gain(tip, account)
      BY <1>4, GainsAreNumbers
    <2>2. Gain(whole, account) = (IF "m" = account THEN g * 2 ELSE 0) - (IF tx.from = account THEN g * 2 ELSE 0)
      BY GainOfTransfer
    <2>3. Gain(burnt, account) = (IF "burn" = account THEN 2 * 2 ELSE 0) - (IF tx.from = account THEN 2 * 2 ELSE 0)
      BY GainOfTransfer
    <2>4. Gain(tip, account) = (IF "m" = account THEN (g - 2) * 2 ELSE 0)
                                 - (IF tx.from = account THEN (g - 2) * 2 ELSE 0)
      BY GainOfTransfer
    <2> HIDE DEF whole, burnt, tip, w
    <2> QED
      BY <1>1, <1>3, <2>1, <2>2, <2>3, <2>4
  <1>6. PaidGain(tx, b, account)
          = (gets * (IF b >= LONDON_FORK_BLOCK THEN g - 2 ELSE g) - pays * g) * 2
    BY <1>1 DEF PaidGain, PerGas
  <1>7. /\ getPreLondonForkFees(x, A) = <<whole>>
        /\ getBurntFee(x, A) = burnt
        /\ getMinerFee(x, A) = IF g - 2 > 0 THEN <<tip>> ELSE <<>>
    BY <1>2 DEF IsAnswer, getPreLondonForkFees, getBurntFee, getMinerFee
  <1>8. \A e \in E : w[e] \in Int
    BY GainsAreNumbers
  <1>9. pays \in {0, 1} /\ gets \in {0, 1}
    OBVIOUS
  <1>10. fees = IF b >= LONDON_FORK_BLOCK THEN <<burnt>> \o (IF g - 2 > 0 THEN <<tip>> ELSE <<>>) ELSE <<whole>>
    BY <1>7 DEF FeesOf, getPostLondonForkFees
  <1> HIDE DEF whole, burnt, tip, w, fees, E
  <1>11. \A e \in E : <<e>> \in Seq(E) /\ <<>> \in Seq(E) /\ Weight(w, <<e>>) = w[e] /\ Weight(w, <<>>) = 0
    <2> TAKE e \in E
    <2>1. w[e] \in Int
      BY <1>8
    <2>2. Weight(w, <<e>>) = w[e] /\ Weight(w, <<>>) = 0
      BY <2>1, WeightOfOne
    <2>3. <<e>> \in Seq(E) /\ <<>> \in Seq(E)
      OBVIOUS
    <2> QED
      BY <2>2, <2>3
  <1> HIDE DEF gets, pays, g
  <1>12. CASE ~(b >= LONDON_FORK_BLOCK)
    <2>1. fees = <<whole>>
      BY <1>10, <1>12
    <2>2. fees \in Seq(E) /\ Weight(w, fees) = w[whole]
      BY <1>4, <1>11, <2>1
    <2>3. w[whole] = PaidGain(tx, b, account)
      BY <1>1, <1>5, <1>6, <1>9, <1>12
    <2> QED
      BY <2>2, <2>3 DEF fees, w, E
  <1>13. CASE b >= LONDON_FORK_BLOCK
    <2> DEFINE rest == IF g - 2 > 0 THEN <<tip>> ELSE <<>>
    <2>1. rest \in Seq(E) /\ Weight(w, rest) = IF g - 2 > 0 THEN w[tip] ELSE 0
      BY <1>4, <1>11
    <2>2. fees = <<burnt>> \o rest
      BY <1>10, <1>13
    <2> HIDE DEF rest
    <2>3. <<burnt>> \in Seq(E) /\ Weight(w, <<burnt>>) = w[burnt]
      BY <1>4, <1>11
    <2>4. fees \in Seq(E) /\ Weight(w, fees) = Weight(w, <<burnt>>) + Weight(w, rest)
      <3> DEFINE first == <<burnt>>
      <3>1. first \in Seq(E) /\ rest \in Seq(E) /\ fees = first \o rest
        BY <2>1, <2>2, <2>3
      <3> HIDE DEF first
      <3>2. fees \in Seq(E)
        BY <3>1
      <3>3. Weight(w, first \o rest) = Weight(w, first) + Weight(w, rest)
        BY ONLY <1>8, <3>1, WeightOfBoth
      <3> QED
        BY <3>1, <3>2, <3>3 DEF first
    <2>5. Weight(w, fees) = PaidGain(tx, b, account)
      BY <1>1, <1>5, <1>6, <1>9, <1>13, <2>1, <2>3, <2>4
    <2> QED
      BY <2>4, <2>5 DEF fees, w, E
  <1> QED
    BY <1>12, <1>13

(* Transfers to, or from, the accounts of a list *)
LEMMA WeightOfListed ==
  ASSUME NEW b, NEW account, NEW s \in Seq(EthTransferOf({b}, 0..2)), NEW pairs,
         DOMAIN pairs = 1..Len(s), \A k \in 1..Len(s) : pairs[k][2] \in Int
  PROVE  /\ (\A k \in 1..Len(s) : Gain(s[k], account) = IF pairs[k][1] = account THEN pairs[k][2] ELSE 0)
              => Weight(Gains(b, account), s) = Listed(pairs, account)
         /\ (\A k \in 1..Len(s) : Gain(s[k], account) = 0 - (IF pairs[k][1] = account THEN pairs[k][2] ELSE 0))
              => Weight(Gains(b, account), s) = 0 - Listed(pairs, account)
         /\ Listed(pairs, account) \in Int
  <1> DEFINE E == EthTransferOf({b}, 0..2)
             w == Gains(b, account)
             n == Len(s)
             f == [i \in DOMAIN pairs |-> pairs[i][2]]
             X == {i \in DOMAIN pairs : pairs[i][1] = account}
             sum == SumFunctionOnSet(f, X)
  <1>1. \A e \in E : w[e] = Gain(e, account) /\ w[e] \in Int
    BY GainsAreNumbers
  <1>2. n \in Nat /\ s \in Seq(E) /\ \A k \in 1..n : s[k] \in E
    <2>1. s \in Seq(E)
      OBVIOUS
    <2> HIDE DEF E
    <2> QED
      BY <2>1
  <1>3. \A k \in 1..n : f[k] = pairs[k][2] /\ f[k] \in Int /\ (k \in X <=> pairs[k][1] = account)
    OBVIOUS
  <1>4. X \in SUBSET (1..n) /\ {} \in SUBSET (1..n)
    OBVIOUS
  <1>5. Listed(pairs, account) = sum
    BY DEF Listed
  <1> HIDE DEF f, X, w, E
  <1>6. Summable(f, 1..n) /\ Summable(f, X) /\ Summable(f, {})
    <2>1. IsFiniteSet(1..n)
      BY <1>2, FS_Interval
    <2>2. IsFiniteSet(X) /\ IsFiniteSet({})
      BY <1>4, <2>1, FS_Subset, FS_EmptySet
    <2> QED
      BY <1>3, <1>4, <2>1, <2>2 DEF Summable
  <1>7. SumFunctionOnSet(f, {}) = 0 /\ sum \in Int
    BY <1>6, SumType
  <1>8. \A k \in 1..n : Term(f, {}, k) = 0 /\ Term(f, X, k) = IF pairs[k][1] = account THEN pairs[k][2] ELSE 0
    BY <1>3 DEF Term
  <1>9. \A e \in E : w[e] \in Int
    BY <1>1
  <1>10. ASSUME \A k \in 1..n : Gain(s[k], account) = IF pairs[k][1] = account THEN pairs[k][2] ELSE 0
         PROVE  Weight(w, s) = sum
    <2>1. \A k \in 1..n : w[s[k]] = Term(f, X, k) - Term(f, {}, k)
      <3> TAKE k \in 1..n
      <3>1. w[s[k]] = Term(f, X, k) /\ Term(f, X, k) \in Int
        BY <1>1, <1>2, <1>8, <1>10
      <3> QED
        BY <1>8, <3>1
    <2>2. Weight(w, s) = SumFunctionOnSet(f, X) - SumFunctionOnSet(f, {})
      BY ONLY <1>2, <1>4, <1>6, <1>9, <2>1, WeightOfPairs DEF n
    <2> HIDE DEF sum
    <2>3. Weight(w, s) = sum - 0
      BY <1>7, <2>2 DEF sum
    <2> QED
      BY <1>7, <2>3
  <1>11. ASSUME \A k \in 1..n : Gain(s[k], account) = 0 - (IF pairs[k][1] = account THEN pairs[k][2] ELSE 0)
         PROVE  Weight(w, s) = 0 - sum
    <2>1. \A k \in 1..n : w[s[k]] = Term(f, {}, k) - Term(f, X, k)
      BY <1>1, <1>2, <1>8, <1>11
    <2>2. Weight(w, s) = SumFunctionOnSet(f, {}) - SumFunctionOnSet(f, X)
      BY ONLY <1>2, <1>4, <1>6, <1>9, <2>1, WeightOfPairs DEF n
    <2> QED
      BY <1>7, <2>2
  <1> HIDE DEF sum
  <1> QED
    BY <1>5, <1>7, <1>10, <1>11 DEF w, n

(* The lists of the model *)
LEMMA ListsOfPairs ==
  /\ DOMAIN <<<<"a", 1>>, <<"b", 2>>>> = 1..2
  /\ <<<<"a", 1>>, <<"b", 2>>>>[1][1] = "a" /\ <<<<"a", 1>>, <<"b", 2>>>>[1][2] = 1
  /\ <<<<"a", 1>>, <<"b", 2>>>>[2][1] = "b" /\ <<<<"a", 1>>, <<"b", 2>>>>[2][2] = 2
  /\ Len(GENESIS_TRANSFERS) = 2 /\ DOMAIN GENESIS_TRANSFERS = 1..2
  /\ GENESIS_TRANSFERS[1][1] = "a" /\ GENESIS_TRANSFERS[1][2] = 50
  /\ GENESIS_TRANSFERS[2][1] = "b" /\ GENESIS_TRANSFERS[2][2] = 20
  /\ Len(DAO_HACK_ADDRESSES) = 2 /\ DOMAIN DAO_HACK_ADDRESSES = 1..2
  /\ DAO_HACK_ADDRESSES[1][1] = "a" /\ DAO_HACK_ADDRESSES[1][2] = 1
  /\ DAO_HACK_ADDRESSES[2][1] = "b" /\ DAO_HACK_ADDRESSES[2][2] = 2
  BY DEF GENESIS_TRANSFERS, DAO_HACK_ADDRESSES

(* The withdrawals *)
LEMMA WeightOfWithdrawals ==
  ASSUME NEW b, NEW A, IsAnswer(A, b), NEW account \in Holders
  PROVE  /\ getBeaconChainWithdrawals(A) \in Seq(EthTransferOf({b}, 0..2))
         /\ Listed(<<<<"a", 1>>, <<"b", 2>>>>, account) \in Int
         /\ Weight(Gains(b, account), getBeaconChainWithdrawals(A)) =
              IF A.withdrawals = <<>> THEN 0 ELSE Listed(<<<<"a", 1>>, <<"b", 2>>>>, account)
  <1> DEFINE P == 0..2
             E == EthTransferOf({b}, P)
             w == Gains(b, account)
             Of(to, amount, i) == [Transfer("withdrawal", to, amount, b, 0, "beacon_withdrawal")
                                     EXCEPT !.internalTxPosition = i - 1]
             s == getBeaconChainWithdrawals(A)
             pairs == <<<<"a", 1>>, <<"b", 2>>>>
             full == <<Of("a", 1, 1), Of("b", 2, 2)>>
  <1>1. s = [i \in 1..Len(A.withdrawals) |-> Of(A.withdrawals[i].address, A.withdrawals[i].amount, i)]
    BY DEF getBeaconChainWithdrawals, IsAnswer
  <1>2. \A to \in Accounts, amount \in Int, i \in 1..2 :
          /\ Of(to, amount, i) \in E
          /\ Gain(Of(to, amount, i), account) = IF to = account THEN amount ELSE 0
    <2> TAKE to \in Accounts, amount \in Int, i \in 1..2
    <2> DEFINE x == Transfer("withdrawal", to, amount, b, 0, "beacon_withdrawal")
    <2>1. "withdrawal" \in Accounts /\ "beacon_withdrawal" \in TransferTypes /\ 0 \in P /\ i - 1 \in 0..1
      BY DEF Accounts, TransferTypes
    <2>2. x \in E
      BY <2>1, TransferIsOf
    <2>3. "withdrawal" # account
      BY DEF Holders
    <2>4. Gain(x, account) = IF to = account THEN amount ELSE 0
      <3>1. Gain(x, account) = (IF to = account THEN amount ELSE 0) - (IF "withdrawal" = account THEN amount ELSE 0)
        BY GainOfTransfer
      <3> QED
        BY <2>3, <3>1
    <2> HIDE DEF x
    <2>5. [x EXCEPT !.internalTxPosition = i - 1] \in E
      BY <2>1, <2>2 DEF EthTransferOf
    <2>6. /\ [x EXCEPT !.internalTxPosition = i - 1].to = x.to
          /\ [x EXCEPT !.internalTxPosition = i - 1].from = x.from
          /\ [x EXCEPT !.internalTxPosition = i - 1].value = x.value
      BY <2>2 DEF EthTransferOf
    <2> QED
      BY <2>4, <2>5, <2>6 DEF Gain, x
  <1>3. "a" \in Accounts /\ "b" \in Accounts
    BY DEF Accounts
  <1>4. A.withdrawals = <<>> => s = <<>>
    BY <1>1
  <1>5. A.withdrawals # <<>> => s = full
    <2> SUFFICES ASSUME A.withdrawals = Withdrawals PROVE s = full
      BY DEF IsAnswer
    <2>1. /\ Len(A.withdrawals) = 2
          /\ A.withdrawals[1].address = "a" /\ A.withdrawals[1].amount = 1
          /\ A.withdrawals[2].address = "b" /\ A.withdrawals[2].amount = 2
      BY DEF Withdrawals
    <2>2. s = [i \in 1..2 |-> Of(A.withdrawals[i].address, A.withdrawals[i].amount, i)]
      BY <1>1, <2>1
    <2> HIDE DEF Of, s
    <2> QED
      BY <2>1, <2>2
  <1> HIDE DEF s, Of, E
  <1>6. full \in Seq(E) /\ Len(full) = 2 /\ full[1] = Of("a", 1, 1) /\ full[2] = Of("b", 2, 2)
    <2>1. Of("a", 1, 1) \in E /\ Of("b", 2, 2) \in E
      BY <1>2, <1>3, 1 \in Int, 2 \in Int, 1 \in 1..2, 2 \in 1..2
    <2> QED
      BY <2>1
  <1>7. \A k \in 1..2 : Gain(full[k], account) = IF pairs[k][1] = account THEN pairs[k][2] ELSE 0
    <2>1. /\ Gain(Of("a", 1, 1), account) = IF "a" = account THEN 1 ELSE 0
          /\ Gain(Of("b", 2, 2), account) = IF "b" = account THEN 2 ELSE 0
      BY <1>2, <1>3, 1 \in Int, 2 \in Int, 1 \in 1..2, 2 \in 1..2
    <2>2. /\ pairs[1][1] = "a" /\ pairs[1][2] = 1 /\ pairs[2][1] = "b" /\ pairs[2][2] = 2
      BY ListsOfPairs
    <2>3. \A k \in 1..2 : k = 1 \/ k = 2
      OBVIOUS
    <2> HIDE DEF full, pairs
    <2> QED
      BY <1>6, <2>1, <2>2, <2>3
  <1>8. Weight(w, full) = Listed(pairs, account) /\ Listed(pairs, account) \in Int
    <2>1. DOMAIN pairs = 1..Len(full) /\ \A k \in 1..Len(full) : pairs[k][2] \in Int
      BY <1>6, ListsOfPairs
    <2>2. \A k \in 1..Len(full) : Gain(full[k], account) = IF pairs[k][1] = account THEN pairs[k][2] ELSE 0
      BY <1>6, <1>7
    <2>3. full \in Seq(EthTransferOf({b}, 0..2))
      BY <1>6 DEF E
    <2> HIDE DEF full, pairs, w
    <2> QED
      BY <2>1, <2>2, <2>3, WeightOfListed DEF w
  <1>9. Weight(w, <<>>) = 0
    BY WeightOfNone
  <1> HIDE DEF full, w, pairs
  <1>10. s \in Seq(E) /\ Weight(w, s) = IF A.withdrawals = <<>> THEN 0 ELSE Listed(pairs, account)
    <2>1. <<>> \in Seq(E)
      OBVIOUS
    <2> QED
      BY <1>4, <1>5, <1>6, <1>8, <1>9, <2>1
  <1> QED
    BY <1>8, <1>10 DEF s, E, w, pairs

(* The transfers of the genesis block *)
LEMMA WeightOfGenesis ==
  ASSUME NEW account \in Holders
  PROVE  /\ getGenesisTransfers \in Seq(EthTransferOf({0}, 0..2))
         /\ Listed(GENESIS_TRANSFERS, account) \in Int
         /\ Weight(Gains(0, account), getGenesisTransfers) = Listed(GENESIS_TRANSFERS, account)
  <1> DEFINE P == 0..2
             E == EthTransferOf({0}, P)
             w == Gains(0, account)
             pairs == GENESIS_TRANSFERS
             Of(k) == Transfer("GENESIS", pairs[k][1], pairs[k][2], 0, 0, "genesis")
             s == [k \in 1..2 |-> Of(k)]
             x == Transfer("mining_block", "zero", 5, 0, 0, "reward")
  <1>1. getGenesisTransfers = s \o <<x>>
    BY ListsOfPairs DEF getGenesisTransfers
  <1>2. /\ "GENESIS" \in Accounts /\ "mining_block" \in Accounts /\ "zero" \in Accounts
        /\ "genesis" \in TransferTypes /\ "reward" \in TransferTypes
        /\ "a" \in Accounts /\ "b" \in Accounts
        /\ account # "GENESIS" /\ account # "mining_block" /\ account # "zero"
    BY DEF Accounts, TransferTypes, TraceTypes, Holders
  <1>3. \A k \in 1..2 : pairs[k][1] \in Accounts /\ pairs[k][2] \in Int
    BY <1>2, ListsOfPairs
  <1>4. x \in E /\ w[x] = 0
    <2>1. x \in E
      BY <1>2, TransferIsOf, 5 \in Int, 0 \in {0}, 0 \in P
    <2>2. w[x] = Gain(x, account)
      BY <2>1, GainsAreNumbers
    <2>3. Gain(x, account) = (IF "zero" = account THEN 5 ELSE 0) - (IF "mining_block" = account THEN 5 ELSE 0)
      BY GainOfTransfer
    <2> HIDE DEF x, w
    <2> QED
      BY <1>2, <2>1, <2>2, <2>3
  <1>5. \A k \in 1..2 : /\ Of(k) \in E
                        /\ Gain(Of(k), account) = IF pairs[k][1] = account THEN pairs[k][2] ELSE 0
    <2> TAKE k \in 1..2
    <2>1. Of(k) \in E
      BY <1>2, <1>3, TransferIsOf, 0 \in {0}, 0 \in P
    <2>2. Gain(Of(k), account) = (IF pairs[k][1] = account THEN pairs[k][2] ELSE 0)
                                   - (IF "GENESIS" = account THEN pairs[k][2] ELSE 0)
      BY GainOfTransfer
    <2> HIDE DEF Of, pairs
    <2> QED
      BY <1>2, <1>3, <2>1, <2>2
  <1> HIDE DEF x, Of, E, w
  <1>6. s \in Seq(E) /\ Len(s) = 2 /\ \A k \in 1..2 : s[k] = Of(k)
    <2> DEFINE n == 2
    <2>1. n \in Nat /\ s = [k \in 1..n |-> Of(k)] /\ \A k \in 1..n : Of(k) \in E
      BY <1>5
    <2> HIDE DEF n, s
    <2>2. s \in Seq(E) /\ Len(s) = n /\ \A k \in 1..n : s[k] = Of(k)
      BY <2>1
    <2> QED
      BY <2>2 DEF n
  <1> HIDE DEF s
  <1>7. Weight(w, s) = Listed(pairs, account) /\ Listed(pairs, account) \in Int
    <2>1. DOMAIN pairs = 1..Len(s) /\ \A k \in 1..Len(s) : pairs[k][2] \in Int
      BY <1>3, <1>6, ListsOfPairs
    <2>2. \A k \in 1..Len(s) : Gain(s[k], account) = IF pairs[k][1] = account THEN pairs[k][2] ELSE 0
      BY <1>5, <1>6
    <2>3. s \in Seq(EthTransferOf({0}, 0..2))
      BY <1>6 DEF E
    <2> HIDE DEF pairs
    <2> QED
      BY <2>1, <2>2, <2>3, WeightOfListed DEF w
  <1> DEFINE u == <<x>>
  <1>8. u \in Seq(E) /\ Weight(w, u) = 0
    <2>1. w[x] \in Int
      BY <1>4
    <2> QED
      BY <1>4, <2>1, WeightOfOne
  <1>9. \A e \in E : w[e] \in Int
    BY GainsAreNumbers DEF E, w
  <1> HIDE DEF u, pairs
  <1>10. Weight(w, s \o u) = Weight(w, s) + Weight(w, u)
    BY ONLY <1>6, <1>8, <1>9, WeightOfBoth
  <1>11. s \o u \in Seq(E)
    BY <1>6, <1>8
  <1>12. Weight(w, s \o u) = Listed(pairs, account)
    BY <1>7, <1>8, <1>10
  <1> QED
    BY <1>1, <1>7, <1>11, <1>12 DEF E, w, u, pairs

(* The transfers of the DAO's fork *)
LEMMA WeightOfRefunds ==
  ASSUME NEW b, b = DAO_HACK_FORK_BLOCK, NEW account \in Holders
  PROVE  /\ daoHackTransfers \in Seq(EthTransferOf({b}, 0..2))
         /\ Listed(DAO_HACK_ADDRESSES, account) \in Int
         /\ Weight(Gains(b, account), daoHackTransfers) = 0 - Listed(DAO_HACK_ADDRESSES, account)
  <1> DEFINE P == 0..2
             E == EthTransferOf({b}, P)
             pairs == DAO_HACK_ADDRESSES
             Of(k) == Transfer(pairs[k][1], "refund", pairs[k][2], b, 0, "dao_hack")
             s == [k \in 1..2 |-> Of(k)]
  <1>1. daoHackTransfers = s
    BY ListsOfPairs DEF daoHackTransfers
  <1>2. /\ "refund" \in Accounts /\ "dao_hack" \in TransferTypes
        /\ "a" \in Accounts /\ "b" \in Accounts /\ account # "refund"
    BY DEF Accounts, TransferTypes, Holders
  <1>3. \A k \in 1..2 : pairs[k][1] \in Accounts /\ pairs[k][2] \in Int
    BY <1>2, ListsOfPairs
  <1>4. \A k \in 1..2 : /\ Of(k) \in E
                        /\ Gain(Of(k), account) = 0 - (IF pairs[k][1] = account THEN pairs[k][2] ELSE 0)
    <2> TAKE k \in 1..2
    <2>1. Of(k) \in E
      BY <1>2, <1>3, TransferIsOf, b \in {b}, 0 \in P
    <2>2. Gain(Of(k), account) = (IF "refund" = account THEN pairs[k][2] ELSE 0)
                                   - (IF pairs[k][1] = account THEN pairs[k][2] ELSE 0)
      BY GainOfTransfer
    <2> HIDE DEF Of, pairs
    <2> QED
      BY <1>2, <1>3, <2>1, <2>2
  <1> HIDE DEF Of, E
  <1>5. s \in Seq(E) /\ Len(s) = 2 /\ \A k \in 1..2 : s[k] = Of(k)
    <2> DEFINE n == 2
    <2>1. n \in Nat /\ s = [k \in 1..n |-> Of(k)] /\ \A k \in 1..n : Of(k) \in E
      BY <1>4
    <2> HIDE DEF n, s
    <2>2. s \in Seq(E) /\ Len(s) = n /\ \A k \in 1..n : s[k] = Of(k)
      BY <2>1
    <2> QED
      BY <2>2 DEF n
  <1> HIDE DEF s
  <1>6. Weight(Gains(b, account), s) = 0 - Listed(pairs, account) /\ Listed(pairs, account) \in Int
    <2>1. DOMAIN pairs = 1..Len(s) /\ \A k \in 1..Len(s) : pairs[k][2] \in Int
      BY <1>3, <1>5, ListsOfPairs
    <2>2. \A k \in 1..Len(s) : Gain(s[k], account) = 0 - (IF pairs[k][1] = account THEN pairs[k][2] ELSE 0)
      BY <1>4, <1>5
    <2>3. s \in Seq(EthTransferOf({b}, 0..2))
      BY <1>5 DEF E
    <2> HIDE DEF pairs
    <2> QED
      BY <2>1, <2>2, <2>3, WeightOfListed
  <1> QED
    BY <1>1, <1>5, <1>6 DEF E

(* The reward of a block *)
LEMMA WeightOfRewards ==
  ASSUME NEW b, NEW A, IsAnswer(A, b), NEW account \in Holders
  PROVE  /\ TraceTransfers(A.rewards, b, 0) \in Seq(EthTransferOf({b}, 0..2))
         /\ Weight(Gains(b, account), TraceTransfers(A.rewards, b, 0)) =
              IF A.rewards # <<>> /\ b < THE_MERGE /\ account = "m" THEN 6 ELSE 0
  <1> DEFINE R == A.rewards
             h == KeptGains(R, b, account)
             n == Len(R)
             E == EthTransferOf({b}, 0..2)
             r == TraceTransfers(R, b, 0)
  <1>1. IsTrace(Reward)
    BY DEF IsTrace, Reward, Trace, TraceTypes, Accounts
  <1>2. R \in {<<>>, <<Reward>>} /\ n \in 0..1 /\ R \in Seq({Reward})
        /\ (R # <<>> => n = 1 /\ R[1] = Reward) /\ (R = <<>> => n = 0)
    <2>1. R \in {<<>>, <<Reward>>}
      BY DEF IsAnswer
    <2>2. \A x : <<x>> \in Seq({x}) /\ <<>> \in Seq({x}) /\ Len(<<x>>) = 1 /\ Len(<<>>) = 0 /\ <<x>>[1] = x
                 /\ <<x>> # <<>>
      OBVIOUS
    <2> HIDE DEF R
    <2>3. CASE R = <<>>
      BY <2>2, <2>3
    <2>4. CASE R = <<Reward>>
      <3> DEFINE x == Reward
      <3>1. R = <<x>>
        BY <2>4
      <3> HIDE DEF x
      <3>2. /\ Len(R) = 1 /\ R[1] = x /\ R # <<>> /\ R \in Seq({x})
        BY <2>2, <3>1
      <3> QED
        BY <2>1, <3>2 DEF x
    <2> QED
      BY <2>1, <2>3, <2>4
  <1> HIDE DEF R
  <1>3. Summable(h, 1..n) /\ Weight(Gains(b, account), r) = SumFunctionOnSet(h, 1..n)
    BY <1>1, <1>2, WeightOfTraces
  <1>4. r \in Seq(E)
    <2> DEFINE P == 0..2
    <2>1. 0 \in P
      OBVIOUS
    <2> HIDE DEF P
    <2>2. TraceTransfers(R, b, 0) \in Seq(EthTransferOf({b}, P))
      BY <1>1, <1>2, <2>1, TraceTransfersAre
    <2> QED
      BY <2>2 DEF P
  <1>5. TraceGain(Reward, b, account) = IF b < THE_MERGE /\ account = "m" THEN 6 ELSE 0
    <2> DEFINE Gives(trace, value, to) == TraceGain(trace, b, account) = IF b < THE_MERGE /\ to = account THEN value ELSE 0
    <2>1. \A path, from, to, error : \A value \in Int : Gives(Trace(path, "reward", from, to, value, error), value, to)
      BY TraceGains
    <2> HIDE DEF Gives
    <2>2. Gives(Reward, 6, "m")
      BY <2>1, 6 \in Int DEF Reward
    <2> QED
      BY <2>2 DEF Gives
  <1>6. n = 1 => h[1] = TraceGain(Reward, b, account)
    <2> SUFFICES ASSUME n = 1 PROVE h[1] = TraceGain(Reward, b, account)
      OBVIOUS
    <2>1. R # <<>> /\ R = <<Reward>> /\ R[1] = Reward
      BY <1>2
    <2>2. DOMAIN R = 1..1 /\ \A k \in 1..1 : ~R[k].error
      BY <2>1 DEF Reward, Trace
    <2>3. \A k \in 1..1 : ~HasFailedParent(R, k)
      BY <2>2, NothingTakenBack
    <2>4. 1 \in KeptIn(R)
      BY <2>2, <2>3 DEF KeptIn
    <2> QED
      BY <2>1, <2>4 DEF KeptGains
  <1> HIDE DEF h, r
  <1>7. SumFunctionOnSet(h, 1..n) = TermsUpTo(h, n)
    <2>1. n \in 0..5
      BY <1>2
    <2> HIDE DEF n
    <2> QED
      BY <1>3, <2>1, SumOfFew
  <1> HIDE DEF n
  <1>8. SumFunctionOnSet(h, 1..n) = IF R # <<>> /\ b < THE_MERGE /\ account = "m" THEN 6 ELSE 0
    <2> DEFINE g == TraceGain(Reward, b, account)
    <2>1. g \in Int
      BY <1>5
    <2>2. TermsUpTo(h, n) = IF n = 1 THEN g ELSE 0
      <3>1. CASE n = 1
        <4>1. h[1] = g
          BY <1>6, <3>1
        <4> HIDE DEF g
        <4> QED
          BY <2>1, <3>1, <4>1 DEF TermsUpTo, TermAt
      <3>2. CASE n = 0
        BY <3>2 DEF TermsUpTo, TermAt
      <3> QED
        BY <1>2, <3>1, <3>2
    <2> HIDE DEF g
    <2>3. n = 1 <=> R # <<>>
      BY <1>2
    <2>4. g = IF b < THE_MERGE /\ account = "m" THEN 6 ELSE 0
      BY <1>5 DEF g
    <2> QED
      BY <1>7, <2>2, <2>3, <2>4
  <1> QED
    BY <1>3, <1>4, <1>8 DEF E, r, R

(* What the transactions of a list change, by their values and their gas *)
MovedGains(txs, account) == [i \in DOMAIN txs |-> MovedGain(txs[i], account)]

PaidGains(txs, b, account) == [i \in DOMAIN txs |-> PaidGain(txs[i], b, account)]

(* A's transactions are those of txs in their places. *)
AreTxs(A, txs) ==
  /\ Len(txs) \in 0..3 /\ DOMAIN txs = 1..Len(txs) /\ \A i \in 1..Len(txs) : txs[i] \in EthTxs
  /\ A.transactions = [i \in 1..Len(txs) |-> Extend(txs[i], [position |-> i - 1])]

(* The transactions of a block *)
LEMMA TrueBlockTxs ==
  ASSUME chain \in [Block -> 1..4], NEW b \in 0..MaxBlock
  PROVE  AreTxs(TrueBlock(b), TxsOf(b))
  <1>1. /\ Len(TxsOf(b)) \in 0..3
        /\ \A i \in 1..Len(TxsOf(b)) : TxsOf(b)[i] \in EthTxs
    BY TrueBlockFacts
  <1>2. TrueBlock(b).transactions = [i \in 1..Len(TxsOf(b)) |-> Extend(TxsOf(b)[i], [position |-> i - 1])]
    BY TrueBlockIsAnswer
  <1>3. DOMAIN TxsOf(b) = 1..Len(TxsOf(b))
    <2>1. Content(b) \in 1..4
      BY EvmWorkersAssumption DEF Content, Block
    <2>2. \A c \in 1..4 : EthContents[c] \in Seq(EthTxs)
      <3>1. /\ EthContents[1] = <<>> /\ EthContents[2] = <<Plain>>
            /\ EthContents[3] = <<PartlyReverted, Creating>>
            /\ EthContents[4] = <<Plain, Failed, Creating>>
        BY DEF EthContents
      <3>2. Plain \in EthTxs /\ PartlyReverted \in EthTxs /\ Creating \in EthTxs /\ Failed \in EthTxs
        BY DEF EthTxs
      <3> DEFINE S == EthTxs
      <3> HIDE DEF S
      <3>3. \A x, y, z \in S : <<>> \in Seq(S) /\ <<x>> \in Seq(S) /\ <<x, y>> \in Seq(S) /\ <<x, y, z>> \in Seq(S)
        OBVIOUS
      <3>4. \A c \in 1..4 : c = 1 \/ c = 2 \/ c = 3 \/ c = 4
        OBVIOUS
      <3>5. <<>> \in Seq(S) /\ <<Plain>> \in Seq(S) /\ <<PartlyReverted, Creating>> \in Seq(S)
            /\ <<Plain, Failed, Creating>> \in Seq(S)
        BY <3>2, <3>3, Zenon DEF S
      <3> QED
        BY <3>1, <3>4, <3>5, Zenon DEF S
    <2>3. TxsOf(b) \in Seq(EthTxs)
      BY <2>1, <2>2 DEF TxsOf
    <2> QED
      BY <2>3
  <1> QED
    BY <1>1, <1>2, <1>3 DEF AreTxs

(* The transfers of a block's traces *)
LEMMA WeightOfTraced ==
  ASSUME NEW b \in Nat, NEW A, IsAnswer(A, b), NEW txs, AreTxs(A, txs), NEW account \in Holders
  PROVE  /\ Summable(MovedGains(txs, account), 1..Len(txs))
         /\ Weight(Gains(b, account), transformPastTransferEvents(A)) =
              SumFunctionOnSet(MovedGains(txs, account), 1..Len(txs))
              + (IF A.rewards # <<>> /\ b < THE_MERGE /\ account = "m" THEN 6 ELSE 0)
  <1> DEFINE P == 0..2
             E == EthTransferOf({b}, P)
             w == Gains(b, account)
             n == Len(txs)
             f == MovedGains(txs, account)
             ss == [i \in 1..n |-> TraceTransfers(A.transactions[i].traces, b, A.transactions[i].position)]
             r == TraceTransfers(A.rewards, b, 0)
  <1>1. n \in 0..3 /\ DOMAIN txs = 1..n /\ \A i \in 1..n : txs[i] \in EthTxs
    BY DEF AreTxs
  <1>2. Len(A.transactions) = n
    <2>1. A.transactions = [i \in 1..n |-> Extend(txs[i], [position |-> i - 1])]
      BY DEF AreTxs
    <2> HIDE DEF n
    <2> QED
      BY <1>1, <2>1
  <1>3. transformPastTransferEvents(A) = FlattenSeq(ss) \o r
    BY <1>2 DEF transformPastTransferEvents, IsAnswer
  <1>4. \A i \in 1..n : A.transactions[i].traces = txs[i].traces /\ A.transactions[i].position = i - 1
                        /\ i - 1 \in 0..2
    <2> TAKE i \in 1..n
    <2>1. A.transactions[i] = Extend(txs[i], [position |-> i - 1])
      BY DEF AreTxs
    <2> DEFINE p == i - 1
               x == A.transactions[i]
    <2>2. txs[i] \in EthTxs /\ x = Extend(txs[i], [position |-> p])
      BY <1>1, <2>1
    <2>3. p \in 0..2
      BY <1>1
    <2> HIDE DEF p, x
    <2>4. x.traces = txs[i].traces /\ x.position = p
      BY <2>2, PlacedTx
    <2> QED
      BY <2>3, <2>4 DEF p, x
  <1>5. \A e \in E : w[e] \in Int
    BY GainsAreNumbers
  <1>6. ASSUME NEW i \in 1..n
        PROVE  ss[i] \in Seq(E) /\ Weight(w, ss[i]) = f[i]
    <2> DEFINE tx == txs[i]
               p == i - 1
               S == {tx.traces[k] : k \in DOMAIN tx.traces}
               t == TraceTransfers(tx.traces, b, p)
    <2>1. ss[i] = t /\ f[i] = MovedGain(tx, account) /\ tx \in EthTxs /\ p \in P
      BY <1>1, <1>4 DEF MovedGains
    <2>2. tx.traces \in Seq(S) /\ \A x \in S : IsTrace(x)
      BY <2>1, TracesOfTx, TracesAreTraces
    <2>3. 0 \in P
      OBVIOUS
    <2> HIDE DEF tx, p, S, f, ss, n
    <2>4. /\ Summable(KeptGains(tx.traces, b, account), 1..Len(tx.traces))
          /\ Weight(w, t) = SumFunctionOnSet(KeptGains(tx.traces, b, account), 1..Len(tx.traces))
      BY <2>1, <2>2, WeightOfTraces
    <2>5. SumFunctionOnSet(KeptGains(tx.traces, b, account), 1..Len(tx.traces)) = MovedGain(tx, account)
      BY <2>1, <2>4, MovedByTraces
    <2> HIDE DEF P
    <2>6. t \in Seq(E)
      BY <2>1, <2>2, <2>3, TraceTransfersAre
    <2> QED
      BY <2>1, <2>4, <2>5, <2>6
  <1>7. ss = [i \in 1..n |-> ss[i]] /\ n \in Nat
    BY <1>1
  <1>8. r \in Seq(E) /\ Weight(w, r) = IF A.rewards # <<>> /\ b < THE_MERGE /\ account = "m" THEN 6 ELSE 0
    BY WeightOfRewards
  <1> HIDE DEF ss, f, r, w, E, n
  <1>9. FlattenSeq(ss) \in Seq(E) /\ Summable(f, 1..n) /\ Weight(w, FlattenSeq(ss)) = SumFunctionOnSet(f, 1..n)
    <2>1. AreWeighed(w, ss, f, n, E) /\ n \in Nat
      BY <1>6, <1>7 DEF AreWeighed
    <2> QED
      BY ONLY <1>5, <2>1, WeightOfEach
  <1>10. Weight(w, FlattenSeq(ss) \o r) = Weight(w, FlattenSeq(ss)) + Weight(w, r)
    <2> DEFINE s == FlattenSeq(ss)
    <2>1. s \in Seq(E) /\ r \in Seq(E)
      BY <1>8, <1>9
    <2> HIDE DEF s
    <2>2. Weight(w, s \o r) = Weight(w, s) + Weight(w, r)
      BY ONLY <1>5, <2>1, WeightOfBoth
    <2> QED
      BY <2>2 DEF s
  <1> QED
    BY <1>3, <1>8, <1>9, <1>10 DEF w, f, n

(* The transfers of a block's fees and withdrawals *)
LEMMA WeightOfPaid ==
  ASSUME NEW b \in Nat, NEW A, IsAnswer(A, b), NEW txs, AreTxs(A, txs), NEW account \in Holders
  PROVE  /\ Summable(PaidGains(txs, b, account), 1..Len(txs))
         /\ Weight(Gains(b, account), transformPastTransactionEvents(A)) =
              SumFunctionOnSet(PaidGains(txs, b, account), 1..Len(txs))
              + (IF A.withdrawals = <<>> THEN 0 ELSE Listed(<<<<"a", 1>>, <<"b", 2>>>>, account))
  <1> DEFINE P == 0..2
             E == EthTransferOf({b}, P)
             w == Gains(b, account)
             n == Len(txs)
             f == PaidGains(txs, b, account)
             ss == [i \in 1..n |-> FeesOf(A.transactions[i], A, b)]
             r == getBeaconChainWithdrawals(A)
  <1>1. n \in 0..3 /\ DOMAIN txs = 1..n /\ \A i \in 1..n : txs[i] \in EthTxs
    BY DEF AreTxs
  <1>2. Len(A.transactions) = n
    <2>1. A.transactions = [i \in 1..n |-> Extend(txs[i], [position |-> i - 1])]
      BY DEF AreTxs
    <2> HIDE DEF n
    <2> QED
      BY <1>1, <2>1
  <1>3. transformPastTransactionEvents(A) = FlattenSeq(ss) \o r
    BY <1>2 DEF transformPastTransactionEvents, getFeesFromTransactionsInBlock, FeesOf, IsAnswer
  <1>4. \A e \in E : w[e] \in Int
    BY GainsAreNumbers
  <1>5. ASSUME NEW i \in 1..n
        PROVE  ss[i] \in Seq(E) /\ Weight(w, ss[i]) = f[i]
    <2> DEFINE tx == txs[i]
               p == i - 1
               x == A.transactions[i]
    <2>1. x = Extend(tx, [position |-> p]) /\ tx \in EthTxs
      BY <1>1 DEF AreTxs
    <2>2. p \in 0..2
      BY <1>1
    <2>3. ss[i] = FeesOf(x, A, b) /\ f[i] = PaidGain(tx, b, account)
      BY <1>1 DEF PaidGains
    <2> HIDE DEF tx, p, x, f, ss, n, w
    <2>4. FeesOf(x, A, b) \in Seq(E) /\ Weight(w, FeesOf(x, A, b)) = PaidGain(tx, b, account)
      BY <2>1, <2>2, WeightOfFees, ZenonT(60) DEF w
    <2> QED
      BY <2>3, <2>4
  <1>6. ss = [i \in 1..n |-> ss[i]] /\ n \in Nat
    BY <1>1
  <1>7. /\ r \in Seq(E)
        /\ Weight(w, r) = IF A.withdrawals = <<>> THEN 0 ELSE Listed(<<<<"a", 1>>, <<"b", 2>>>>, account)
    BY WeightOfWithdrawals
  <1> HIDE DEF ss, f, r, w, E, n
  <1>8. FlattenSeq(ss) \in Seq(E) /\ Summable(f, 1..n) /\ Weight(w, FlattenSeq(ss)) = SumFunctionOnSet(f, 1..n)
    <2>1. AreWeighed(w, ss, f, n, E) /\ n \in Nat
      BY <1>5, <1>6 DEF AreWeighed
    <2> QED
      BY ONLY <1>4, <2>1, WeightOfEach
  <1>9. Weight(w, FlattenSeq(ss) \o r) = Weight(w, FlattenSeq(ss)) + Weight(w, r)
    <2> DEFINE s == FlattenSeq(ss)
    <2>1. s \in Seq(E) /\ r \in Seq(E)
      BY <1>7, <1>8
    <2> HIDE DEF s
    <2>2. Weight(w, s \o r) = Weight(w, s) + Weight(w, r)
      BY ONLY <1>4, <2>1, WeightOfBoth
    <2> QED
      BY <2>2 DEF s
  <1> QED
    BY <1>3, <1>7, <1>8, <1>9 DEF w, f, n

(* What a transaction changes is what it moves and what it pays. *)
LEMMA TxChanges ==
  ASSUME NEW txs, NEW n \in 0..3, DOMAIN txs = 1..n, NEW b, NEW account,
         Summable(MovedGains(txs, account), 1..n), Summable(PaidGains(txs, b, account), 1..n)
  PROVE  SumFunction([i \in DOMAIN txs |-> EthTxChange(txs[i], b, account)]) =
           SumFunctionOnSet(MovedGains(txs, account), 1..n) + SumFunctionOnSet(PaidGains(txs, b, account), 1..n)
  <1> DEFINE f == MovedGains(txs, account)
             g == PaidGains(txs, b, account)
             h == [i \in DOMAIN txs |-> EthTxChange(txs[i], b, account)]
             S == 1..n
  <1>1. \A i \in S : h[i] = f[i] + g[i]
    <2> TAKE i \in S
    <2>1. f[i] = MovedGain(txs[i], account) /\ g[i] = PaidGain(txs[i], b, account)
          /\ h[i] = EthTxChange(txs[i], b, account)
      BY DEF MovedGains, PaidGains
    <2> DEFINE tx == txs[i]
    <2>2. EthTxChange(tx, b, account) = MovedGain(tx, account) + PaidGain(tx, b, account)
      <3> HIDE DEF tx
      <3> QED
        BY DEF EthTxChange, MovedGain, PaidGain, PerGas, MoveValues, MovesWith
    <2> QED
      BY <2>1, <2>2
  <1>2. SumFunction(h) = SumFunctionOnSet(h, S)
    <2>1. DOMAIN h = S
      OBVIOUS
    <2> HIDE DEF h, S
    <2> QED
      BY <2>1 DEF SumFunction
  <1> HIDE DEF f, g, h, S
  <1>3. SumFunctionOnSet(h, S) = SumFunctionOnSet(f, S) + SumFunctionOnSet(g, S)
    <2>1. Summable(f, S) /\ Summable(g, S)
      BY DEF f, g, S
    <2> QED
      BY ONLY <1>1, <2>1, SumOfTwo
  <1> QED
    BY <1>2, <1>3 DEF f, g, h, S

(* The transfers of a block say what it changes. *)
LEMMA ChangeOfBlock ==
  ASSUME chain \in [Block -> 1..4], NEW b \in 0..MaxBlock, NEW account \in Holders
  PROVE  /\ OwnTransfers(TrueBlock(b), b) \in Seq(EthTransferOf({b}, 0..2))
         /\ Weight(Gains(b, account), OwnTransfers(TrueBlock(b), b)) = EthChange(Content(b), b, account)
  <1> DEFINE A == TrueBlock(b)
             txs == TxsOf(b)
             n == Len(txs)
             c == Content(b)
             E == EthTransferOf({b}, 0..2)
             w == Gains(b, account)
             traced == transformPastTransferEvents(A)
             paid == transformPastTransactionEvents(A)
             genesis == IF b = 0 THEN getGenesisTransfers ELSE <<>>
             all == genesis \o traced \o paid
             moved == SumFunctionOnSet(MovedGains(txs, account), 1..n)
             fees == SumFunctionOnSet(PaidGains(txs, b, account), 1..n)
             withdrawn == Listed(<<<<"a", 1>>, <<"b", 2>>>>, account)
             given == Listed(GENESIS_TRANSFERS, account)
             taken == Listed(DAO_HACK_ADDRESSES, account)
             reward == IF account = "m" /\ 0 < b /\ b < THE_MERGE THEN 6 ELSE 0
  <1>1. b \in Nat /\ THE_MERGE \in Nat /\ IsAnswer(A, b) /\ AreTxs(A, txs)
    <2>1. b \in Nat /\ THE_MERGE \in Nat
      BY ForksInOrder
    <2>2. IsAnswer(A, b) /\ AreTxs(A, txs)
      BY TrueBlockIsAnswer, TrueBlockTxs
    <2> QED
      BY <2>1, <2>2
  <1>2. /\ A.rewards = <<>> <=> b = 0 \/ (b >= THE_MERGE /\ c = 2)
        /\ A.withdrawals = <<>> <=> b < THE_MERGE \/ c = 2
    <2>1. /\ A.rewards = IF b = 0 \/ (b >= THE_MERGE /\ c = 2) THEN <<>> ELSE <<Reward>>
          /\ A.withdrawals = IF b < THE_MERGE \/ c = 2 THEN <<>> ELSE Withdrawals
      BY TrueBlockIsAnswer
    <2>2. <<Reward>> # <<>> /\ Withdrawals # <<>>
      <3>1. Len(<<Reward>>) = 1 /\ Len(<<>>) = 0
        OBVIOUS
      <3>2. Len(Withdrawals) = 2
        BY DEF Withdrawals
      <3> QED
        BY <3>1, <3>2
    <2> HIDE DEF A, c
    <2> QED
      BY <2>1, <2>2
  <1>3. traced \in Seq(E) /\ paid \in Seq(E)
    BY <1>1, AnswerTransfersAre
  <1>4. \A e \in E : w[e] \in Int
    BY GainsAreNumbers
  <1>5. n \in 0..3 /\ DOMAIN txs = 1..n
    BY <1>1 DEF AreTxs
  <1> HIDE DEF A, txs, traced, paid
  <1>6. Summable(MovedGains(txs, account), 1..n) /\ Weight(w, traced) = moved + reward
    <2>1. /\ Summable(MovedGains(txs, account), 1..n)
          /\ Weight(w, traced) = moved + (IF A.rewards # <<>> /\ b < THE_MERGE /\ account = "m" THEN 6 ELSE 0)
      BY <1>1, WeightOfTraced DEF traced
    <2>2. A.rewards # <<>> /\ b < THE_MERGE <=> 0 < b /\ b < THE_MERGE
      BY <1>1, <1>2
    <2>3. (IF A.rewards # <<>> /\ b < THE_MERGE /\ account = "m" THEN 6 ELSE 0) = reward
      BY <2>2
    <2> HIDE DEF w, reward, moved, n
    <2> QED
      BY <2>1, <2>3
  <1>7. Summable(PaidGains(txs, b, account), 1..n)
        /\ Weight(w, paid) = fees + (IF b < THE_MERGE \/ c = 2 THEN 0 ELSE withdrawn)
    <2>1. /\ Summable(PaidGains(txs, b, account), 1..n)
          /\ Weight(w, paid) = fees + (IF A.withdrawals = <<>> THEN 0 ELSE withdrawn)
      BY <1>1, WeightOfPaid DEF paid
    <2> HIDE DEF w, fees, withdrawn, n, c
    <2> QED
      BY <1>2, <2>1
  <1>8. genesis \in Seq(E) /\ Weight(w, genesis) = (IF b = 0 THEN given ELSE 0) /\ given \in Int
    <2>1. CASE b = 0
      BY <2>1, WeightOfGenesis
    <2>2. CASE b # 0
      <3>1. <<>> \in Seq(E)
        OBVIOUS
      <3>2. given \in Int
        BY WeightOfGenesis
      <3>3. Weight(w, <<>>) = 0
        BY WeightOfNone
      <3> HIDE DEF E, w, given
      <3> QED
        BY <2>2, <3>1, <3>2, <3>3
    <2> QED
      BY <2>1, <2>2
  <1>9. b = DAO_HACK_FORK_BLOCK => daoHackTransfers \in Seq(E) /\ Weight(w, daoHackTransfers) = 0 - taken
    BY WeightOfRefunds
  <1>10. moved \in Int /\ fees \in Int /\ withdrawn \in Int /\ taken \in Int
    <2>1. moved \in Int /\ fees \in Int
      BY <1>6, <1>7, SumType
    <2>2. withdrawn \in Int
      BY <1>1, WeightOfWithdrawals
    <2>3. taken \in Int
      BY WeightOfRefunds
    <2> QED
      BY <2>1, <2>2, <2>3
  <1>11. EthChange(c, b, account) =
           moved + fees + reward + (IF b < THE_MERGE \/ c = 2 THEN 0 ELSE withdrawn)
             + (IF b = 0 THEN given ELSE 0) - (IF b = DAO_HACK_FORK_BLOCK THEN taken ELSE 0)
    <2>1. SumFunction([i \in DOMAIN txs |-> EthTxChange(txs[i], b, account)]) = moved + fees
      BY <1>5, <1>6, <1>7, TxChanges
    <2>2. EthContents[c] = txs
      BY DEF txs, TxsOf
    <2> DEFINE sum == SumFunction([i \in DOMAIN txs |-> EthTxChange(txs[i], b, account)])
    <2>3. EthChange(c, b, account) =
           sum + reward + (IF b < THE_MERGE \/ c = 2 THEN 0 ELSE withdrawn)
             + (IF b = 0 THEN given ELSE 0) - (IF b = DAO_HACK_FORK_BLOCK THEN taken ELSE 0)
      <3> HIDE DEF c
      <3> QED
        BY <2>2 DEF EthChange
    <2> HIDE DEF sum, moved, fees, reward, withdrawn, given, taken, c
    <2>4. sum = moved + fees
      BY <2>1 DEF sum
    <2> QED
      BY <2>3, <2>4
  <1> HIDE DEF genesis, all, moved, fees, withdrawn, given, taken, w, E, c
  <1>12. all \in Seq(E) /\ Weight(w, all) = Weight(w, genesis) + Weight(w, traced) + Weight(w, paid)
    <2> DEFINE first == genesis \o traced
    <2>1. first \in Seq(E)
      BY <1>3, <1>8
    <2>2. Weight(w, first) = Weight(w, genesis) + Weight(w, traced)
      <3>1. genesis \in Seq(E) /\ traced \in Seq(E)
        BY <1>3, <1>8
      <3> QED
        BY ONLY <1>4, <3>1, WeightOfBoth
    <2> HIDE DEF first
    <2>3. Weight(w, first \o paid) = Weight(w, first) + Weight(w, paid)
      <3>1. paid \in Seq(E)
        BY <1>3
      <3> QED
        BY ONLY <1>4, <2>1, <3>1, WeightOfBoth
    <2>4. first \o paid \in Seq(E)
      BY <1>3, <2>1
    <2>5. all = first \o paid
      BY DEF all, first
    <2> QED
      BY <2>2, <2>3, <2>4, <2>5
  <1>13. TracedAndPaid(A, b) = all
    BY DEF TracedAndPaid, all, genesis, traced, paid
  <1>14. reward \in Int
    OBVIOUS
  <1> HIDE DEF reward
  <1>15. Weight(w, all) = EthChange(c, b, account) + (IF b = DAO_HACK_FORK_BLOCK THEN taken ELSE 0)
    BY <1>6, <1>7, <1>8, <1>10, <1>11, <1>12, <1>14
  <1>16. EthChange(c, b, account) \in Int
    BY <1>8, <1>10, <1>11, <1>14
  <1>17. CASE b = DAO_HACK_FORK_BLOCK
    <2>1. OwnTransfers(A, b) = daoHackTransfers \o all
      BY <1>13, <1>17 DEF OwnTransfers
    <2>2. daoHackTransfers \in Seq(E) /\ all \in Seq(E)
      BY <1>9, <1>12, <1>17
    <2>3. Weight(w, daoHackTransfers \o all) = Weight(w, daoHackTransfers) + Weight(w, all)
      BY ONLY <1>4, <2>2, WeightOfBoth
    <2>4. daoHackTransfers \o all \in Seq(E)
      BY <2>2
    <2>5. Weight(w, daoHackTransfers \o all) = EthChange(c, b, account)
      BY <1>9, <1>10, <1>15, <1>16, <1>17, <2>3
    <2> QED
      BY <2>1, <2>4, <2>5 DEF w, E, c, A
  <1>18. CASE b # DAO_HACK_FORK_BLOCK
    <2>1. OwnTransfers(A, b) = all
      BY <1>13, <1>18 DEF OwnTransfers
    <2>2. Weight(w, all) = EthChange(c, b, account)
      BY <1>15, <1>16, <1>18
    <2> QED
      BY <1>12, <2>1, <2>2 DEF w, E, c, A
  <1> QED
    BY <1>17, <1>18

(* A numbered transfer keeps its transaction, accounts and value. *)
LEMMA NumberedKeeps ==
  ASSUME NEW b, NEW p \in Seq(EthTransferOf({b}, 0..2)), NEW k \in 1..Len(p), NEW x, x = Numbered(p, k)
  PROVE  /\ x.transactionPosition = p[k].transactionPosition
         /\ x.internalTxPosition = Cardinality(EarlierThan(p, k))
         /\ x.from = p[k].from /\ x.to = p[k].to /\ x.value = p[k].value /\ x.type = p[k].type
  <1> DEFINE E == EthTransferOf({b}, 0..2)
             y == p[k]
             c == Cardinality(EarlierThan(p, k))
  <1>1. y \in E
    OBVIOUS
  <1>2. x = [y EXCEPT !.internalTxPosition = c]
    BY DEF Numbered
  <1> HIDE DEF y, c
  <1>3. /\ x.transactionPosition = y.transactionPosition /\ x.internalTxPosition = c
        /\ x.from = y.from /\ x.to = y.to /\ x.value = y.value /\ x.type = y.type
    BY <1>1, <1>2 DEF E, EthTransferOf
  <1> QED
    BY <1>3 DEF y, c

(* Numbered transfers of a block differ. *)
LEMMA NumberedApart ==
  ASSUME NEW b, NEW p \in Seq(EthTransferOf({b}, 0..2)), NEW j \in 1..Len(p), NEW k \in 1..Len(p),
         Numbered(p, j) = Numbered(p, k)
  PROVE  j = k
  <1> DEFINE tp == p[k].transactionPosition
             K == PlacesOf(p, tp)
             c == NumbersOf(p, tp)
             x == Numbered(p, j)
             y == Numbered(p, k)
  <1>1. x = y
    OBVIOUS
  <1>2. /\ x.transactionPosition = p[j].transactionPosition
        /\ x.internalTxPosition = Cardinality(EarlierThan(p, j))
    <2> DEFINE z == x
    <2>1. z = Numbered(p, j)
      OBVIOUS
    <2> HIDE DEF z, x
    <2>2. /\ z.transactionPosition = p[j].transactionPosition
          /\ z.internalTxPosition = Cardinality(EarlierThan(p, j))
      BY <2>1, NumberedKeeps, ZenonT(60)
    <2> QED
      BY <2>2 DEF z
  <1>3. /\ y.transactionPosition = p[k].transactionPosition
        /\ y.internalTxPosition = Cardinality(EarlierThan(p, k))
    <2> DEFINE z == y
    <2>1. z = Numbered(p, k)
      OBVIOUS
    <2> HIDE DEF z, y
    <2>2. /\ z.transactionPosition = p[k].transactionPosition
          /\ z.internalTxPosition = Cardinality(EarlierThan(p, k))
      BY <2>1, NumberedKeeps, ZenonT(60)
    <2> QED
      BY <2>2 DEF z
  <1> HIDE DEF x, y
  <1>4. j \in K /\ k \in K
    BY <1>1, <1>2, <1>3 DEF PlacesOf
  <1>5. c[j] = Cardinality(EarlierThan(p, j)) /\ c[k] = Cardinality(EarlierThan(p, k))
    <2> HIDE DEF tp
    <2> QED
      BY <1>4 DEF NumbersOf
  <1>6. c[j] = c[k]
    BY <1>1, <1>2, <1>3, <1>5
  <1>7. CountsUp(c, K)
    <2> HIDE DEF tp
    <2> QED
      BY TransactionCounts
  <1> HIDE DEF c, K
  <1> QED
    BY <1>4, <1>6, <1>7 DEF CountsUp

(* The transfers exported for a block, its end included, say what it changes. *)
LEMMA BlockGain ==
  ASSUME chain \in [Block -> 1..4], NEW b \in 0..MaxBlock, NEW account \in Holders,
         NEW f, \A x \in BlockTransfers(b) : f[x] = Gain(x, account)
  PROVE  /\ Summable(f, BlockTransfers(b))
         /\ SumFunctionOnSet(f, BlockTransfers(b)) = EthChange(Content(b), b, account)
  <1> DEFINE p == OwnTransfers(TrueBlock(b), b)
             E == EthTransferOf({b}, 0..2)
             w == Gains(b, account)
             K == 1..Len(p)
             I == NumberedIn(p)
             q == [k \in K |-> Numbered(p, k)]
             g == Weights(w, p)
             end == EndOf(b)
  <1>1. p \in Seq(E) /\ Weight(w, p) = EthChange(Content(b), b, account)
    BY ChangeOfBlock
  <1>2. BlockTransfers(b) = I \cup {end}
    BY DEF BlockTransfers
  <1> HIDE DEF p
  <1>3. Len(p) \in Nat
    BY <1>1
  <1>4. ASSUME NEW k \in K
        PROVE  /\ Numbered(p, k).transactionPosition \in 0..2 /\ Numbered(p, k) \in I
               /\ f[Numbered(p, k)] = w[p[k]] /\ w[p[k]] \in Int
    <2> DEFINE x == Numbered(p, k)
               y == p[k]
    <2>1. x = Numbered(p, k)
      OBVIOUS
    <2>2. x \in I
      BY DEF NumberedIn
    <2>3. f[x] = Gain(x, account)
      BY <1>2, <2>2
    <2> HIDE DEF x
    <2>4. /\ x.transactionPosition = y.transactionPosition
          /\ x.from = y.from /\ x.to = y.to /\ x.value = y.value
      BY <1>1, <2>1, NumberedKeeps, ZenonT(60)
    <2>5. Gain(x, account) = Gain(y, account)
      BY <2>4 DEF Gain
    <2>6. y \in E
      BY <1>1
    <2> HIDE DEF y
    <2>7. w[y] = Gain(y, account) /\ w[y] \in Int
      BY <2>6, GainsAreNumbers
    <2>8. y.transactionPosition \in 0..2
      BY <2>6 DEF EthTransferOf
    <2> HIDE DEF w, I
    <2> QED
      BY <2>1, <2>2, <2>3, <2>4, <2>5, <2>7, <2>8 DEF y
  <1>5. Pairs(q, K, I)
    <2>1. q \in [K -> I] /\ \A i \in I : \E k \in K : q[k] = i
      BY DEF NumberedIn
    <2>2. \A j, k \in K : q[j] = q[k] => j = k
      <3> TAKE j \in K, k \in K
      <3> HAVE q[j] = q[k]
      <3>1. Numbered(p, j) = Numbered(p, k)
        OBVIOUS
      <3> QED
        BY <1>1, <3>1, NumberedApart
    <2> HIDE DEF q, K, I
    <2> QED
      BY <2>1, <2>2 DEF Pairs
  <1>6. \A k \in K : g[k] = w[p[k]] /\ q[k] = Numbered(p, k)
    <2> HIDE DEF w
    <2> QED
      BY DEF Weights
  <1>7. SumFunctionOnSet(g, K) = Weight(w, p)
    BY DEF Weight
  <1> HIDE DEF g, q, w, I, E
  <1>8. Summable(g, K)
    <2>1. IsFiniteSet(K)
      BY <1>3, FS_Interval
    <2> QED
      BY <1>4, <1>6, <2>1 DEF Summable
  <1>9. \A k \in K : g[k] = f[q[k]]
    BY <1>4, <1>6
  <1> HIDE DEF K
  <1>10. Summable(f, I) /\ SumFunctionOnSet(f, I) = SumFunctionOnSet(g, K)
    BY ONLY <1>5, <1>8, <1>9, SumMapped
  <1>11. end.transactionPosition \notin 0..2
    <2>1. end.transactionPosition = maxTxPosition
      BY EndFields
    <2> HIDE DEF end
    <2> QED
      BY <2>1 DEF maxTxPosition
  <1>12. end \notin I
    <2> HIDE DEF end
    <2>1. ASSUME NEW x \in I PROVE x.transactionPosition \in 0..2
      <3>1. PICK k \in 1..Len(p) : x = Numbered(p, k)
        BY DEF I, NumberedIn
      <3> QED
        BY <1>4, <3>1 DEF K
    <2> QED
      BY <1>11, <2>1
  <1>13. f[end] = 0
    <2>1. f[end] = Gain(end, account)
      BY <1>2
    <2>2. Gain(Transfer("zero", "zero", 0, b, maxTxPosition, "EOB"), account) = 0
      BY GainOfTransfer
    <2> QED
      BY <2>1, <2>2 DEF EndOf
  <1> HIDE DEF end
  <1> DEFINE S == BlockTransfers(b)
  <1>14. S = I \cup {end}
    BY <1>2
  <1> HIDE DEF S
  <1>15. Summable(f, S)
    <2>1. IsFiniteSet(S)
      BY <1>10, <1>14, FS_AddElement DEF Summable
    <2>2. \A x \in S : f[x] \in Int
      BY <1>10, <1>13, <1>14 DEF Summable
    <2> QED
      BY <2>1, <2>2 DEF Summable
  <1>16. S \ {end} = I /\ end \in S
    BY <1>12, <1>14
  <1>17. SumFunctionOnSet(f, S) = f[end] + SumFunctionOnSet(f, S \ {end})
    BY <1>15, <1>16, SumWithout
  <1>18. SumFunctionOnSet(f, I) \in Int
    BY <1>10, SumType
  <1>19. SumFunctionOnSet(f, S) = SumFunctionOnSet(f, I)
    BY <1>13, <1>16, <1>17, <1>18
  <1> QED
    BY <1>1, <1>7, <1>10, <1>15, <1>19 DEF S

(* The values of a block's transfers are numbers. *)
LEMMA BlockValues ==
  ASSUME chain \in [Block -> 1..4], NEW b \in 0..MaxBlock, NEW e \in BlockTransfers(b)
  PROVE  e.value \in Int
  <1> DEFINE p == OwnTransfers(TrueBlock(b), b)
             E == EthTransferOf({b}, 0..2)
  <1>1. p \in Seq(E)
    <2>1. "a" \in Holders
      BY DEF Holders
    <2> QED
      BY <2>1, ChangeOfBlock
  <1>2. e \in NumberedIn(p) \/ e = EndOf(b)
    BY DEF BlockTransfers
  <1> HIDE DEF p
  <1>3. CASE e = EndOf(b)
    BY <1>3 DEF EndOf, Transfer
  <1>4. CASE e \in NumberedIn(p)
    <2>1. PICK k \in 1..Len(p) : e = Numbered(p, k)
      BY <1>4 DEF NumberedIn
    <2>2. e.value = p[k].value
      BY <1>1, <2>1, NumberedKeeps
    <2>3. p[k] \in E
      BY <1>1
    <2> QED
      BY <2>2, <2>3 DEF EthTransferOf
  <1> QED
    BY <1>2, <1>3, <1>4

(* The change of a block in the table *)
LEMMA EthChangeAt ==
  ASSUME NEW c \in 1..4, NEW b \in 0..MaxBlock, NEW account \in Holders
  PROVE  EthChanges[c][b][account] = EthChange(c, b, account)
  <1>1. c \in DOMAIN EthContents /\ account \in {"a", "b", "c", "m"}
    BY DEF EthContents, Holders
  <1> QED
    BY <1>1 DEF EthChanges

(* The exported transfers explain the balance of an account. *)
LEMMA ExportedExplains ==
  ASSUME Types, Heights, BlocksExported, mode = "eth", NEW account \in Holders
  PROVE  Change(Exported, account) =
           SumFunction([b \in 0..saved.block |-> EthChanges[IF b = 0 THEN 1 ELSE chain[b]][b][account]])
  <1> DEFINE n == saved.block
             S == Exported
             M == [b \in 0..n |-> EthChanges[IF b = 0 THEN 1 ELSE chain[b]][b][account]]
             f == [e \in S |-> e.value]
             g == [e \in S |-> Gain(e, account)]
             at == [e \in S |-> e.blockNumber]
             X == {e \in S : e.to = account}
             Y == {e \in S : e.from = account}
  <1>1. /\ n \in Int /\ -1 <= n /\ n <= MaxBlock /\ \A x \in S : x.blockNumber \in 0..n
        /\ \A b \in 0..n : {e \in S : e.blockNumber = b} = BlockTransfers(b)
    BY ExportedByBlock
  <1>2. chain \in [Block -> 1..4] /\ MaxBlock \in Nat
    BY EvmWorkersAssumption DEF Types
  <1>3. Change(Exported, account) = SumFunctionOnSet(f, X) - SumFunctionOnSet(f, Y)
    BY DEF Change
  <1>4. SumFunction(M) = SumFunctionOnSet(M, 0..n)
    BY DEF SumFunction
  <1>5. ASSUME NEW b \in 0..n
        PROVE  /\ Summable(g, BlockTransfers(b)) /\ M[b] = SumFunctionOnSet(g, BlockTransfers(b))
               /\ \A e \in BlockTransfers(b) : e.value \in Int
    <2>1. b \in 0..MaxBlock
      BY <1>1, <1>2
    <2>2. BlockTransfers(b) \subseteq S
      BY <1>1
    <2>3. \A x \in BlockTransfers(b) : g[x] = Gain(x, account)
      BY <2>2
    <2>4. M[b] = EthChange(Content(b), b, account)
      <3>1. Content(b) \in 1..4 /\ DOMAIN EthContents = 1..4 /\ account \in {"a", "b", "c", "m"}
        <4>1. b # 0 => b \in Block
          BY <1>2, <2>1 DEF Block
        <4>2. Content(b) \in 1..4
          BY <1>2, <4>1 DEF Content
        <4> QED
          BY <4>2 DEF EthContents, Holders
      <3>2. M[b] = EthChanges[Content(b)][b][account]
        BY DEF Content
      <3> DEFINE c == Content(b)
      <3> HIDE DEF c, M
      <3>3. EthChanges[c][b][account] = EthChange(c, b, account)
        BY <2>1, <3>1, EthChangeAt DEF c
      <3> QED
        BY <3>2, <3>3 DEF c
    <2> HIDE DEF g, M
    <2>5. /\ Summable(g, BlockTransfers(b))
          /\ SumFunctionOnSet(g, BlockTransfers(b)) = EthChange(Content(b), b, account)
      BY <1>2, <2>1, <2>3, BlockGain
    <2>6. \A e \in BlockTransfers(b) : e.value \in Int
      BY <1>2, <2>1, BlockValues
    <2> QED
      BY <2>4, <2>5, <2>6
  <1>6. Summable(f, S)
    <2> DEFINE R == {BlockTransfers(b) : b \in 0..n}
    <2>1. IsFiniteSet(0..n)
      BY <1>1, FS_Interval
    <2>2. IsFiniteSet(R)
      <3> DEFINE F == [b \in 0..n |-> BlockTransfers(b)]
      <3>1. F \in Surjection(0..n, R)
        <4>1. F \in [0..n -> R] /\ \A r \in R : \E b \in 0..n : F[b] = r
          OBVIOUS
        <4> HIDE DEF F, R
        <4> QED
          BY <4>1 DEF Surjection
      <3> HIDE DEF F, R
      <3> QED
        BY <2>1, <3>1, FS_Surjection
    <2>3. \A r \in R : IsFiniteSet(r)
      <3>1. \A b \in 0..n : IsFiniteSet(BlockTransfers(b))
        BY <1>5 DEF Summable
      <3> QED
        BY <3>1
    <2>4. \A e \in S : e \in UNION R
      <3> TAKE e \in S
      <3>1. e.blockNumber \in 0..n /\ e \in BlockTransfers(e.blockNumber)
        BY <1>1
      <3>2. BlockTransfers(e.blockNumber) \in R
        BY <3>1
      <3> HIDE DEF R, S
      <3> QED
        BY <3>1, <3>2
    <2> HIDE DEF R
    <2>5. IsFiniteSet(UNION R)
      BY <2>2, <2>3, FS_UNION
    <2>6. IsFiniteSet(S)
      <3> HIDE DEF S
      <3> QED
        BY <2>4, <2>5, FS_Subset
    <2>7. \A e \in S : f[e] \in Int
      <3> TAKE e \in S
      <3>1. e.blockNumber \in 0..n /\ e \in BlockTransfers(e.blockNumber)
        BY <1>1
      <3> QED
        BY <1>5, <3>1
    <2> HIDE DEF f, S
    <2> QED
      BY <2>6, <2>7 DEF Summable
  <1>7. IsDifference(g, f, S, X, Y)
    <2>1. \A e \in S : g[e] = Term(f, X, e) - Term(f, Y, e)
      BY DEF Term, Gain
    <2> HIDE DEF g, f
    <2> QED
      BY <2>1 DEF IsDifference
  <1>8. \A b \in 0..n : AtBlock(S, at, b) = BlockTransfers(b) /\ AtBlock({}, at, b) = {}
    <2>1. \A b \in 0..n : AtBlock(S, at, b) = {e \in S : e.blockNumber = b}
      BY DEF AtBlock
    <2> HIDE DEF at
    <2> QED
      BY <1>1, <2>1 DEF AtBlock
  <1>9. \A x \in S \cup {} : at[x] \in 0..n
    BY <1>1
  <1> HIDE DEF f, g, X, Y, S, M, at
  <1>10. Summable(g, S) /\ SumFunctionOnSet(g, S) = SumFunctionOnSet(f, X) - SumFunctionOnSet(f, Y)
    <2>1. AddsUpTo(g, f, S, X, Y)
      BY <1>6, <1>7, SumOfDifference
    <2> QED
      BY <2>1 DEF AddsUpTo
  <1>11. Summable(g, {}) /\ SumFunctionOnSet(g, {}) = 0
    <2>1. SumFunctionOnSet(g, {}) = 0
      BY <1>10, SumType
    <2> QED
      BY <2>1, FS_EmptySet DEF Summable
  <1>12. SumFunctionOnSet(g, S) \in Int
    BY <1>10, SumType
  <1>13. DifferInBlocks(g, S, {}, at, 0, n, M)
    <2>1. \A b \in 0..n : M[b] = SumFunctionOnSet(g, AtBlock(S, at, b)) - SumFunctionOnSet(g, AtBlock({}, at, b))
      <3> TAKE b \in 0..n
      <3>1. M[b] = SumFunctionOnSet(g, AtBlock(S, at, b)) /\ M[b] \in Int
        <4>1. Summable(g, BlockTransfers(b)) /\ M[b] = SumFunctionOnSet(g, BlockTransfers(b))
          BY <1>5
        <4>2. SumFunctionOnSet(g, BlockTransfers(b)) \in Int
          BY <4>1, SumType
        <4> QED
          BY <1>8, <4>1, <4>2
      <3>2. SumFunctionOnSet(g, AtBlock({}, at, b)) = 0
        BY <1>8, <1>11
      <3> QED
        BY <3>1, <3>2
    <2> QED
      BY <1>9, <2>1 DEF DifferInBlocks
  <1>14. SumFunctionOnSet(g, S) - SumFunctionOnSet(g, {}) = SumFunctionOnSet(M, 0..n)
    <2>1. 0 - 1 <= n /\ 0 \in Int
      BY <1>1
    <2> DEFINE Y0 == {}
    <2>2. Summable(g, Y0) /\ DifferInBlocks(g, S, Y0, at, 0, n, M)
      BY <1>11, <1>13
    <2> HIDE DEF Y0, n
    <2>3. Differ(g, S, Y0, 0, n, M)
      BY ONLY <1>1, <1>10, <2>1, <2>2, SumByBlock
    <2> QED
      BY <2>3 DEF Differ, Y0
  <1>15. Change(Exported, account) = SumFunction(M)
    BY <1>3, <1>4, <1>10, <1>11, <1>12, <1>14
  <1> QED
    BY <1>15 DEF M, n

(* EthBalancesAgree: the transfers in Kafka of the blocks up to the saved      *)
(* position add up, for every account, to what these blocks change on it,      *)
(* genesis and the DAO fork included, for every chain of the contents in      *)
(* EvmWorkers, every batch size, and whatever the node left out of an answer   *)
(* or was exported twice.                                                    *)
THEOREM TransfersExplainEthBalances == Spec => []EthBalancesAgree
  <1>1. ASSUME Types, Heights, BlocksExported PROVE EthBalancesAgree
    BY <1>1, ExportedExplains DEF EthBalancesAgree, Holders
  <1> QED
    BY <1>1, BlocksAreExported, PTL

=============================================================================
