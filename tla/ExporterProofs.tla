--------------------------- MODULE ExporterProofs ---------------------------
(***************************************************************************)
(* Proofs about Exporter for every set of processes, every chain, every    *)
(* interval and confirmation depth and every number of interruptions.      *)
(***************************************************************************)
EXTENDS Exporter, TLAPS

(* The interval calculator (next_interval_calculator.ts) yields integers,  *)
(* and an interval never reaches past the confirmed block.                 *)
LEMMA IntervalFacts ==
  ASSUME NEW lastExported \in Int, NEW lastConfirmed \in Int
  PROVE  LET iv == nextIntervalCalculator(lastExported, BlockInterval, lastConfirmed)
         IN /\ iv.fromBlock = lastExported + 1
            /\ iv.fromBlock \in Int
            /\ iv.toBlock \in Int
            /\ iv.toBlock <= lastConfirmed
  BY ConstantsAssumption DEF nextIntervalCalculator, Minimum

(* Where work() leaves lastExportedBlock: at toBlock, or where it was when *)
(* UTXO fetched no block.                                                  *)
LEMMA AdvanceFacts ==
  ASSUME NEW lastExported \in Int, NEW iv, iv.fromBlock \in Int, iv.toBlock \in Int,
         iv.fromBlock = lastExported + 1
  PROVE  /\ AdvancePosition(lastExported, iv) \in Int
         /\ \/ AdvancePosition(lastExported, iv) = iv.toBlock
            \/ /\ AdvancePosition(lastExported, iv) = lastExported
               /\ iv.toBlock < iv.fromBlock
  BY DEF AdvancePosition

(* WorkerContext never lifts lastConfirmedBlock above the larger of         *)
(* what it was and what the node confirms.                                  *)
LEMMA ContextFacts ==
  ASSUME NEW lastExported \in Int, NEW lastConfirmed \in Int, NEW new \in Int
  PROVE  WorkerContext(lastExported, lastConfirmed, new).confirmed
           \in {lastConfirmed, new}
  BY DEF WorkerContext, analyzeWorkerContext, equalityContext, NeedsNode

(* Fetched events are events of the chain. *)
LEMMA EventsInType ==
  ASSUME TypeOK, NEW from \in Int, NEW to \in Int
  PROVE  EventsIn(from, to) \in SUBSET Event
  <1> SUFFICES ASSUME NEW b \in EventBlocks
               PROVE  [block |-> b, version |-> fork[b]] \in Event
    BY DEF EventsIn
  <1>1. b \in BlockHeight
    BY ConstantsAssumption DEF BlockHeight
  <1>2. fork[b] \in 0..MaxVersion
    BY <1>1 DEF TypeOK
  <1> QED
    BY <1>1, <1>2 DEF Event

(* A process that ends leaves well-typed variables. *)
LEMMA ExitType ==
  ASSUME TypeOK, NEW i \in Instance, Exit(i)
  PROVE  /\ pc' \in [Instance -> PC]
         /\ shouldWork' \in [Instance -> BOOLEAN]
         /\ confirmed' \in [Instance -> Int]
         /\ exported' \in [Instance -> Int]
         /\ batch' \in [Instance -> SUBSET Event]
         /\ txn' \in [Instance -> SUBSET Event]
  BY DEF Exit, TypeOK, PC

(* Every step of the chain or of a process keeps the types. *)
LEMMA TypeInductive == TypeOK /\ [Next]_vars => TypeOK'
  <1> SUFFICES ASSUME TypeOK, [Next]_vars PROVE TypeOK'
    OBVIOUS
  <1> USE ConstantsAssumption
  <1>1. CASE GrowChain
    BY <1>1 DEF GrowChain, TypeOK, BlockHeight, processVars, workerVars
  <1>2. ASSUME NEW depth \in 1..MaxReorg, Reorganise(depth) PROVE TypeOK'
    <2>1. fork' \in [BlockHeight -> 0..MaxVersion]
      BY <1>2 DEF Reorganise, TypeOK
    <2> QED
      BY <1>2, <2>1 DEF Reorganise, TypeOK, processVars, workerVars
  <1>3. ASSUME NEW i \in Instance, Start(i) PROVE TypeOK'
    BY <1>3 DEF Start, TypeOK, PC, chainVars, workerVars
  <1>4. ASSUME NEW i \in Instance, Step(i) PROVE TypeOK'
    <2> USE DEF chainVars, workerVars
    <2>1. CASE Connect(i)
      BY <2>1 DEF Connect, TypeOK, PC
    <2>2. CASE InitWorker(i)
      BY <2>2 DEF InitWorker, TypeOK, PC, ReportedHead, BlockHeight
    <2>3. CASE GetLastPosition(i)
      BY <2>3 DEF GetLastPosition, TypeOK, PC, initPosition
    <2>4. CASE PositionExists(i)
      BY <2>4 DEF PositionExists, TypeOK, PC
    <2>5. CASE SetData(i)
      BY <2>5 DEF SetData, TypeOK, PC
    <2>6. CASE Mkdirp(i)
      BY <2>6 DEF Mkdirp, TypeOK, PC
    <2>7. CASE Iterate(i)
      BY <2>7 DEF Iterate, TypeOK, PC
    <2>8. CASE Analyze(i)
      <3>1. PICK h \in ReportedHead :
              LET result == WorkerContext(exported[i], confirmed[i], h - Confirmations)
              IN /\ confirmed' = [confirmed EXCEPT ![i] = result.confirmed]
                 /\ pc' = [pc EXCEPT ![i] = IF result.context = NO_WORK_SLEEP THEN "exists"
                                                                              ELSE "fetch"]
        BY <2>8 DEF Analyze, AnalyzeAt
      <3>2. exported[i] \in Int /\ confirmed[i] \in Int /\ h - Confirmations \in Int
        BY DEF TypeOK, ReportedHead, BlockHeight
      <3>3. WorkerContext(exported[i], confirmed[i], h - Confirmations).confirmed
              \in {confirmed[i], h - Confirmations}
        BY <3>2, ContextFacts, Zenon
      <3>4. WorkerContext(exported[i], confirmed[i], h - Confirmations).confirmed \in Int
        BY <3>2, <3>3, Zenon
      <3> QED
        BY <2>8, <3>1, <3>4 DEF Analyze, AnalyzeAt, TypeOK, PC
    <2>9. CASE Fetch(i)
      <3>1. /\ Interval(i).fromBlock \in Int /\ Interval(i).toBlock \in Int
            /\ Interval(i).fromBlock = exported[i] + 1
        BY IntervalFacts DEF Interval, TypeOK
      <3>2. AdvancePosition(exported[i], Interval(i)) \in Int
        BY <3>1, AdvanceFacts DEF TypeOK
      <3>3. EventsIn(Interval(i).fromBlock, Interval(i).toBlock) \in SUBSET Event
        BY <3>1, EventsInType
      <3> QED
        BY <2>9, <3>2, <3>3 DEF Fetch, TypeOK, PC
    <2>10. CASE EmptyIntervalThrows(i)
      BY <2>10, ExitType DEF EmptyIntervalThrows, TypeOK
    <2>11. CASE BeginTransaction(i)
      BY <2>11 DEF BeginTransaction, TypeOK, PC
    <2>12. CASE SendData(i)
      BY <2>12 DEF SendData, TypeOK, PC
    <2>13. CASE CommitTransaction(i)
      BY <2>13 DEF CommitTransaction, TypeOK, PC
    <2>14. CASE AbortTransaction(i)
      BY <2>14, ExitType DEF AbortTransaction, TypeOK
    <2>15. CASE Disconnect(i)
      BY <2>15, ExitType DEF Disconnect, TypeOK
    <2> QED
      BY <1>4, <2>1, <2>2, <2>3, <2>4, <2>5, <2>6, <2>7, <2>8, <2>9, <2>10, <2>11,
         <2>12, <2>13, <2>14, <2>15 DEF Step
  <1>5. ASSUME NEW i \in Instance, Disturb(i) PROVE TypeOK'
    <2> USE DEF chainVars, workerVars, Interrupt
    <2>1. CASE Crash(i)
      BY <2>1, ExitType DEF Crash, TypeOK
    <2>2. CASE Stop(i)
      <3>1. interruptions' \in 0..MaxInterruptions
        BY <2>2 DEF Stop, TypeOK
      <3>2. CASE shouldWork[i] /\ shouldWork' = [shouldWork EXCEPT ![i] = FALSE]
                 /\ UNCHANGED <<pc, workerVars, txn>>
        BY <2>2, <3>1, <3>2 DEF Stop, TypeOK
      <3>3. CASE Exit(i)
        BY <2>2, <3>1, <3>3, ExitType DEF Stop, TypeOK
      <3> QED
        BY <2>2, <3>2, <3>3 DEF Stop
    <2>3. CASE SendDataFails(i)
      BY <2>3 DEF SendDataFails, TypeOK, PC
    <2>4. CASE CommitTransactionFails(i)
      <3>1. Append(log, txn[i]) \in Seq(SUBSET Event)
        BY DEF TypeOK
      <3>2. /\ log' \in Seq(SUBSET Event)
            /\ txn' \in [Instance -> SUBSET Event]
        BY <2>4, <3>1 DEF CommitTransactionFails, TypeOK
      <3>3. /\ pc' = [pc EXCEPT ![i] = "abort"]
            /\ interruptions < MaxInterruptions /\ interruptions' = interruptions + 1
            /\ UNCHANGED <<chainVars, shouldWork, workerVars, position>>
        BY <2>4 DEF CommitTransactionFails
      <3> QED
        BY <3>2, <3>3 DEF TypeOK, PC
    <2> QED
      BY <1>5, <2>1, <2>2, <2>3, <2>4 DEF Disturb
  <1>6. CASE UNCHANGED vars
    BY <1>6 DEF vars, chainVars, processVars, workerVars, TypeOK
  <1> QED
    BY <1>1, <1>2, <1>3, <1>4, <1>5, <1>6 DEF Next, Chain

(* Every variable keeps the kind of value its code counterpart holds, for  *)
(* every instance of the constants.                                        *)
THEOREM TypeCorrect == Spec => []TypeOK
  <1>1. Init => TypeOK
    BY ConstantsAssumption DEF Init, TypeOK, PC, BlockHeight
  <1> QED
    BY <1>1, TypeInductive, PTL DEF Spec

-----------------------------------------------------------------------------
(* The processes other than i keep their state. *)
OthersSame(i) ==
  \A j \in Instance \ {i} :
    /\ pc'[j] = pc[j]
    /\ confirmed'[j] = confirmed[j]
    /\ exported'[j] = exported[j]
    /\ batch'[j] = batch[j]
    /\ txn'[j] = txn[j]

(* A commit appends one transaction and keeps the earlier ones. *)
LEMMA LogGrows ==
  ASSUME TypeOK, NEW t \in SUBSET Event, log' = Append(log, t)
  PROVE  /\ Len(log) \in Nat
         /\ Len(log') = Len(log) + 1
         /\ \A k \in 1..Len(log) : log'[k] = log[k]
         /\ log'[Len(log) + 1] = t
  BY DEF TypeOK

(* What is delivered stays delivered, and a commit delivers its events. *)
LEMMA DeliveredGrows ==
  ASSUME TypeOK, NEW t \in SUBSET Event, log' = Append(log, t)
  PROVE  /\ \A k \in 1..Len(log), b \in EventBlocks : DeliveredBy(k, b) => DeliveredBy(k, b)'
         /\ \A b \in EventBlocks : Delivered(b) => Delivered(b)'
         /\ \A e \in t : Delivered(e.block)'
  <1> USE LogGrows
  <1>1. \A k \in 1..Len(log), b \in EventBlocks : DeliveredBy(k, b) => DeliveredBy(k, b)'
    BY DEF DeliveredBy
  <1>2. \A b \in EventBlocks : Delivered(b) => Delivered(b)'
    BY DEF Delivered, DeliveredBy
  <1>3. \A e \in t : Delivered(e.block)'
    BY DEF Delivered, DeliveredBy
  <1> QED
    BY <1>1, <1>2, <1>3

(* A step of process i that leaves Kafka and the chain alone has to answer *)
(* for the position it saves and for process i only.                       *)
LEMMA ProcessFrame ==
  ASSUME IInv, NEW i \in Instance, UNCHANGED <<chainVars, log>>, OthersSame(i),
         SavedPositionCovered', ProcessInv(i)'
  PROVE  IInv'
  <1>1. \A n, b : DeliveredBy(n, b)' <=> DeliveredBy(n, b)
    BY DEF DeliveredBy
  <1>2. \A b : Delivered(b)' <=> Delivered(b)
    BY <1>1 DEF Delivered
  <1>3. CommittedWithoutGaps'
    BY <1>1 DEF IInv, CommittedWithoutGaps
  <1>4. ExportedIsFinal'
    BY DEF IInv, ExportedIsFinal, chainVars
  <1>5. ASSUME NEW j \in Instance \ {i} PROVE ProcessInv(j)'
    BY <1>2, <1>5 DEF IInv, ProcessInv, OthersSame, CoveredUpTo, chainVars
  <1> QED
    BY <1>3, <1>4, <1>5 DEF IInv

(* A commit of the whole batch keeps the invariant, whether or not the     *)
(* process hears of it.                                                    *)
LEMMA CommitFrame ==
  ASSUME TypeOK, IInv, NEW i \in Instance, pc[i] = "commit",
         log' = Append(log, txn[i]),
         UNCHANGED <<chainVars, position>>, OthersSame(i), ProcessInv(i)'
  PROVE  IInv'
  <1>1. txn[i] \in SUBSET Event /\ txn[i] = batch[i]
    BY DEF TypeOK, IInv, ProcessInv
  <1>2. \A b \in EventBlocks : Delivered(b) => Delivered(b)'
    BY <1>1, DeliveredGrows
  <1>3. SavedPositionCovered'
    BY <1>2 DEF IInv, SavedPositionCovered, CoveredUpTo
  <1>4. ExportedIsFinal'
    BY <1>1, LogGrows DEF IInv, ProcessInv, ExportedIsFinal, chainVars
  <1>5. ASSUME NEW j \in Instance \ {i} PROVE ProcessInv(j)'
    BY <1>2, <1>5 DEF IInv, ProcessInv, OthersSame, CoveredUpTo, chainVars
  <1>6. CommittedWithoutGaps'
    <2> SUFFICES ASSUME NEW k \in 1..(Len(log) + 1), NEW e \in log'[k],
                        NEW b \in EventBlocks, StartBlock < b, b < e.block
                 PROVE  DeliveredBy(k, b)'
      BY <1>1, LogGrows DEF CommittedWithoutGaps
    <2>1. CASE k \in 1..Len(log)
      BY <2>1, <1>1, LogGrows, DeliveredGrows DEF IInv, CommittedWithoutGaps
    <2>2. CASE k = Len(log) + 1
      <3>1. e \in batch[i] /\ e \in Event
        BY <2>2, <1>1, LogGrows
      <3>2. b \in Int /\ e.block \in Int /\ exported[i] \in Int
        BY <3>1, ConstantsAssumption DEF Event, BlockHeight, TypeOK
      <3>3. b <= exported[i]
        BY <3>1, <3>2 DEF IInv, ProcessInv
      <3>4. Delivered(b) \/ \E f \in batch[i] : f.block = b
        BY <3>3 DEF IInv, ProcessInv
      <3>5. Delivered(b)'
        BY <3>4, <1>1, DeliveredGrows
      <3> QED
        BY <3>5, <2>2, <1>1, LogGrows DEF Delivered
    <2> QED
      BY <2>1, <2>2, <1>1, LogGrows
  <1> QED
    BY <1>3, <1>4, <1>5, <1>6 DEF IInv

(* A process that ends knows nothing and owes nothing. *)
LEMMA ExitFrame ==
  ASSUME TypeOK, IInv, NEW i \in Instance, Exit(i), UNCHANGED <<chainVars, log, position>>
  PROVE  IInv'
  <1>1. OthersSame(i)
    BY DEF Exit, OthersSame, TypeOK
  <1>2. ProcessInv(i)'
    BY DEF Exit, ProcessInv, TypeOK
  <1>3. SavedPositionCovered'
    BY DEF IInv, SavedPositionCovered, CoveredUpTo, Delivered, DeliveredBy
  <1> QED
    BY <1>1, <1>2, <1>3, ProcessFrame

(* The chain grows, or replaces blocks that are not confirmed yet. *)
LEMMA ChainFrame ==
  ASSUME TypeOK, IInv, Chain
  PROVE  IInv'
  <1> USE ConstantsAssumption, ReorgAssumption
  <1>1. UNCHANGED <<processVars, log, position>> /\ head \in Int /\ head' \in Int /\ head <= head'
    BY DEF Chain, GrowChain, Reorganise, TypeOK, BlockHeight
  <1>2. \A b \in BlockHeight : b <= head - Confirmations => fork'[b] = fork[b]
    <2>1. CASE GrowChain
      BY <2>1 DEF GrowChain
    <2>2. ASSUME NEW depth \in 1..MaxReorg, Reorganise(depth)
          PROVE  \A b \in BlockHeight : b <= head - Confirmations => fork'[b] = fork[b]
      BY <2>2 DEF Reorganise, TypeOK, BlockHeight
    <2> QED
      BY <2>1, <2>2 DEF Chain
  <1>3. \A n, b : DeliveredBy(n, b)' <=> DeliveredBy(n, b)
    BY <1>1 DEF DeliveredBy
  <1>4. \A b : Delivered(b)' <=> Delivered(b)
    BY <1>1, <1>3 DEF Delivered
  <1>5. SavedPositionCovered' /\ CommittedWithoutGaps'
    BY <1>1, <1>3, <1>4 DEF IInv, SavedPositionCovered, CoveredUpTo, CommittedWithoutGaps
  <1>6. \A e \in Event : e.block <= head - Confirmations =>
          e.block <= head' - Confirmations /\ fork'[e.block] = fork[e.block]
    BY <1>1, <1>2 DEF Event, BlockHeight
  <1>7. ExportedIsFinal'
    <2> SUFFICES ASSUME NEW k \in 1..Len(log), NEW e \in log[k]
                 PROVE  e.block <= head' - Confirmations /\ fork'[e.block] = e.version
      BY <1>1 DEF ExportedIsFinal
    <2>1. e \in Event
      BY DEF TypeOK
    <2>2. e.block <= head - Confirmations /\ fork[e.block] = e.version
      BY DEF IInv, ExportedIsFinal
    <2> QED
      BY <2>1, <2>2, <1>6
  <1>8. ASSUME NEW j \in Instance PROVE ProcessInv(j)'
    <2>1. UNCHANGED <<pc, confirmed, exported, batch, txn>>
      BY <1>1 DEF processVars, workerVars
    <2>2. \A e \in batch[j] : e \in Event
      BY DEF TypeOK
    <2>3. confirmed[j] \in Int
      BY DEF TypeOK
    <2> QED
      BY <2>1, <2>2, <2>3, <1>1, <1>4, <1>6 DEF IInv, ProcessInv, CoveredUpTo
  <1> QED
    BY <1>5, <1>7, <1>8 DEF IInv

(* A step of process i during which its neighbours, Kafka, ZooKeeper and   *)
(* the chain stay as they are.                                             *)
LEMMA LocalFrame ==
  ASSUME IInv, NEW i \in Instance, UNCHANGED <<chainVars, log, position>>,
         OthersSame(i), ProcessInv(i)'
  PROVE  IInv'
  <1>1. SavedPositionCovered'
    BY DEF IInv, SavedPositionCovered, CoveredUpTo, Delivered, DeliveredBy
  <1> QED
    BY <1>1, ProcessFrame

(* The step that takes a batch from the node: the batch is what is missing *)
(* up to the new lastExportedBlock, and its blocks are confirmed.          *)
LEMMA FetchStep ==
  ASSUME TypeOK, IInv, NEW i \in Instance, Fetch(i)
  PROVE  IInv'
  <1> USE DEF chainVars
  <1> DEFINE iv == Interval(i)
             events == EventsIn(iv.fromBlock, iv.toBlock)
             to == AdvancePosition(exported[i], iv)
  <1>1. /\ iv.fromBlock = exported[i] + 1 /\ iv.fromBlock \in Int
        /\ iv.toBlock \in Int /\ iv.toBlock <= confirmed[i]
    BY IntervalFacts DEF Interval, TypeOK
  <1>2. /\ to \in Int
        /\ to = iv.toBlock \/ (to = exported[i] /\ iv.toBlock < iv.fromBlock)
    <2>1. exported[i] \in Int
      BY DEF TypeOK
    <2> QED
      BY <2>1, <1>1, AdvanceFacts
  <1>3. /\ pc' = [pc EXCEPT ![i] = IF events = {} THEN "exists" ELSE "begin"]
        /\ exported' = [exported EXCEPT ![i] = to]
        /\ batch' = [batch EXCEPT ![i] = events]
        /\ UNCHANGED <<chainVars, confirmed, txn, log, position>>
        /\ pc[i] = "fetch"
    BY DEF Fetch, TypeOK
  <1>4. OthersSame(i)
    BY <1>3 DEF OthersSame, TypeOK
  <1>5. CoveredUpTo(exported[i]) /\ confirmed[i] <= head - Confirmations
    BY <1>3 DEF IInv, ProcessInv
  <1>6. \A b \in EventBlocks : StartBlock < b /\ b <= to =>
          Delivered(b) \/ \E e \in events : e.block = b
    <2> SUFFICES ASSUME NEW b \in EventBlocks, StartBlock < b, b <= to, ~Delivered(b)
                 PROVE  \E e \in events : e.block = b
      OBVIOUS
    <2>1. b \in Int
      BY ConstantsAssumption
    <2>2. exported[i] < b
      BY <2>1, <1>5 DEF CoveredUpTo, TypeOK
    <2>3. iv.fromBlock <= b /\ b <= iv.toBlock
      BY <2>1, <2>2, <1>1, <1>2 DEF TypeOK
    <2>4. [block |-> b, version |-> fork[b]] \in events
      BY <2>3 DEF EventsIn
    <2> QED
      BY <2>4
  <1>7. \A e \in events : /\ e.block <= to
                          /\ e.block <= head - Confirmations
                          /\ fork[e.block] = e.version
    <2> SUFFICES ASSUME NEW b \in EventBlocks, iv.fromBlock <= b, b <= iv.toBlock
                 PROVE  b <= to /\ b <= head - Confirmations
      BY DEF EventsIn
    <2>1. b \in Int /\ head - Confirmations \in Int /\ confirmed[i] \in Int
      BY ConstantsAssumption DEF TypeOK, BlockHeight
    <2> QED
      BY <2>1, <1>1, <1>2, <1>5
  <1>8. ProcessInv(i)'
    <2>1. /\ exported'[i] = to /\ batch'[i] = events /\ confirmed'[i] = confirmed[i]
          /\ pc'[i] = IF events = {} THEN "exists" ELSE "begin"
          /\ head' = head /\ fork' = fork
      BY <1>3 DEF TypeOK
    <2>2. \A b : Delivered(b)' <=> Delivered(b)
      BY <1>3 DEF Delivered, DeliveredBy
    <2>3. pc'[i] = "exists" => CoveredUpTo(exported[i])'
      BY <2>1, <2>2, <1>6 DEF CoveredUpTo
    <2> HIDE DEF to, events, iv
    <2> QED
      BY <2>1, <2>2, <2>3, <1>5, <1>6, <1>7 DEF ProcessInv
  <1> QED
    BY <1>3, <1>4, <1>8, LocalFrame

(* What a process does by itself keeps the invariant: one step per action. *)
LEMMA StepInductive ==
  ASSUME TypeOK, IInv, NEW i \in Instance, Step(i)
  PROVE  IInv'
  <1> USE ConstantsAssumption DEF chainVars, workerVars
  <1>1. CASE Connect(i)
    <2>1. OthersSame(i) /\ ProcessInv(i)'
      BY <1>1 DEF Connect, OthersSame, TypeOK, IInv, ProcessInv
    <2> QED
      BY <1>1, <2>1, LocalFrame DEF Connect
  <1>2. CASE InitWorker(i)
    <2>1. PICK h \in ReportedHead : confirmed' = [confirmed EXCEPT ![i] = h - Confirmations]
      BY <1>2 DEF InitWorker
    <2>2. h - Confirmations <= head - Confirmations
      BY DEF ReportedHead, TypeOK, BlockHeight
    <2>3. OthersSame(i)
      BY <1>2, <2>1 DEF InitWorker, OthersSame, TypeOK
    <2>4. ProcessInv(i)'
      BY <1>2, <2>1, <2>2 DEF InitWorker, TypeOK, IInv, ProcessInv
    <2> QED
      BY <1>2, <2>3, <2>4, LocalFrame DEF InitWorker
  <1>3. CASE GetLastPosition(i)
    <2>1. PICK recovered \in {position, NoPosition} :
            exported' = [exported EXCEPT ![i] = initPosition(recovered)]
      BY <1>3 DEF GetLastPosition
    <2>2. CoveredUpTo(initPosition(recovered))
      BY DEF IInv, SavedPositionCovered, CoveredUpTo, initPosition
    <2>3. OthersSame(i)
      BY <1>3, <2>1 DEF GetLastPosition, OthersSame, TypeOK
    <2>4. ProcessInv(i)'
      <3>1. /\ pc[i] = "getLastPosition" /\ pc'[i] = "exists"
            /\ exported'[i] = initPosition(recovered)
            /\ batch'[i] = batch[i] /\ confirmed'[i] = confirmed[i] /\ head' = head
        BY <1>3, <2>1 DEF GetLastPosition, TypeOK
      <3>2. batch[i] = {} /\ confirmed[i] <= head - Confirmations
        BY <3>1 DEF IInv, ProcessInv
      <3>3. CoveredUpTo(exported[i])'
        BY <1>3, <2>2, <3>1 DEF GetLastPosition, CoveredUpTo, Delivered, DeliveredBy
      <3> QED
        BY <3>1, <3>2, <3>3 DEF ProcessInv
    <2> QED
      BY <1>3, <2>3, <2>4, LocalFrame DEF GetLastPosition
  <1>4. CASE PositionExists(i)
    <2>1. OthersSame(i) /\ ProcessInv(i)'
      BY <1>4 DEF PositionExists, OthersSame, TypeOK, IInv, ProcessInv, CoveredUpTo,
                  Delivered, DeliveredBy
    <2> QED
      BY <1>4, <2>1, LocalFrame DEF PositionExists
  <1>5. CASE SetData(i) \/ Mkdirp(i)
    <2>1. OthersSame(i) /\ UNCHANGED <<chainVars, log>>
      BY <1>5 DEF SetData, Mkdirp, OthersSame, TypeOK
    <2>2. CoveredUpTo(exported[i])
      BY <1>5 DEF SetData, Mkdirp, IInv, ProcessInv
    <2>3. position' = exported[i] \/ position' = position
      BY <1>5 DEF SetData, Mkdirp
    <2>4. SavedPositionCovered'
      BY <2>1, <2>2, <2>3 DEF IInv, SavedPositionCovered, CoveredUpTo, Delivered, DeliveredBy
    <2>5. ProcessInv(i)'
      <3>1. /\ pc[i] \in {"setData", "mkdirp"} /\ pc'[i] = "loop"
            /\ UNCHANGED <<head, fork, confirmed, exported, batch, log>>
        BY <1>5 DEF SetData, Mkdirp, TypeOK
      <3> QED
        BY <2>2, <3>1 DEF IInv, ProcessInv, CoveredUpTo, Delivered, DeliveredBy
    <2> QED
      BY <2>1, <2>4, <2>5, ProcessFrame
  <1>6. CASE Iterate(i)
    <2>1. OthersSame(i) /\ ProcessInv(i)'
      BY <1>6 DEF Iterate, OthersSame, TypeOK, IInv, ProcessInv, CoveredUpTo,
                  Delivered, DeliveredBy
    <2> QED
      BY <1>6, <2>1, LocalFrame DEF Iterate
  <1>7. CASE Analyze(i)
    <2>1. PICK h \in ReportedHead :
            LET result == WorkerContext(exported[i], confirmed[i], h - Confirmations)
            IN /\ confirmed' = [confirmed EXCEPT ![i] = result.confirmed]
               /\ pc' = [pc EXCEPT ![i] = IF result.context = NO_WORK_SLEEP THEN "exists"
                                                                            ELSE "fetch"]
      BY <1>7 DEF Analyze, AnalyzeAt
    <2> DEFINE new == WorkerContext(exported[i], confirmed[i], h - Confirmations).confirmed
    <2>2. exported[i] \in Int /\ confirmed[i] \in Int /\ h - Confirmations \in Int
      BY DEF TypeOK, ReportedHead, BlockHeight
    <2>3. new \in {confirmed[i], h - Confirmations}
      BY <2>2, ContextFacts, Zenon
    <2>4. h - Confirmations <= head - Confirmations
      BY DEF ReportedHead, TypeOK, BlockHeight
    <2>5. /\ pc[i] = "analyze" /\ confirmed'[i] = new /\ pc'[i] \in {"exists", "fetch"}
          /\ UNCHANGED <<head, fork, exported, batch, txn, log, position>>
      BY <1>7, <2>1 DEF Analyze, AnalyzeAt, TypeOK
    <2>6. OthersSame(i)
      BY <2>1, <2>5 DEF OthersSame, TypeOK
    <2>7. new <= head - Confirmations
      BY <2>3, <2>4, <2>5 DEF IInv, ProcessInv
    <2>8. ProcessInv(i)'
      <3> HIDE DEF new
      <3> QED
        BY <2>5, <2>7 DEF IInv, ProcessInv, CoveredUpTo, Delivered, DeliveredBy
    <2> QED
      BY <2>5, <2>6, <2>8, LocalFrame
  <1>8. CASE Fetch(i)
    BY <1>8, FetchStep
  <1>9. CASE EmptyIntervalThrows(i) \/ AbortTransaction(i) \/ Disconnect(i)
    BY <1>9, ExitFrame DEF EmptyIntervalThrows, AbortTransaction, Disconnect
  <1>10. CASE BeginTransaction(i) \/ SendData(i)
    <2>1. OthersSame(i)
      BY <1>10 DEF BeginTransaction, SendData, OthersSame, TypeOK
    <2>2. /\ pc[i] \in {"begin", "sendData"} /\ pc'[i] \in {"sendData", "commit"}
          /\ pc'[i] = "commit" => txn'[i] = batch[i]
          /\ UNCHANGED <<head, fork, confirmed, exported, batch, log, position>>
      BY <1>10 DEF BeginTransaction, SendData, TypeOK
    <2>3. ProcessInv(i)'
      BY <2>2 DEF IInv, ProcessInv, Delivered, DeliveredBy
    <2> QED
      BY <2>1, <2>2, <2>3, LocalFrame
  <1>11. CASE CommitTransaction(i)
    <2>1. /\ pc[i] = "commit" /\ log' = Append(log, txn[i])
          /\ pc'[i] = "exists" /\ batch'[i] = {} /\ UNCHANGED <<chainVars, exported, confirmed, position>>
      BY <1>11 DEF CommitTransaction, TypeOK
    <2>2. OthersSame(i)
      BY <1>11 DEF CommitTransaction, OthersSame, TypeOK
    <2>3. txn[i] \in SUBSET Event /\ txn[i] = batch[i]
      BY <2>1 DEF TypeOK, IInv, ProcessInv
    <2>4. CoveredUpTo(exported[i])'
      BY <2>1, <2>3, DeliveredGrows DEF IInv, ProcessInv, CoveredUpTo
    <2>5. ProcessInv(i)'
      BY <2>1, <2>4 DEF IInv, ProcessInv
    <2> QED
      BY <2>1, <2>2, <2>5, CommitFrame
  <1> QED
    BY <1>1, <1>2, <1>3, <1>4, <1>5, <1>6, <1>7, <1>8, <1>9, <1>10, <1>11 DEF Step

(* A crash, a stop signal, or a failure inside storeEvents keeps the        *)
(* invariant.                                                              *)
LEMMA DisturbInductive ==
  ASSUME TypeOK, IInv, NEW i \in Instance, Disturb(i)
  PROVE  IInv'
  <1> USE DEF chainVars, workerVars
  <1>1. CASE Crash(i)
    BY <1>1, ExitFrame DEF Crash
  <1>2. CASE Stop(i)
    <2>1. CASE Exit(i)
      BY <1>2, <2>1, ExitFrame DEF Stop
    <2>2. CASE UNCHANGED <<pc, workerVars, txn>>
      <3>1. OthersSame(i)
        BY <2>2 DEF OthersSame
      <3>2. ProcessInv(i)'
        BY <1>2, <2>2 DEF Stop, IInv, ProcessInv, CoveredUpTo, Delivered, DeliveredBy
      <3> QED
        BY <1>2, <3>1, <3>2, LocalFrame DEF Stop
    <2> QED
      BY <1>2, <2>1, <2>2 DEF Stop
  <1>3. CASE SendDataFails(i)
    <2>1. OthersSame(i) /\ ProcessInv(i)'
      BY <1>3 DEF SendDataFails, OthersSame, TypeOK, IInv, ProcessInv
    <2> QED
      BY <1>3, <2>1, LocalFrame DEF SendDataFails
  <1>4. CASE CommitTransactionFails(i)
    <2>1. /\ pc[i] = "commit" /\ pc' = [pc EXCEPT ![i] = "abort"]
          /\ UNCHANGED <<chainVars, workerVars, position>>
      BY <1>4 DEF CommitTransactionFails
    <2>2. ProcessInv(i)'
      BY <2>1 DEF TypeOK, IInv, ProcessInv
    <2>3. OthersSame(i)
      BY <1>4, <2>1 DEF CommitTransactionFails, OthersSame, TypeOK
    <2>4. CASE log' = Append(log, txn[i])
      BY <2>1, <2>2, <2>3, <2>4, CommitFrame
    <2>5. CASE UNCHANGED log
      BY <2>1, <2>2, <2>3, <2>5, LocalFrame
    <2> QED
      BY <1>4, <2>4, <2>5 DEF CommitTransactionFails
  <1> QED
    BY <1>1, <1>2, <1>3, <1>4 DEF Disturb

(* The invariant is inductive relative to the types. *)
LEMMA InvInductive == TypeOK /\ IInv /\ [Next]_vars => IInv'
  <1> SUFFICES ASSUME TypeOK, IInv, [Next]_vars PROVE IInv'
    OBVIOUS
  <1>1. CASE Chain
    BY <1>1, ChainFrame
  <1>2. ASSUME NEW i \in Instance, Start(i) PROVE IInv'
    <2>1. OthersSame(i) /\ ProcessInv(i)'
      BY <1>2 DEF Start, OthersSame, TypeOK, IInv, ProcessInv, workerVars, chainVars
    <2> QED
      BY <1>2, <2>1, LocalFrame DEF Start
  <1>3. ASSUME NEW i \in Instance, Step(i) PROVE IInv'
    BY <1>3, StepInductive
  <1>4. ASSUME NEW i \in Instance, Disturb(i) PROVE IInv'
    BY <1>4, DisturbInductive
  <1>5. CASE UNCHANGED vars
    BY <1>5 DEF vars, chainVars, processVars, workerVars, IInv, SavedPositionCovered,
                CommittedWithoutGaps, ExportedIsFinal, ProcessInv, CoveredUpTo,
                Delivered, DeliveredBy
  <1> QED
    BY <1>1, <1>2, <1>3, <1>4, <1>5 DEF Next

(* A first start, with an empty topic and no znode, satisfies it. *)
LEMMA InvInitially == Init => IInv
  BY ConstantsAssumption
  DEF Init, IInv, SavedPositionCovered, CommittedWithoutGaps, ExportedIsFinal, ProcessInv

(* What ties the parts of the exporter together in every reachable state,  *)
(* for any number of processes: the saved position, the open transactions  *)
(* and each process's position and batch account for the same blocks, so   *)
(* that no step of one process can make what another one has in hand       *)
(* untrue.                                                                 *)
THEOREM InvAlways == Spec => [](TypeOK /\ IInv)
  <1>1. Init => TypeOK
    BY ConstantsAssumption DEF Init, TypeOK, PC, BlockHeight
  <1> QED
    BY <1>1, InvInitially, TypeInductive, InvInductive, PTL DEF Spec

(* At-least-once: whatever number of exporter processes run, fail and      *)
(* restart, the saved position never claims an event block that is not     *)
(* committed in Kafka.                                                     *)
THEOREM NoLoss == Spec => []SavedPositionCovered
  <1>1. IInv => SavedPositionCovered
    BY DEF IInv
  <1> QED
    BY <1>1, InvAlways, PTL

(* In order: an event block is committed only after, or together with, all *)
(* event blocks before it.                                                 *)
THEOREM NoGaps == Spec => []CommittedWithoutGaps
  <1>1. IInv => CommittedWithoutGaps
    BY DEF IInv
  <1> QED
    BY <1>1, InvAlways, PTL

(* Final: if the chain never replaces a block CONFIRMATIONS deep, what has *)
(* been exported is what the chain holds for good.                         *)
THEOREM Finality == Spec => []ExportedIsFinal
  <1>1. IInv => ExportedIsFinal
    BY DEF IInv
  <1> QED
    BY <1>1, InvAlways, PTL

-----------------------------------------------------------------------------
(* What a step can do to the two places that outlive a process: nothing,   *)
(* the commit of a whole batch, or the save of a position.                 *)
LEMMA DurableEffect ==
  ASSUME TypeOK, IInv, [Next]_vars
  PROVE  \/ UNCHANGED <<log, position>>
         \/ /\ UNCHANGED position
            /\ \E i \in Instance : pc[i] = "commit" /\ txn[i] = batch[i]
                                   /\ log' = Append(log, batch[i])
         \/ /\ UNCHANGED log
            /\ position' \in Int
  <1>1. CASE Chain \/ UNCHANGED vars
    BY <1>1 DEF Chain, GrowChain, Reorganise, vars
  <1>2. ASSUME NEW i \in Instance, Start(i) PROVE UNCHANGED <<log, position>>
    BY <1>2 DEF Start
  <1>3. ASSUME NEW i \in Instance, pc[i] = "commit" PROVE txn[i] = batch[i]
    BY <1>3 DEF IInv, ProcessInv
  <1>4. ASSUME NEW i \in Instance, CommitTransaction(i) \/ CommitTransactionFails(i)
        PROVE  \/ UNCHANGED <<log, position>>
               \/ /\ UNCHANGED position
                  /\ \E j \in Instance : pc[j] = "commit" /\ txn[j] = batch[j]
                                         /\ log' = Append(log, batch[j])
    BY <1>3, <1>4 DEF CommitTransaction, CommitTransactionFails
  <1>5. ASSUME NEW i \in Instance, SetData(i) \/ Mkdirp(i)
        PROVE  UNCHANGED log /\ (position' \in Int \/ UNCHANGED position)
    BY <1>5 DEF SetData, Mkdirp, TypeOK
  <1>6. ASSUME NEW i \in Instance, Step(i) \/ Disturb(i),
               ~(CommitTransaction(i) \/ CommitTransactionFails(i) \/ SetData(i) \/ Mkdirp(i))
        PROVE  UNCHANGED <<log, position>>
    BY <1>6 DEF Step, Disturb, Connect, InitWorker, GetLastPosition, PositionExists, Iterate,
         Analyze, AnalyzeAt, Fetch, EmptyIntervalThrows, BeginTransaction, SendData, AbortTransaction,
         Disconnect, Crash, Stop, SendDataFails
  <1> QED
    BY <1>1, <1>2, <1>4, <1>5, <1>6 DEF Next

(* Atomicity: a transaction that becomes visible is the whole batch that   *)
(* work() returned to the committing process.                              *)
THEOREM Atomicity == Spec => WholeBatches
  <1>1. ASSUME TypeOK, IInv, [Next]_vars
        PROVE  [log' # log =>
                 /\ Len(log') = Len(log) + 1
                 /\ \E i \in Instance : pc[i] = "commit" /\ log'[Len(log')] = batch[i]]_vars
    <2> SUFFICES ASSUME log' # log
                 PROVE  /\ Len(log') = Len(log) + 1
                        /\ \E i \in Instance : pc[i] = "commit" /\ log'[Len(log')] = batch[i]
      OBVIOUS
    <2>1. PICK i \in Instance : pc[i] = "commit" /\ log' = Append(log, batch[i])
      BY <1>1, DurableEffect
    <2>2. batch[i] \in SUBSET Event
      BY <1>1 DEF TypeOK
    <2> QED
      BY <1>1, <2>1, <2>2, LogGrows
  <1> QED
    BY <1>1, InvAlways, PTL DEF Spec, WholeBatches

(* Refinement: to the readers of the topic any number of exporter          *)
(* processes looks like the ExportStream specification.                    *)
THEOREM Refinement == Spec => ImplementsStream
  <1>1. Init => Stream!Init
    BY DEF Init, Stream!Init, Topic, Delivered, DeliveredBy
  <1>2. ASSUME TypeOK, IInv, IInv', [Next]_vars
        PROVE  [Stream!Next]_(Stream!streamVars)
    <2>1. CASE UNCHANGED <<log, position>>
      <3>1. \A b : Delivered(b)' <=> Delivered(b)
        BY <2>1 DEF Delivered, DeliveredBy
      <3>2. Topic' = Topic
        BY <3>1 DEF Topic
      <3> QED
        BY <2>1, <3>2 DEF Stream!streamVars
    <2>2. ASSUME NEW i \in Instance, log' = Append(log, batch[i]), UNCHANGED position
          PROVE  Stream!Deliver
      <3>1. batch[i] \in SUBSET Event
        BY <1>2 DEF TypeOK
      <3>2. Topic \subseteq Topic'
        BY <1>2, <2>2, <3>1, DeliveredGrows DEF Topic
      <3>3. Topic' \subseteq EventBlocks
        BY DEF Topic
      <3>4. ASSUME NEW b \in EventBlocks, StartBlock < b, NEW c \in Topic', b < c
            PROVE  b \in Topic'
        <4>1. PICK k \in 1..Len(log') : \E e \in log'[k] : e.block = c
          BY DEF Topic, Delivered, DeliveredBy
        <4>2. DeliveredBy(k, b)'
          BY <1>2, <3>4, <4>1 DEF IInv, CommittedWithoutGaps
        <4>3. Len(log') \in Nat
          BY <1>2, <2>2, <3>1, LogGrows
        <4>4. Delivered(b)'
          BY <4>2, <4>3 DEF Delivered, DeliveredBy
        <4> QED
          BY <4>4 DEF Topic
      <3> QED
        BY <2>2, <3>2, <3>3, <3>4 DEF Stream!Deliver, Stream!PrefixClosed
    <2>3. CASE UNCHANGED log /\ position' \in Int
      <3>1. \A b : Delivered(b)' <=> Delivered(b)
        BY <2>3 DEF Delivered, DeliveredBy
      <3>2. Topic' = Topic
        BY <3>1 DEF Topic
      <3>3. Stream!Covers(Topic, position')
        BY <1>2, <2>3, <3>1, ConstantsAssumption
        DEF IInv, SavedPositionCovered, CoveredUpTo, Stream!Covers, Topic
      <3> QED
        BY <2>3, <3>2, <3>3 DEF Stream!Next, Stream!SavePosition
    <2> QED
      BY <1>2, <2>1, <2>2, <2>3, DurableEffect DEF Stream!Next
  <1> QED
    BY <1>1, <1>2, InvAlways, PTL DEF Spec, ImplementsStream, Stream!Spec

=============================================================================
