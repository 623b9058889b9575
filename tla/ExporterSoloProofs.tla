------------------------- MODULE ExporterSoloProofs -------------------------
(***************************************************************************)
(* Proofs about one exporter process at a time (the deployment the README  *)
(* of the exporter describes): what a stop request leaves behind, that the *)
(* position never goes backwards, that nothing below it is sent again, and *)
(* that duplicates are bounded by the interruptions. Each theorem names    *)
(* the hypotheses it needs: several processes that overlap, a refused read *)
(* of the znode, or the "assign" way to advance refute them.               *)
(***************************************************************************)
EXTENDS ExporterProofs, FiniteSetTheorems

(* Where a process that starts now would continue. *)
Restart == initPosition(position)

(* Between two saves the znode holds what the only process has exported,   *)
(* and outside storeEvents there is no open transaction.                   *)
SoloInv(i) ==
  /\ pc[i] = "mkdirp" => position = NoPosition
  /\ pc[i] \in {"loop", "analyze", "fetch", "disconnect"} => position = exported[i]
  /\ pc[i] \notin {"sendData", "commit", "abort"} => txn[i] = {}

(* The worker is never behind the saved position and at most one interval  *)
(* ahead of it, and the batch it holds is of blocks above the position.    *)
AheadInv(i) ==
  /\ pc[i] \in {"exists", "setData", "mkdirp", "begin", "sendData", "commit", "abort"}
       => Restart <= exported[i] /\ exported[i] <= Restart + BlockInterval
  /\ pc[i] \in {"begin", "sendData", "commit", "abort"} => position # NoPosition
  /\ \A e \in batch[i] : Restart < e.block

(* Every step of the only process keeps SoloInv. *)
LEMMA SoloInductive ==
  ASSUME NEW i, Instance = {i}, TypeOK, SoloInv(i), [Next]_vars
  PROVE  SoloInv(i)'
  <1> USE DEF chainVars, workerVars
  <1>0. i \in Instance
    OBVIOUS
  <1>1. CASE Chain
    BY <1>1 DEF Chain, GrowChain, Reorganise, processVars, SoloInv
  <1>2. CASE Start(i)
    BY <1>0, <1>2 DEF Start, TypeOK, SoloInv
  <1>3. CASE Exit(i)
    BY <1>0, <1>3 DEF Exit, TypeOK, SoloInv
  <1>4. CASE Connect(i) \/ InitWorker(i) \/ GetLastPosition(i)
    BY <1>0, <1>4 DEF Connect, InitWorker, GetLastPosition, TypeOK, SoloInv
  <1>5. CASE PositionExists(i)
    BY <1>0, <1>5 DEF PositionExists, TypeOK, SoloInv
  <1>6. CASE SetData(i) \/ Mkdirp(i)
    BY <1>0, <1>6 DEF SetData, Mkdirp, TypeOK, SoloInv
  <1>7. CASE Iterate(i)
    BY <1>0, <1>7 DEF Iterate, TypeOK, SoloInv
  <1>8. CASE Analyze(i)
    <2>1. pc[i] = "analyze" /\ pc'[i] \in {"exists", "fetch"} /\ UNCHANGED <<exported, txn, position>>
      BY <1>0, <1>8 DEF Analyze, AnalyzeAt, TypeOK
    <2> QED
      BY <2>1 DEF SoloInv
  <1>9. CASE Fetch(i)
    <2>1. pc[i] = "fetch" /\ pc'[i] \in {"exists", "begin"} /\ UNCHANGED <<txn, position>>
      BY <1>0, <1>9 DEF Fetch, TypeOK
    <2> QED
      BY <2>1 DEF SoloInv
  <1>10. CASE BeginTransaction(i) \/ SendData(i) \/ SendDataFails(i)
    <2>1. pc'[i] \in {"sendData", "commit", "abort"}
      BY <1>0, <1>10 DEF BeginTransaction, SendData, SendDataFails, TypeOK
    <2> QED
      BY <2>1 DEF SoloInv
  <1>11. CASE CommitTransaction(i)
    BY <1>0, <1>11 DEF CommitTransaction, TypeOK, SoloInv
  <1>12. CASE CommitTransactionFails(i)
    <2>1. pc'[i] = "abort"
      BY <1>0, <1>12 DEF CommitTransactionFails, TypeOK
    <2> QED
      BY <2>1 DEF SoloInv
  <1>13. CASE Crash(i) \/ EmptyIntervalThrows(i) \/ AbortTransaction(i) \/ Disconnect(i)
    BY <1>3, <1>13 DEF Crash, EmptyIntervalThrows, AbortTransaction, Disconnect
  <1>14. CASE Stop(i)
    BY <1>3, <1>14 DEF Stop, SoloInv
  <1>15. CASE UNCHANGED vars
    BY <1>15 DEF vars, processVars, SoloInv
  <1> QED
    BY <1>1, <1>2, <1>4, <1>5, <1>6, <1>7, <1>8, <1>9, <1>10, <1>11, <1>12, <1>13, <1>14, <1>15
    DEF Next, Step, Disturb

(* So it holds in every reachable state of one process. *)
LEMMA SoloAlways ==
  ASSUME NEW CONSTANT self, Instance = {self}
  PROVE  Spec => [](TypeOK /\ IInv /\ SoloInv(self))
  <1>1. Init => SoloInv(self)
    BY DEF Init, SoloInv
  <1>2. TypeOK /\ SoloInv(self) /\ [Next]_vars => SoloInv(self)'
    BY SoloInductive
  <1> QED
    BY <1>1, <1>2, InvAlways, PTL DEF Spec

(* Graceful stop: the only process leaves the work loop with nothing in    *)
(* its hands, everything it took from the node is committed, and the znode *)
(* holds its position. This needs neither a readable znode nor a node that *)
(* is up to date.                                                          *)
THEOREM GracefulStop ==
  ASSUME NEW CONSTANT self, Instance = {self}
  PROVE  Spec => []GracefulStopIsClean
  <1>1. TypeOK /\ IInv /\ SoloInv(self) => GracefulStopIsClean
    BY DEF IInv, ProcessInv, SoloInv, GracefulStopIsClean
  <1> QED
    BY <1>1, SoloAlways, PTL

-----------------------------------------------------------------------------
(* Unless lastExportedBlock is assigned blindly ("assign"), work() moves   *)
(* forward, by one interval at most, and fetches blocks it has not         *)
(* exported yet.                                                           *)
LEMMA FetchMovesForward ==
  ASSUME TypeOK, NEW i \in Instance, Fetch(i), Advance # "assign"
  PROVE  /\ exported[i] <= exported'[i]
         /\ exported'[i] <= exported[i] + BlockInterval
         /\ \A e \in batch'[i] : exported[i] < e.block
  <1> DEFINE iv == Interval(i)
  <1>1. exported[i] \in Int /\ confirmed[i] \in Int
    BY DEF TypeOK
  <1>2. /\ iv.fromBlock = exported[i] + 1 /\ iv.toBlock \in Int
        /\ iv.toBlock <= exported[i] + BlockInterval
    BY <1>1, ConstantsAssumption DEF Interval, nextIntervalCalculator, Minimum
  <1>3. ~RangeError(iv) /\ exported'[i] = AdvancePosition(exported[i], iv)
    BY DEF Fetch, TypeOK
  <1>4. /\ exported[i] <= AdvancePosition(exported[i], iv)
        /\ AdvancePosition(exported[i], iv) <= exported[i] + BlockInterval
    <2> HIDE DEF iv
    <2> QED
      BY <1>1, <1>2, <1>3, ConstantsAssumption DEF RangeError, AdvancePosition
  <1>5. \A e \in EventsIn(iv.fromBlock, iv.toBlock) : exported[i] < e.block
    <2> SUFFICES ASSUME NEW b \in EventBlocks, iv.fromBlock <= b
                 PROVE  exported[i] < b
      BY DEF EventsIn
    <2>1. b \in Int
      BY ConstantsAssumption
    <2> HIDE DEF iv
    <2> QED
      BY <2>1, <1>1, <1>2
  <1>6. batch'[i] = EventsIn(iv.fromBlock, iv.toBlock)
    BY DEF Fetch, TypeOK
  <1> QED
    BY <1>3, <1>4, <1>5, <1>6

(* The position a new process starts from is a height. *)
LEMMA RestartType == TypeOK => Restart \in Int
  BY ConstantsAssumption DEF TypeOK, Restart, initPosition

(* Every step of the only process keeps AheadInv, when the znode can be    *)
(* read and work() does not assign lastExportedBlock blindly.              *)
LEMMA AheadInductive ==
  ASSUME NEW i, Instance = {i}, ~ReadMayFail, Advance # "assign",
         TypeOK, IInv, SoloInv(i), AheadInv(i), [Next]_vars
  PROVE  AheadInv(i)'
  <1> USE DEF chainVars, workerVars
  <1>0. /\ i \in Instance /\ Restart \in Int /\ exported[i] \in Int
        /\ BlockInterval \in Nat /\ BlockInterval > 0
    BY RestartType, ConstantsAssumption DEF TypeOK
  <1>1. position # NoPosition => Restart = position
    BY DEF Restart, initPosition
  <1>2. ASSUME UNCHANGED <<pc, exported, batch, position>> PROVE AheadInv(i)'
    BY <1>2 DEF AheadInv, Restart, initPosition
  <1>3. CASE Exit(i) /\ UNCHANGED position
    BY <1>0, <1>3 DEF Exit, TypeOK, AheadInv
  <1>4. CASE Start(i) \/ Connect(i) \/ InitWorker(i)
    <2>1. pc'[i] \in {"connect", "initWorker", "getLastPosition"} /\ UNCHANGED <<batch, position>>
      BY <1>0, <1>4 DEF Start, Connect, InitWorker, TypeOK
    <2> QED
      BY <2>1 DEF AheadInv, Restart, initPosition
  <1>5. CASE GetLastPosition(i)
    <2>1. /\ pc[i] = "getLastPosition" /\ pc'[i] = "exists" /\ UNCHANGED <<batch, position>>
          /\ exported'[i] = Restart
      BY <1>0, <1>5 DEF GetLastPosition, TypeOK, Restart
    <2>2. batch[i] = {}
      BY <1>0, <2>1 DEF IInv, ProcessInv
    <2>3. Restart' = Restart
      BY <2>1 DEF Restart, initPosition
    <2> QED
      BY <1>0, <2>1, <2>2, <2>3 DEF AheadInv
  <1>6. CASE PositionExists(i)
    <2>1. /\ pc[i] = "exists" /\ pc'[i] \in {"setData", "mkdirp"}
          /\ UNCHANGED <<exported, batch, position>>
      BY <1>0, <1>6 DEF PositionExists, TypeOK
    <2> QED
      BY <2>1 DEF AheadInv, Restart, initPosition
  <1>7. CASE SetData(i) \/ Mkdirp(i)
    <2>1. pc[i] \in {"setData", "mkdirp"} /\ pc'[i] = "loop" /\ UNCHANGED batch
      BY <1>0, <1>7 DEF SetData, Mkdirp, TypeOK
    <2>2. batch[i] = {}
      BY <1>0, <2>1 DEF IInv, ProcessInv
    <2> QED
      BY <2>1, <2>2 DEF AheadInv
  <1>8. CASE Iterate(i)
    <2>1. pc'[i] \in {"analyze", "disconnect"} /\ UNCHANGED <<exported, batch, position>>
      BY <1>0, <1>8 DEF Iterate, TypeOK
    <2> QED
      BY <2>1 DEF AheadInv, Restart, initPosition
  <1>9. CASE Analyze(i)
    <2>1. /\ pc[i] = "analyze" /\ pc'[i] \in {"exists", "fetch"}
          /\ UNCHANGED <<exported, batch, position>>
      BY <1>0, <1>9 DEF Analyze, AnalyzeAt, TypeOK
    <2>2. position = exported[i] /\ position # NoPosition
      BY <1>0, <2>1, ConstantsAssumption DEF SoloInv
    <2>3. Restart' = Restart
      BY <2>1 DEF Restart, initPosition
    <2> QED
      BY <1>0, <1>1, <2>1, <2>2, <2>3 DEF AheadInv
  <1>10. CASE Fetch(i)
    <2>1. /\ pc[i] = "fetch" /\ pc'[i] \in {"exists", "begin"} /\ UNCHANGED position
          /\ exported'[i] \in Int
      BY <1>0, <1>10, TypeInductive DEF Fetch, TypeOK
    <2>2. position = exported[i] /\ position # NoPosition
      BY <1>0, <2>1, ConstantsAssumption DEF SoloInv
    <2>3. Restart' = Restart
      BY <2>1 DEF Restart, initPosition
    <2>4. /\ exported[i] <= exported'[i] /\ exported'[i] <= exported[i] + BlockInterval
          /\ \A e \in batch'[i] : exported[i] < e.block
      BY <1>0, <1>10, FetchMovesForward
    <2> QED
      BY <1>0, <1>1, <2>1, <2>2, <2>3, <2>4 DEF AheadInv
  <1>11. CASE BeginTransaction(i) \/ SendData(i) \/ SendDataFails(i) \/ CommitTransactionFails(i)
    <2>1. /\ pc[i] \in {"begin", "sendData", "commit"} /\ pc'[i] \in {"sendData", "commit", "abort"}
          /\ UNCHANGED <<exported, batch, position>>
      BY <1>0, <1>11 DEF BeginTransaction, SendData, SendDataFails, CommitTransactionFails, TypeOK
    <2> QED
      BY <2>1 DEF AheadInv, Restart, initPosition
  <1>12. CASE CommitTransaction(i)
    <2>1. /\ pc[i] = "commit" /\ pc'[i] = "exists" /\ batch'[i] = {}
          /\ UNCHANGED <<exported, position>>
      BY <1>0, <1>12 DEF CommitTransaction, TypeOK
    <2> QED
      BY <2>1 DEF AheadInv, Restart, initPosition
  <1>13. CASE Crash(i) \/ EmptyIntervalThrows(i) \/ AbortTransaction(i) \/ Disconnect(i)
    BY <1>3, <1>13 DEF Crash, EmptyIntervalThrows, AbortTransaction, Disconnect
  <1>14. CASE Stop(i)
    BY <1>2, <1>3, <1>14 DEF Stop
  <1>15. CASE Chain \/ UNCHANGED vars
    BY <1>2, <1>15 DEF Chain, GrowChain, Reorganise, vars, processVars
  <1> QED
    BY <1>4, <1>5, <1>6, <1>7, <1>8, <1>9, <1>10, <1>11, <1>12, <1>13, <1>14, <1>15
    DEF Next, Step, Disturb

(* So it holds in every reachable state. *)
LEMMA AheadAlways ==
  ASSUME NEW CONSTANT self, Instance = {self}, ~ReadMayFail, Advance # "assign"
  PROVE  Spec => [](TypeOK /\ IInv /\ SoloInv(self) /\ AheadInv(self))
  <1>1. Init => AheadInv(self)
    BY DEF Init, AheadInv
  <1>2. TypeOK /\ IInv /\ SoloInv(self) /\ AheadInv(self) /\ [Next]_vars => AheadInv(self)'
    BY AheadInductive
  <1> QED
    BY <1>1, <1>2, SoloAlways, PTL DEF Spec

(* The step that saves a position saves the worker's. *)
LEMMA SavesExported ==
  ASSUME NEW i, Instance = {i}, TypeOK, [Next]_vars, position' # position
  PROVE  pc[i] \in {"setData", "mkdirp"} /\ position' = exported[i]
  <1>1. CASE SetData(i) \/ Mkdirp(i)
    BY <1>1 DEF SetData, Mkdirp
  <1>2. CASE Chain \/ UNCHANGED vars
    BY <1>2 DEF Chain, GrowChain, Reorganise, vars
  <1>3. ASSUME Start(i) \/ Step(i) \/ Disturb(i), ~(SetData(i) \/ Mkdirp(i))
        PROVE  UNCHANGED position
    BY <1>3 DEF Start, Step, Disturb, Connect, InitWorker, GetLastPosition, PositionExists,
         Iterate, Analyze, AnalyzeAt, Fetch, EmptyIntervalThrows, BeginTransaction, SendData,
         CommitTransaction, AbortTransaction, Disconnect, Crash, Stop, SendDataFails,
         CommitTransactionFails
  <1> QED
    BY <1>1, <1>2, <1>3 DEF Next

(* Monotone: one process whose znode can be read never moves the saved     *)
(* position backwards, although the node may lag behind what it reported   *)
(* before. ERC20 and XRP ("assign") do move it backwards, and the run      *)
(* lag_erc20 shows how.                                                    *)
THEOREM PositionGrows ==
  ASSUME NEW CONSTANT self, Instance = {self}, ~ReadMayFail, Advance # "assign"
  PROVE  Spec => PositionNeverBackwards
  <1>1. ASSUME TypeOK, AheadInv(self), [Next]_vars
        PROVE  [position # NoPosition => position' # NoPosition /\ position' >= position]_vars
    <2> SUFFICES ASSUME position # NoPosition, position' # position
                 PROVE  position' # NoPosition /\ position' >= position
      BY <1>1 DEF TypeOK
    <2>1. pc[self] \in {"setData", "mkdirp"} /\ position' = exported[self]
      BY <1>1, SavesExported
    <2>2. position \in Int /\ exported[self] \in Int
      BY <1>1 DEF TypeOK
    <2>3. position <= exported[self]
      BY <1>1, <2>1 DEF AheadInv, Restart, initPosition
    <2> QED
      BY <2>1, <2>2, <2>3, ConstantsAssumption
  <1> QED
    BY <1>1, AheadAlways, PTL DEF Spec, PositionNeverBackwards

(* At most the unsaved batch is sent twice: a transaction that becomes     *)
(* visible holds only blocks above the saved position, also after a crash  *)
(* between the commit and the save.                                        *)
THEOREM NoResend ==
  ASSUME NEW CONSTANT self, Instance = {self}, ~ReadMayFail, Advance # "assign"
  PROVE  Spec => NothingSavedIsResent
  <1>1. ASSUME TypeOK, IInv, AheadInv(self), [Next]_vars
        PROVE  CommitsAbovePosition
    <2> SUFFICES ASSUME Len(log') > Len(log), position # NoPosition, NEW e \in log'[Len(log')]
                 PROVE  e.block > position
      BY DEF CommitsAbovePosition
    <2>1. Len(log) \in Nat
      BY <1>1 DEF TypeOK
    <2>2. log' = Append(log, batch[self])
      BY <1>1, <2>1, DurableEffect
    <2>3. batch[self] \in SUBSET Event
      BY <1>1 DEF TypeOK
    <2>4. e \in batch[self]
      BY <1>1, <2>2, <2>3, LogGrows
    <2>5. Restart < e.block /\ Restart = position
      BY <1>1, <2>4 DEF AheadInv, Restart, initPosition
    <2>6. e.block \in Int /\ position \in Int
      BY <1>1, <2>3, <2>4 DEF Event, BlockHeight, TypeOK
    <2> QED
      BY <2>5, <2>6
  <1> QED
    BY <1>1, AheadAlways, PTL DEF Spec, NothingSavedIsResent

-----------------------------------------------------------------------------
(* The blocks of a batch or of a transaction. *)
Blocks(t) == {e.block : e \in t}

(* Sets of blocks are finite, so they can be counted. *)
LEMMA BlocksFinite ==
  ASSUME NEW S \in SUBSET BlockHeight
  PROVE  IsFiniteSet(S) /\ Cardinality(S) \in Nat
  <1>1. IsFiniteSet(0..MaxHead)
    BY FS_Interval, ConstantsAssumption
  <1>2. IsFiniteSet(S)
    BY <1>1, FS_Subset DEF BlockHeight
  <1> QED
    BY <1>2, FS_CardinalityType

(* Between two heights there are no more blocks than the heights differ. *)
LEMMA BlocksBetween ==
  ASSUME NEW S \in SUBSET BlockHeight, NEW p \in Int, NEW q \in Int, p <= q,
         \A b \in S : p < b /\ b <= q
  PROVE  Cardinality(S) <= q - p
  <1>1. IsFiniteSet((p+1)..q) /\ Cardinality((p+1)..q) <= q - p
    BY FS_Interval
  <1>2. S \subseteq (p+1)..q
    BY ConstantsAssumption DEF BlockHeight
  <1>3. Cardinality(S) <= Cardinality((p+1)..q) /\ Cardinality((p+1)..q) \in Nat
    BY <1>1, <1>2, FS_Subset, FS_CardinalityType
  <1>4. Cardinality(S) \in Nat
    BY BlocksFinite
  <1> QED
    BY <1>1, <1>3, <1>4

(* Disjoint parts of a set of blocks count at most as much as the set. *)
LEMMA PartsCount ==
  ASSUME NEW S \in SUBSET BlockHeight, NEW T \in SUBSET BlockHeight, S \cap T = {}
  PROVE  Cardinality(S \cup T) = Cardinality(S) + Cardinality(T)
  <1>1. /\ IsFiniteSet(S) /\ Cardinality(S) \in Nat
        /\ IsFiniteSet(T) /\ Cardinality(T) \in Nat
    BY BlocksFinite
  <1>2. Cardinality(S \cup T) = Cardinality(S) + Cardinality(T) - Cardinality(S \cap T)
    BY <1>1, FS_Union
  <1> QED
    BY <1>1, <1>2, FS_EmptySet

(* A commit adds one delivery for every block of the transaction. *)
LEMMA DeliveriesGrow ==
  ASSUME TypeOK, NEW t \in SUBSET Event, log' = Append(log, t), IsFiniteSet(Deliveries)
  PROVE  /\ IsFiniteSet(Deliveries')
         /\ Cardinality(Deliveries') = Cardinality(Deliveries) + Cardinality(Blocks(t))
  <1> DEFINE n == Len(log) + 1
             added == {<<n, e.block>> : e \in t}
             tag == [b \in Blocks(t) |-> <<n, b>>]
  <1>1. /\ Len(log) \in Nat /\ Len(log') = n
        /\ \A k \in 1..Len(log) : log'[k] = log[k]
        /\ log'[n] = t
    BY LogGrows
  <1>2. Deliveries' = Deliveries \cup added
    <2>1. ASSUME NEW d \in Deliveries' PROVE d \in Deliveries \cup added
      <3>1. PICK k \in 1..n : \E e \in log'[k] : d = <<k, e.block>>
        BY <1>1, <2>1 DEF Deliveries
      <3>2. CASE k = n
        BY <1>1, <3>1, <3>2
      <3>3. CASE k \in 1..Len(log)
        BY <1>1, <3>1, <3>3 DEF Deliveries
      <3> QED
        BY <1>1, <3>2, <3>3
    <2>2. ASSUME NEW d \in Deliveries PROVE d \in Deliveries'
      <3>1. PICK k \in 1..Len(log) : \E e \in log[k] : d = <<k, e.block>>
        BY <2>2 DEF Deliveries
      <3>2. k \in 1..Len(log') /\ \E e \in log'[k] : d = <<k, e.block>>
        BY <1>1, <3>1
      <3> QED
        BY <3>2 DEF Deliveries
    <2>3. ASSUME NEW d \in added PROVE d \in Deliveries'
      <3>1. n \in 1..Len(log') /\ \E e \in log'[n] : d = <<n, e.block>>
        BY <1>1, <2>3
      <3> HIDE DEF n
      <3> QED
        BY <3>1 DEF Deliveries
    <2> QED
      BY <2>1, <2>2, <2>3
  <1>3. Deliveries \cap added = {}
    BY <1>1 DEF Deliveries
  <1>4. Blocks(t) \in SUBSET BlockHeight
    BY DEF Blocks, Event
  <1>5. IsFiniteSet(Blocks(t)) /\ Cardinality(Blocks(t)) \in Nat
    BY <1>4, BlocksFinite
  <1>6. tag \in Bijection(Blocks(t), added)
    <2>1. tag \in [Blocks(t) -> added]
      BY DEF Blocks
    <2>2. \A b, c \in Blocks(t) : tag[b] = tag[c] => b = c
      OBVIOUS
    <2>3. \A d \in added : \E b \in Blocks(t) : tag[b] = d
      BY DEF Blocks
    <2> QED
      BY <2>1, <2>2, <2>3 DEF Bijection, Injection, Surjection, IsInjective
  <1>7. IsFiniteSet(added) /\ Cardinality(added) = Cardinality(Blocks(t))
    <2>1. ExistsBijection(Blocks(t), added)
      BY <1>6 DEF ExistsBijection
    <2> QED
      BY <1>5, <2>1, FS_Bijection
  <1>8. Cardinality(Deliveries) \in Nat
    BY FS_CardinalityType
  <1>9. /\ IsFiniteSet(Deliveries \cup added)
        /\ Cardinality(Deliveries \cup added)
             = Cardinality(Deliveries) + Cardinality(added) - Cardinality({})
    BY <1>3, <1>7, FS_Union
  <1> QED
    BY <1>2, <1>5, <1>7, <1>8, <1>9, FS_EmptySet

(* The height process i will not fetch again as long as it runs: what it   *)
(* has exported, or the position when a batch is not stored yet.           *)
Reached(i) ==
  IF pc[i] \in {"exists", "setData", "mkdirp", "loop", "analyze", "fetch", "disconnect"}
  THEN exported[i] ELSE Restart

(* The blocks readers have already, and will be sent again. *)
Above(p) == {b \in Topic : b > p}

(* Duplicates sent and duplicates to come are paid for by interruptions.   *)
(* Without those to come the bound is not inductive: a crash between the   *)
(* commit and the save causes duplicates that are delivered much later.    *)
PaidInv(i) ==
  /\ \A e \in batch[i] : e.block \in EventBlocks
  /\ IsFiniteSet(Deliveries)
  /\ Cardinality(Deliveries) + Cardinality(Above(Reached(i)))
       <= Cardinality(Topic) + BlockInterval * interruptions

(* A commit adds the transaction's blocks to the topic. *)
LEMMA TopicGrows ==
  ASSUME TypeOK, NEW t \in SUBSET Event, log' = Append(log, t),
         \A e \in t : e.block \in EventBlocks
  PROVE  Topic' = Topic \cup Blocks(t)
  <1>1. ASSUME NEW b \in EventBlocks, Delivered(b)' PROVE Delivered(b) \/ b \in Blocks(t)
    <2>1. PICK k \in 1..Len(log') : \E e \in log'[k] : e.block = b
      BY <1>1 DEF Delivered, DeliveredBy
    <2>2. k \in 1..Len(log) \/ k = Len(log) + 1
      BY LogGrows
    <2> QED
      BY <2>1, <2>2, LogGrows DEF Delivered, DeliveredBy, Blocks
  <1>2. \A b \in EventBlocks : Delivered(b) => Delivered(b)'
    BY DeliveredGrows
  <1>3. \A b \in Blocks(t) : b \in EventBlocks /\ Delivered(b)'
    BY DeliveredGrows DEF Blocks
  <1> QED
    BY <1>1, <1>2, <1>3 DEF Topic

(* What is above a lower height is at most the difference more. *)
LEMMA AboveBound ==
  ASSUME NEW p \in Int, NEW q \in Int, p <= q
  PROVE  /\ Cardinality(Above(q)) \in Nat /\ Cardinality(Above(p)) \in Nat
         /\ Cardinality(Above(q)) <= Cardinality(Above(p))
         /\ Cardinality(Above(p)) <= Cardinality(Above(q)) + (q - p)
  <1> DEFINE between == {b \in Topic : p < b /\ b <= q}
  <1>1. \A b \in Topic : b \in BlockHeight /\ b \in Int
    BY ConstantsAssumption DEF Topic, BlockHeight
  <1>2. /\ Above(q) \in SUBSET BlockHeight /\ between \in SUBSET BlockHeight
        /\ Above(p) \in SUBSET BlockHeight
    BY <1>1 DEF Above
  <1>3. Above(p) = Above(q) \cup between /\ Above(q) \cap between = {}
    <2>1. \A b \in Topic : b > p <=> b > q \/ (p < b /\ b <= q)
      BY <1>1
    <2>2. \A b \in Topic : ~(b > q /\ b <= q)
      BY <1>1
    <2> QED
      BY <2>1, <2>2 DEF Above
  <1>4. Cardinality(Above(p)) = Cardinality(Above(q)) + Cardinality(between)
    BY <1>2, <1>3, PartsCount
  <1>5. Cardinality(between) <= q - p
    BY <1>2, BlocksBetween
  <1>6. Cardinality(Above(q)) \in Nat /\ Cardinality(between) \in Nat
    BY <1>2, BlocksFinite
  <1> HIDE DEF between
  <1> QED
    BY <1>4, <1>5, <1>6

(* A step that commits nothing only has to answer for where the process    *)
(* will start to fetch again.                                              *)
LEMMA PaidFrame ==
  ASSUME NEW i \in Instance, TypeOK, PaidInv(i), UNCHANGED log, Reached(i) \in Int,
         Reached(i)' \in Int, interruptions' \in Nat,
         \A e \in batch'[i] : e.block \in EventBlocks,
         \/ Reached(i) <= Reached(i)' /\ interruptions <= interruptions'
         \/ /\ Reached(i)' <= Reached(i) /\ Reached(i) <= Reached(i)' + BlockInterval
            /\ interruptions' = interruptions + 1
  PROVE  PaidInv(i)'
  <1> DEFINE p == Reached(i)
             q == Reached(i)'
  <1>1. /\ \A b : Delivered(b)' <=> Delivered(b)
        /\ Deliveries' = Deliveries
    BY DEF Delivered, DeliveredBy, Deliveries
  <1>2. Topic' = Topic
    BY <1>1 DEF Topic
  <1>3. Above(Reached(i))' = Above(q)
    BY <1>2 DEF Above
  <1>4. /\ Cardinality(Deliveries) \in Nat /\ Cardinality(Topic) \in Nat
        /\ BlockInterval \in Nat /\ interruptions \in Nat
        /\ BlockInterval * interruptions \in Int /\ BlockInterval * interruptions' \in Int
    <2>1. Topic \in SUBSET BlockHeight
      BY ConstantsAssumption DEF Topic, BlockHeight
    <2>2. Cardinality(Topic) \in Nat /\ Cardinality(Deliveries) \in Nat
      BY <2>1, BlocksFinite, FS_CardinalityType DEF PaidInv
    <2>3. BlockInterval \in Nat /\ interruptions \in Nat
      BY ConstantsAssumption DEF TypeOK
    <2> QED
      BY <2>2, <2>3
  <1> HIDE DEF p, q
  <1>5. CASE p <= q /\ interruptions <= interruptions'
    <2>1. BlockInterval * interruptions <= BlockInterval * interruptions'
      BY <1>4, <1>5
    <2>2. Cardinality(Above(q)) <= Cardinality(Above(p)) /\ Cardinality(Above(q)) \in Nat
          /\ Cardinality(Above(p)) \in Nat
      BY <1>5, AboveBound DEF p, q
    <2>3. Cardinality(Deliveries) + Cardinality(Above(p))
            <= Cardinality(Topic) + BlockInterval * interruptions
      BY DEF PaidInv, p
    <2>4. Cardinality(Deliveries) + Cardinality(Above(q))
            <= Cardinality(Topic) + BlockInterval * interruptions'
      BY <1>4, <2>1, <2>2, <2>3
    <2> QED
      BY <1>1, <1>2, <1>3, <2>4 DEF PaidInv
  <1>6. CASE q <= p /\ p <= q + BlockInterval /\ interruptions' = interruptions + 1
    <2>1. BlockInterval * interruptions' = BlockInterval * interruptions + BlockInterval
      BY <1>4, <1>6
    <2>2. Cardinality(Above(q)) <= Cardinality(Above(p)) + (p - q) /\ Cardinality(Above(q)) \in Nat
          /\ Cardinality(Above(p)) \in Nat
      BY <1>6, AboveBound DEF p, q
    <2>3. Cardinality(Deliveries) + Cardinality(Above(p))
            <= Cardinality(Topic) + BlockInterval * interruptions
      BY DEF PaidInv, p
    <2>4. p \in Int /\ q \in Int
      BY DEF p, q
    <2>5. Cardinality(Deliveries) + Cardinality(Above(q))
            <= Cardinality(Topic) + BlockInterval * interruptions'
      BY <1>4, <1>6, <2>1, <2>2, <2>3, <2>4
    <2> QED
      BY <1>1, <1>2, <1>3, <2>5 DEF PaidInv
  <1> QED
    BY <1>5, <1>6 DEF p, q

(* The height is a number. *)
LEMMA ReachedType == ASSUME TypeOK, NEW i \in Instance PROVE Reached(i) \in Int
  BY RestartType DEF TypeOK, Reached

(* Where a process that ends leaves the next one: at the position, which   *)
(* is at most one interval behind what it had reached, and not behind at   *)
(* all when the process leaves the loop or gives up before a commit.       *)
LEMMA ReachedAtExit ==
  ASSUME NEW i \in Instance, TypeOK, SoloInv(i), AheadInv(i), Exit(i), UNCHANGED position
  PROVE  /\ Reached(i)' <= Reached(i)
         /\ Reached(i) <= Reached(i)' + BlockInterval
         /\ pc[i] \in {"fetch", "abort", "disconnect"} => Reached(i)' = Reached(i)
  <1>1. /\ Restart \in Int /\ exported[i] \in Int /\ BlockInterval \in Nat
    BY RestartType, ConstantsAssumption DEF TypeOK
  <1>2. Reached(i)' = Restart
    BY DEF Exit, TypeOK, Reached, Restart, initPosition
  <1>3. CASE pc[i] \in {"loop", "analyze", "fetch", "disconnect"}
    <2>1. Restart = exported[i]
      BY <1>1, <1>3, ConstantsAssumption DEF SoloInv, Restart, initPosition
    <2> QED
      BY <1>1, <1>2, <1>3, <2>1 DEF Reached
  <1>4. CASE pc[i] \in {"exists", "setData", "mkdirp"}
    BY <1>1, <1>2, <1>4 DEF AheadInv, Reached
  <1>5. CASE pc[i] \notin {"exists", "setData", "mkdirp", "loop", "analyze", "fetch", "disconnect"}
    BY <1>1, <1>2, <1>5 DEF Reached
  <1> QED
    BY <1>3, <1>4, <1>5

(* The blocks of a batch lie in one interval above the position. *)
LEMMA BatchBlocks ==
  ASSUME NEW i \in Instance, TypeOK, IInv, AheadInv(i), PaidInv(i), pc[i] = "commit"
  PROVE  /\ Blocks(batch[i]) \in SUBSET BlockHeight
         /\ \A b \in Blocks(batch[i]) : Restart < b /\ b <= exported[i]
         /\ Cardinality(Blocks(batch[i])) <= BlockInterval
  <1>1. /\ Restart \in Int /\ exported[i] \in Int /\ BlockInterval \in Nat
    BY RestartType, ConstantsAssumption DEF TypeOK
  <1>2. Blocks(batch[i]) \in SUBSET BlockHeight
    BY DEF Blocks, Event, TypeOK
  <1>3. \A b \in Blocks(batch[i]) : Restart < b /\ b <= exported[i]
    BY DEF Blocks, AheadInv, IInv, ProcessInv
  <1>4. Restart <= exported[i] /\ exported[i] <= Restart + BlockInterval
    BY DEF AheadInv
  <1>5. Cardinality(Blocks(batch[i])) <= exported[i] - Restart
    BY <1>1, <1>2, <1>3, <1>4, BlocksBetween
  <1>6. Cardinality(Blocks(batch[i])) \in Nat
    BY <1>2, BlocksFinite
  <1> QED
    BY <1>1, <1>2, <1>3, <1>4, <1>5, <1>6

(* A commit keeps the account. If the process hears of it, the blocks that *)
(* were in the topic already leave the duplicates to come and become       *)
(* duplicates sent; if it does not (abort), the interruption pays for all  *)
(* blocks of the batch, which will be sent again.                          *)
LEMMA PaidCommit ==
  ASSUME NEW i \in Instance, TypeOK, TypeOK', IInv, AheadInv(i), PaidInv(i), pc[i] = "commit",
         log' = Append(log, batch[i]), UNCHANGED <<exported, position>>,
         \A e \in batch'[i] : e.block \in EventBlocks,
         \/ pc'[i] = "exists" /\ interruptions' = interruptions
         \/ pc'[i] = "abort" /\ interruptions' = interruptions + 1
  PROVE  PaidInv(i)'
  <1> DEFINE new == Blocks(batch[i])
             both == Topic \cap new
             low == Restart
             high == exported[i]
  <1>1. batch[i] \in SUBSET Event
    BY DEF TypeOK
  <1>2. /\ IsFiniteSet(Deliveries')
        /\ Cardinality(Deliveries') = Cardinality(Deliveries) + Cardinality(new)
    BY <1>1, DeliveriesGrow DEF PaidInv
  <1>3. Topic' = Topic \cup new
    BY <1>1, TopicGrows DEF PaidInv
  <1>4. /\ new \in SUBSET BlockHeight /\ Cardinality(new) <= BlockInterval
        /\ \A b \in new : low < b /\ b <= high
    BY BatchBlocks
  <1>5. low \in Int /\ high \in Int /\ \A b \in BlockHeight : b \in Int
    BY RestartType DEF TypeOK, BlockHeight
  <1>6. Topic \in SUBSET BlockHeight
    BY ConstantsAssumption DEF Topic, BlockHeight
  <1>7. Reached(i) = low /\ low <= high
    BY DEF Reached, AheadInv
  <1>8. Cardinality(Topic') = Cardinality(Topic) + Cardinality(new) - Cardinality(both)
    BY <1>3, <1>4, <1>6, BlocksFinite, FS_Union
  <1>9. /\ Cardinality(Topic) \in Nat /\ Cardinality(new) \in Nat /\ Cardinality(both) \in Nat
        /\ Cardinality(Above(low)) \in Nat /\ Cardinality(Above(high)) \in Nat
    <2>1. /\ both \in SUBSET BlockHeight /\ Above(low) \in SUBSET BlockHeight
          /\ Above(high) \in SUBSET BlockHeight
      BY <1>6 DEF Above
    <2> QED
      BY <2>1, <1>4, <1>6, BlocksFinite
  <1>10. Cardinality(Deliveries) \in Nat /\ BlockInterval \in Nat /\ interruptions \in Nat
         /\ BlockInterval * interruptions \in Int
    <2>1. Cardinality(Deliveries) \in Nat
      BY FS_CardinalityType DEF PaidInv
    <2>2. BlockInterval \in Nat /\ interruptions \in Nat
      BY ConstantsAssumption DEF TypeOK
    <2> QED
      BY <2>1, <2>2
  <1>11. Cardinality(Deliveries) + Cardinality(Above(low))
           <= Cardinality(Topic) + BlockInterval * interruptions
    BY <1>7 DEF PaidInv
  <1> HIDE DEF new, both, low, high
  <1>12. CASE pc'[i] = "exists" /\ interruptions' = interruptions
    <2>1. Above(Reached(i))' = Above(high)
      <3>1. Reached(i)' = high
        BY <1>12 DEF Reached, high
      <3>2. \A b \in new : ~(b > high)
        BY <1>4, <1>5
      <3> QED
        BY <1>3, <3>1, <3>2 DEF Above
    <2>2. Cardinality(Above(high)) + Cardinality(both) <= Cardinality(Above(low))
      <3>1. /\ Above(high) \in SUBSET BlockHeight /\ both \in SUBSET BlockHeight
            /\ Above(low) \in SUBSET BlockHeight
        BY <1>6 DEF Above, both
      <3>2. Above(high) \cap both = {} /\ Above(high) \cup both \subseteq Above(low)
        <4>1. \A b \in new : low < b /\ b <= high /\ ~(b > high) /\ b > low
          BY <1>4, <1>5
        <4>2. \A b \in Topic : b > high => b > low
          BY <1>5, <1>6, <1>7
        <4> QED
          BY <4>1, <4>2 DEF Above, both
      <3>3. Cardinality(Above(high) \cup both) = Cardinality(Above(high)) + Cardinality(both)
        BY <3>1, <3>2, PartsCount
      <3>4. Cardinality(Above(high) \cup both) <= Cardinality(Above(low))
        BY <3>1, <3>2, BlocksFinite, FS_Subset
      <3> QED
        BY <3>3, <3>4
    <2>3. Cardinality(Deliveries') + Cardinality(Above(high))
            <= Cardinality(Topic') + BlockInterval * interruptions
      BY <1>2, <1>8, <1>9, <1>10, <1>11, <2>2
    <2> QED
      BY <1>2, <1>12, <2>1, <2>3 DEF PaidInv
  <1>13. CASE pc'[i] = "abort" /\ interruptions' = interruptions + 1
    <2>1. Above(Reached(i))' = Above(low) \cup new
      <3>1. Reached(i)' = low
        BY <1>13 DEF Reached, low, Restart, initPosition
      <3>2. \A b \in new : b > low
        BY <1>4, <1>5
      <3> QED
        BY <1>3, <3>1, <3>2 DEF Above
    <2>2. Cardinality(Above(low) \cup new)
            = Cardinality(Above(low)) + Cardinality(new) - Cardinality(both)
      <3>1. Above(low) \in SUBSET BlockHeight
        BY <1>6 DEF Above
      <3>2. Above(low) \cap new = both
        BY <1>4, <1>5 DEF Above, both
      <3> QED
        BY <1>4, <3>1, <3>2, BlocksFinite, FS_Union
    <2>3. BlockInterval * interruptions' = BlockInterval * interruptions + BlockInterval
      BY <1>10, <1>13
    <2>4. Cardinality(Deliveries') + Cardinality(Above(low) \cup new)
            <= Cardinality(Topic') + BlockInterval * interruptions'
      BY <1>2, <1>4, <1>8, <1>9, <1>10, <1>11, <2>2, <2>3
    <2> QED
      BY <1>2, <2>1, <2>4 DEF PaidInv
  <1> QED
    BY <1>12, <1>13

(* Every step of the only process keeps the account balanced. *)
LEMMA PaidInductive ==
  ASSUME NEW i, Instance = {i}, ~ReadMayFail, Advance # "assign",
         TypeOK, TypeOK', IInv, SoloInv(i), AheadInv(i), PaidInv(i), [Next]_vars
  PROVE  PaidInv(i)'
  <1> USE DEF chainVars, workerVars
  <1>0. /\ i \in Instance /\ Reached(i) \in Int /\ Reached(i)' \in Int
        /\ interruptions \in Nat /\ interruptions' \in Nat
    <2>1. i \in Instance
      OBVIOUS
    <2>2. Reached(i)' \in Int
      BY <2>1, ConstantsAssumption DEF TypeOK, Reached, Restart, initPosition
    <2> QED
      BY <2>1, <2>2, ReachedType DEF TypeOK
  <1>1. \A e \in batch[i] : e.block \in EventBlocks
    BY DEF PaidInv
  <1>2. ASSUME UNCHANGED <<log, batch>>, Reached(i)' = Reached(i), interruptions <= interruptions'
        PROVE  PaidInv(i)'
    BY <1>0, <1>1, <1>2, PaidFrame
  <1>3. CASE Chain \/ UNCHANGED vars
    <2>1. UNCHANGED <<pc, exported, batch, log, position, interruptions>>
      BY <1>3 DEF Chain, GrowChain, Reorganise, vars, processVars
    <2> QED
      BY <1>0, <1>2, <2>1 DEF Reached, Restart, initPosition
  <1>4. CASE Start(i) \/ Connect(i) \/ InitWorker(i) \/ BeginTransaction(i) \/ SendData(i)
    <2>1. /\ pc[i] \in {"down", "connect", "initWorker", "begin", "sendData"}
          /\ pc'[i] \in {"connect", "initWorker", "getLastPosition", "sendData", "commit"}
          /\ UNCHANGED <<batch, log, position, interruptions>>
      BY <1>0, <1>4 DEF Start, Connect, InitWorker, BeginTransaction, SendData, TypeOK
    <2> QED
      BY <1>0, <1>2, <2>1 DEF Reached, Restart, initPosition
  <1>5. CASE GetLastPosition(i)
    <2>1. /\ pc[i] = "getLastPosition" /\ pc'[i] = "exists" /\ exported'[i] = Restart
          /\ UNCHANGED <<batch, log, position, interruptions>>
      BY <1>0, <1>5 DEF GetLastPosition, TypeOK, Restart
    <2> QED
      BY <1>0, <1>2, <2>1 DEF Reached
  <1>6. CASE PositionExists(i) \/ SetData(i) \/ Mkdirp(i) \/ Iterate(i) \/ Analyze(i)
    <2>1. /\ pc[i] \in {"exists", "setData", "mkdirp", "loop", "analyze"}
          /\ pc'[i] \in {"setData", "mkdirp", "loop", "analyze", "disconnect", "exists", "fetch"}
          /\ UNCHANGED <<exported, batch, log, interruptions>>
      BY <1>0, <1>6 DEF PositionExists, SetData, Mkdirp, Iterate, Analyze, AnalyzeAt, TypeOK
    <2> QED
      BY <1>0, <1>2, <2>1 DEF Reached
  <1>7. CASE Fetch(i)
    <2>1. /\ pc[i] = "fetch" /\ pc'[i] \in {"exists", "begin"}
          /\ UNCHANGED <<log, position, interruptions>>
          /\ batch'[i] = EventsIn(Interval(i).fromBlock, Interval(i).toBlock)
      BY <1>0, <1>7 DEF Fetch, TypeOK
    <2>2. \A e \in batch'[i] : e.block \in EventBlocks
      BY <2>1 DEF EventsIn
    <2>3. exported[i] <= exported'[i] /\ exported[i] \in Int /\ exported'[i] \in Int
      BY <1>0, <1>7, FetchMovesForward DEF TypeOK
    <2>4. Reached(i) = exported[i] /\ position = exported[i]
      BY <2>1 DEF Reached, SoloInv
    <2>5. Reached(i) <= Reached(i)'
      <3>1. position' = exported[i] /\ Restart' = exported[i]
        BY <2>1, <2>3, <2>4, ConstantsAssumption DEF Restart, initPosition
      <3>2. Reached(i)' = exported'[i] \/ Reached(i)' = exported[i]
        BY <2>1, <3>1 DEF Reached
      <3> QED
        BY <2>3, <2>4, <3>2
    <2> QED
      BY <1>0, <2>1, <2>2, <2>5, PaidFrame
  <1>8. CASE SendDataFails(i)
    <2>1. /\ pc[i] = "sendData" /\ pc'[i] = "abort" /\ interruptions' = interruptions + 1
          /\ UNCHANGED <<batch, log, position>>
      BY <1>0, <1>8 DEF SendDataFails, Interrupt, TypeOK
    <2> QED
      BY <1>0, <1>2, <2>1 DEF Reached, Restart, initPosition
  <1>9. CASE CommitTransaction(i)
    <2>1. /\ pc[i] = "commit" /\ pc'[i] = "exists" /\ batch'[i] = {} /\ log' = Append(log, txn[i])
          /\ UNCHANGED <<exported, position, interruptions>>
      BY <1>0, <1>9 DEF CommitTransaction, TypeOK
    <2>2. txn[i] = batch[i]
      BY <1>0, <2>1 DEF IInv, ProcessInv
    <2> QED
      BY <1>0, <2>1, <2>2, PaidCommit
  <1>10. CASE CommitTransactionFails(i)
    <2>1. /\ pc[i] = "commit" /\ pc'[i] = "abort" /\ interruptions' = interruptions + 1
          /\ UNCHANGED <<exported, batch, position>>
          /\ log' = Append(log, txn[i]) \/ UNCHANGED log
      BY <1>0, <1>10 DEF CommitTransactionFails, Interrupt, TypeOK
    <2>2. txn[i] = batch[i]
      BY <1>0, <2>1 DEF IInv, ProcessInv
    <2>3. CASE log' = Append(log, txn[i])
      BY <1>0, <1>1, <2>1, <2>2, <2>3, PaidCommit
    <2>4. CASE UNCHANGED log
      BY <1>0, <1>2, <2>1, <2>4 DEF Reached, Restart, initPosition
    <2> QED
      BY <2>1, <2>3, <2>4
  <1>11. CASE EmptyIntervalThrows(i) \/ AbortTransaction(i) \/ Disconnect(i)
    <2>1. /\ pc[i] \in {"fetch", "abort", "disconnect"} /\ Exit(i)
          /\ UNCHANGED <<log, position, interruptions>>
      BY <1>11 DEF EmptyIntervalThrows, AbortTransaction, Disconnect
    <2>2. batch'[i] = {}
      BY <1>0, <2>1 DEF Exit, TypeOK
    <2>3. Reached(i)' = Reached(i)
      BY <1>0, <2>1, ReachedAtExit
    <2> QED
      BY <1>0, <2>1, <2>2, <2>3, PaidFrame
  <1>12. CASE Crash(i) \/ Stop(i)
    <2>1. UNCHANGED <<log, position>> /\ interruptions' = interruptions + 1
      BY <1>12 DEF Crash, Stop, Interrupt
    <2>2. CASE Exit(i)
      <3>1. batch'[i] = {}
        BY <1>0, <2>2 DEF Exit, TypeOK
      <3>2. Reached(i)' <= Reached(i) /\ Reached(i) <= Reached(i)' + BlockInterval
        BY <1>0, <2>1, <2>2, ReachedAtExit
      <3> QED
        BY <1>0, <2>1, <3>1, <3>2, PaidFrame
    <2>3. CASE UNCHANGED <<pc, workerVars, txn>>
      BY <1>0, <1>2, <2>1, <2>3 DEF Reached, Restart, initPosition
    <2> QED
      BY <1>12, <2>2, <2>3 DEF Crash, Stop
  <1> QED
    BY <1>3, <1>4, <1>5, <1>6, <1>7, <1>8, <1>9, <1>10, <1>11, <1>12 DEF Next, Step, Disturb

(* Bounded duplication: whatever fails, is killed or is stopped, readers   *)
(* receive at most one batch twice for every interruption. The commit      *)
(* whose acknowledgement is lost is the case that needs the account of     *)
(* duplicates to come.                                                     *)
THEOREM BoundedDuplicates ==
  ASSUME NEW CONSTANT self, Instance = {self}, ~ReadMayFail, Advance # "assign"
  PROVE  Spec => []DuplicatesBounded
  <1>1. Init => PaidInv(self)
    <2> SUFFICES ASSUME Init PROVE PaidInv(self)
      OBVIOUS
    <2>1. Deliveries = {} /\ Topic = {}
      BY DEF Init, Deliveries, Topic, Delivered, DeliveredBy
    <2>2. Above(Reached(self)) = {}
      BY <2>1 DEF Above
    <2>3. BlockInterval * interruptions = 0
      BY ConstantsAssumption DEF Init
    <2> QED
      BY <2>1, <2>2, <2>3, FS_EmptySet DEF Init, PaidInv
  <1>2. /\ TypeOK /\ IInv /\ SoloInv(self) /\ AheadInv(self) /\ PaidInv(self)
        /\ [Next]_vars /\ TypeOK'
        => PaidInv(self)'
    BY PaidInductive
  <1>3. TypeOK /\ PaidInv(self) => DuplicatesBounded
    <2> SUFFICES ASSUME TypeOK, PaidInv(self) PROVE DuplicatesBounded
      OBVIOUS
    <2>1. /\ Topic \in SUBSET BlockHeight /\ Above(Reached(self)) \in SUBSET BlockHeight
      BY ConstantsAssumption DEF Topic, Above, BlockHeight
    <2>2. /\ Cardinality(Topic) \in Nat /\ Cardinality(Above(Reached(self))) \in Nat
          /\ Cardinality(Deliveries) \in Nat
      BY <2>1, BlocksFinite, FS_CardinalityType DEF PaidInv
    <2>3. BlockInterval * interruptions \in Int
      BY ConstantsAssumption DEF TypeOK
    <2> QED
      BY <2>2, <2>3 DEF PaidInv, DuplicatesBounded
  <1> QED
    BY <1>1, <1>2, <1>3, AheadAlways, PTL DEF Spec

=============================================================================
