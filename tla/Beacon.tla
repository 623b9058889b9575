------------------------------- MODULE Beacon -------------------------------
(***************************************************************************)
(* The beacon chain worker (src/src/blockchains/eth_beacon): once per UTC  *)
(* day it compares the balances of all validators with those of the day    *)
(* before, splits the changes into batches that fit a Kafka transaction    *)
(* and hands out one batch per work() call. The position is the slot of    *)
(* the last day that was handed out completely.                            *)
(*                                                                         *)
(* Main.workLoop is kept as its three steps: work, store (one atomic       *)
(* transaction, see Exporter), save. A crash loses the worker's memory.    *)
(* Within work() the awaits are not interleaved with anything that could   *)
(* change that memory, so work() is one step.                              *)
(***************************************************************************)
EXTENDS Integers, Sequences, FiniteSets, SequencesExt

CONSTANTS
  ValidatorCount,     \* number of validators
  SecondsPerSlot,     \* SECONDS_PER_SLOT
  SecondsPerDay,      \* SECONDS_PER_DAY
  SlotsPerEpoch,      \* 32
  GenesisTime,
  StartSlot,          \* START_BLOCK: the variable's value - 1
  StartKey,           \* START_PRIMARY_KEY
  MaxKafkaMessages,   \* MAX_KAFKA_MESSAGES
  MaxSlot,            \* bound: the chain's head
  MaxBalance,         \* bound
  MaxCrashes,         \* bound
  Null

ASSUME BeaconAssumption ==
  /\ ValidatorCount \in Nat
  /\ SecondsPerSlot \in Nat \ {0} /\ SecondsPerDay \in Nat \ {0} /\ SlotsPerEpoch \in Nat \ {0}
  /\ GenesisTime \in Nat /\ StartSlot \in Int /\ StartSlot >= -1 /\ StartKey \in Int
  /\ MaxSlot \in Nat
  /\ MaxKafkaMessages \in Nat \ {0}
  /\ MaxBalance \in Nat /\ MaxCrashes \in Nat /\ Null \notin Int

VARIABLES
  head,                  \* node: latest slot
  balanceAt,             \* node: balances at the slots it is asked for
  pc,                    \* "work", "store" or "save"
  lastExportedBlock, lastPrimaryKey,
  lastState,             \* validator -> [balance, slot], or Null when not in the map
  balancesPreloaded,
  currentDailySlot,
  pendingBatches,
  processingDailySlot, processingChangesCount,
  events,                \* what work() returned
  topic,                 \* Kafka: committed change records
  saved,                 \* ZooKeeper: the position
  crashes

nodeVars   == <<head, balanceAt>>
dayVars    == <<processingDailySlot, processingChangesCount>>
workerVars == <<lastExportedBlock, lastPrimaryKey, lastState, balancesPreloaded,
                currentDailySlot, pendingBatches, dayVars, events>>
vars       == <<nodeVars, workerVars, pc, topic, saved, crashes>>

-----------------------------------------------------------------------------
(* Slots and days.                                                         *)

slotToTimestamp(slot) == GenesisTime + slot * SecondsPerSlot

(* The first slot of the last epoch that begins on that day. *)
getLastUtcDaySlot(dayIndex) ==
  LET slot == (dayIndex * SecondsPerDay + SecondsPerDay - 1 - GenesisTime) \div SecondsPerSlot
  IN slot - (slot % SlotsPerEpoch)

(* Mutant: one day too far after a restart or a finished day. *)
MutantSkipsDay ==
  IF lastExportedBlock = 0
  THEN GenesisTime \div SecondsPerDay
  ELSE slotToTimestamp(lastExportedBlock) \div SecondsPerDay + 2

nextDayIndex ==
  IF lastExportedBlock = 0
  THEN GenesisTime \div SecondsPerDay
  ELSE slotToTimestamp(lastExportedBlock) \div SecondsPerDay + 1

(* The last epoch boundary of each day. *)
DayOf(slot) == slotToTimestamp(slot) \div SecondsPerDay
DailySlot ==
  {s \in 0..MaxSlot : s % SlotsPerEpoch = 0 /\ DayOf(s) # DayOf(s + SlotsPerEpoch)}

(* The slots that are to be exported: those of the days after the start's   *)
(* day, from the genesis day on when the start is slot 0.                   *)
ToExport ==
  {s \in DailySlot : DayOf(s) >= IF StartSlot = 0 THEN DayOf(0) ELSE DayOf(StartSlot) + 1}

(* An epoch is no longer than a day (6.4 minutes), and the genesis day has  *)
(* more than one epoch (the chain's genesis was at noon).                   *)
ASSUME CalendarAssumption ==
  /\ SlotsPerEpoch * SecondsPerSlot <= SecondsPerDay
  /\ 0 \notin DailySlot

-----------------------------------------------------------------------------
(* Balances.                                                               *)

Validator == 1..ValidatorCount

(* The slots whose balances the worker may ask for. *)
AskedSlot == DailySlot \cup {s \in {StartSlot} : s > 0}

ASSUME NullAssumption == \A b \in 0..MaxBalance, s \in AskedSlot : Null # [balance |-> b, slot |-> s]

NoState == [v \in Validator |-> Null]

(* Mutant: a restarted worker begins with an empty state. *)
MutantNoPreload == lastState

(* preloadLastBalances, on the first work() of a process. *)
Preloaded ==
  IF balancesPreloaded \/ lastExportedBlock <= 0
  THEN lastState
  ELSE [v \in Validator |->
          IF balanceAt[lastExportedBlock][v] > 0
          THEN [balance |-> balanceAt[lastExportedBlock][v], slot |-> lastExportedBlock]
          ELSE lastState[v]]

OldBalance(state, v) == IF state[v] = Null THEN 0 ELSE state[v].balance

(* The validators that detectBalanceChanges does not skip. *)
Changed(state, slot) == {v \in Validator : balanceAt[slot][v] # OldBalance(state, v)}

Change(state, slot, v) ==
  [slot |-> slot, validator |-> v, balance |-> balanceAt[slot][v],
   oldBalance |-> OldBalance(state, v),
   oldSlot |-> IF state[v] = Null THEN Null ELSE state[v].slot]

(* The changes of a day, in the order in which the API lists the validators: *)
(* any order will do.                                                        *)
detectBalanceChanges(state, slot) ==
  LET order == SetToSeq(Changed(state, slot))
  IN [n \in 1..Len(order) |-> Change(state, slot, order[n])]

(* What it leaves in lastState. *)
StateAfter(state, slot) ==
  [v \in Validator |->
     IF v \notin Changed(state, slot) THEN state[v]
     ELSE IF balanceAt[slot][v] = 0 THEN Null
     ELSE [balance |-> balanceAt[slot][v], slot |-> slot]]

(* The slices of at most MAX_KAFKA_MESSAGES changes. *)
Slices(changes) ==
  [n \in 1..((Len(changes) + MaxKafkaMessages - 1) \div MaxKafkaMessages) |->
     SubSeq(changes, (n - 1) * MaxKafkaMessages + 1,
            IF n * MaxKafkaMessages < Len(changes) THEN n * MaxKafkaMessages ELSE Len(changes))]

-----------------------------------------------------------------------------
(* work()                                                                  *)

Return(batch) ==
  /\ events' = batch
  /\ pc' = IF batch = <<>> THEN "save" ELSE "store"

(* Mutant: the key advances, the position stays. *)
MutantKeyOnly ==
  /\ lastPrimaryKey' = lastPrimaryKey + processingChangesCount
  /\ processingDailySlot' = Null
  /\ processingChangesCount' = 0
  /\ currentDailySlot' = Null
  /\ UNCHANGED lastExportedBlock

(* Mutant: the day is still current. *)
MutantDayStaysCurrent ==
  /\ lastExportedBlock' = processingDailySlot
  /\ lastPrimaryKey' = lastPrimaryKey + processingChangesCount
  /\ processingDailySlot' = Null
  /\ processingChangesCount' = 0
  /\ UNCHANGED currentDailySlot

CompleteDay ==
  /\ lastExportedBlock' = processingDailySlot
  /\ lastPrimaryKey' = lastPrimaryKey + processingChangesCount
  /\ processingDailySlot' = Null
  /\ processingChangesCount' = 0
  /\ currentDailySlot' = Null

(* A batch of the current day is waiting: with the last one the day is     *)
(* complete.                                                               *)
WorkPending ==
  /\ pc = "work"
  /\ pendingBatches # <<>>
  /\ pendingBatches' = Tail(pendingBatches)
  /\ \/ /\ Len(pendingBatches) = 1 /\ processingDailySlot # Null
        /\ CompleteDay
     \/ /\ Len(pendingBatches) > 1 \/ processingDailySlot = Null
        /\ UNCHANGED <<lastExportedBlock, lastPrimaryKey, dayVars, currentDailySlot>>
  /\ Return(Head(pendingBatches))
  /\ UNCHANGED <<nodeVars, lastState, balancesPreloaded, topic, saved, crashes>>

(* The next day is not over. *)
WorkIdle ==
  /\ pc = "work"
  /\ pendingBatches = <<>>
  /\ currentDailySlot = Null
  /\ getLastUtcDaySlot(nextDayIndex) > head
  /\ lastState' = Preloaded
  /\ balancesPreloaded' = TRUE
  /\ Return(<<>>)
  /\ UNCHANGED <<nodeVars, lastExportedBlock, lastPrimaryKey, currentDailySlot,
                 pendingBatches, dayVars, topic, saved, crashes>>

(* Mutant: the position moves with the first batch of a day. *)
MutantPositionAtFirstBatch(dailySlot) ==
  LET batches == Slices(detectBalanceChanges(Preloaded, dailySlot))
  IN /\ lastState' = StateAfter(Preloaded, dailySlot)
     /\ balancesPreloaded' = TRUE
     /\ currentDailySlot' = dailySlot
     /\ processingDailySlot' = dailySlot
     /\ processingChangesCount' = Cardinality(Changed(Preloaded, dailySlot))
     /\ pendingBatches' = IF batches = <<>> THEN <<>> ELSE Tail(batches)
     /\ Return(IF batches = <<>> THEN <<>> ELSE Head(batches))
     /\ lastExportedBlock' = dailySlot
     /\ UNCHANGED lastPrimaryKey

(* The balances of a day: the first batch is returned at once. *)
ProcessDay(dailySlot) ==
  LET batches == Slices(detectBalanceChanges(Preloaded, dailySlot))
  IN /\ lastState' = StateAfter(Preloaded, dailySlot)
     /\ balancesPreloaded' = TRUE
     /\ currentDailySlot' = dailySlot
     /\ processingDailySlot' = dailySlot
     /\ processingChangesCount' = Cardinality(Changed(Preloaded, dailySlot))
     /\ pendingBatches' = IF batches = <<>> THEN <<>> ELSE Tail(batches)
     /\ Return(IF batches = <<>> THEN <<>> ELSE Head(batches))
     /\ UNCHANGED <<lastExportedBlock, lastPrimaryKey>>

WorkDay ==
  /\ pc = "work"
  /\ pendingBatches = <<>>
  /\ currentDailySlot = Null => getLastUtcDaySlot(nextDayIndex) <= head
  /\ ProcessDay(IF currentDailySlot = Null THEN getLastUtcDaySlot(nextDayIndex)
                                           ELSE currentDailySlot)
  /\ UNCHANGED <<nodeVars, topic, saved, crashes>>

-----------------------------------------------------------------------------
(* Main.workLoop around it, and the node.                                  *)

Store ==
  /\ pc = "store"
  /\ topic' = topic \cup ToSet(events)
  /\ pc' = "save"
  /\ UNCHANGED <<nodeVars, workerVars, saved, crashes>>

Save ==
  /\ pc = "save"
  /\ saved' = [block |-> lastExportedBlock, key |-> lastPrimaryKey]
  /\ pc' = "work"
  /\ UNCHANGED <<nodeVars, workerVars, topic, crashes>>

(* A new process: the constructor's values, and the saved position. *)
Fresh(position) ==
  /\ lastExportedBlock' = position.block
  /\ lastPrimaryKey' = position.key
  /\ lastState' = NoState
  /\ balancesPreloaded' = FALSE
  /\ currentDailySlot' = Null
  /\ pendingBatches' = <<>>
  /\ processingDailySlot' = Null
  /\ processingChangesCount' = 0
  /\ events' = <<>>

Crash ==
  /\ crashes < MaxCrashes
  /\ crashes' = crashes + 1
  /\ Fresh(saved)
  /\ pc' = "work"
  /\ UNCHANGED <<nodeVars, topic, saved>>

(* The chain moves on to the next epoch. *)
GrowChain ==
  /\ head + SlotsPerEpoch <= MaxSlot
  /\ head' = head + SlotsPerEpoch
  /\ UNCHANGED <<balanceAt, workerVars, pc, topic, saved, crashes>>

Init ==
  /\ head = 0
  /\ balanceAt \in [AskedSlot -> [Validator -> 0..MaxBalance]]
  /\ pc = "work"
  /\ lastExportedBlock = StartSlot
  /\ lastPrimaryKey = StartKey
  /\ lastState = NoState
  /\ balancesPreloaded = FALSE
  /\ currentDailySlot = Null
  /\ pendingBatches = <<>>
  /\ processingDailySlot = Null
  /\ processingChangesCount = 0
  /\ events = <<>>
  /\ topic = {}
  /\ saved = [block |-> StartSlot, key |-> StartKey]
  /\ crashes = 0

Work == WorkPending \/ WorkIdle \/ WorkDay

Next == Work \/ Store \/ Save \/ Crash \/ GrowChain

Spec == Init /\ [][Next]_vars

(* The loop goes on, which it can in every state, and days pass. Work, Store *)
(* and Save all move pc, and only Crash moves it otherwise.                  *)
GoesOn == pc' \in {"work", "store", "save"} /\ crashes' = crashes

FairSpec == Spec /\ WF_pc(GoesOn) /\ WF_vars(GrowChain)

-----------------------------------------------------------------------------
(* Properties.                                                             *)

Previous(slot) == {s \in ToExport : s < slot}

(* The balance that was last reported before slot: before the first day it *)
(* is the one at the start, if that is after the genesis.                  *)
BalanceBefore(slot, v) ==
  IF Previous(slot) # {}
  THEN balanceAt[Max(Previous(slot))][v]
  ELSE IF StartSlot > 0 THEN balanceAt[StartSlot][v] ELSE 0

Exported(slot, v) == \E r \in topic : r.slot = slot /\ r.validator = v

(* A saved day is complete: every validator whose balance differs from the *)
(* day before has its record in Kafka for every day up to the saved        *)
(* position, although a day takes several work() calls and saves, and a    *)
(* crash may come between any two of them.                                 *)
SavedDayIsComplete ==
  \A s \in ToExport : \A v \in Validator :
    s <= saved.block /\ balanceAt[s][v] # BalanceBefore(s, v) => Exported(s, v)

(* The saved primary key counts the changes of the saved days, once each,  *)
(* however often a crash made the worker hand them out again.              *)
SavedKeyCounts ==
  saved.key = StartKey + Cardinality({<<r.slot, r.validator>> : r \in {q \in topic : q.slot <= saved.block}})

(* The records chain: a record's old balance is the one of the day before  *)
(* and is true at its old timestamp, also when the worker was restarted    *)
(* and lastState was loaded from the node, or filled for a day that was    *)
(* not finished.                                                           *)
RecordsChain ==
  \A r \in topic :
    /\ r.balance = balanceAt[r.slot][r.validator]
    /\ r.oldBalance = BalanceBefore(r.slot, r.validator)
    /\ r.balance # r.oldBalance
    /\ r.oldSlot # Null => r.oldSlot < r.slot /\ balanceAt[r.oldSlot][r.validator] = r.oldBalance

(* One day is exported after the other: the worker works on the first day  *)
(* after its position, and its slot lies on that day and is over.          *)
DaysInOrder ==
  currentDailySlot # Null =>
    /\ currentDailySlot \in ToExport /\ currentDailySlot <= head
    /\ currentDailySlot > lastExportedBlock
    /\ ~ \E s \in ToExport : lastExportedBlock < s /\ s < currentDailySlot

(* The day has more changes than fit one batch. *)
BigDay(slot) ==
  Cardinality({v \in Validator : balanceAt[slot][v] # BalanceBefore(slot, v)}) > MaxKafkaMessages

(* Every day that is over is eventually exported and saved, crashes in the  *)
(* middle of its batches included, when it and the days before it have more *)
(* changes than fit one batch (see WorkUpdatesPosition for the others).     *)
EveryDayIsExported ==
  \A s \in ToExport :
    (/\ s <= head
     /\ \A d \in Previous(s) \cup {s} : BigDay(d)) ~> (saved.block >= s)

(* The contract of BaseWorker.work(): when it returns, the member          *)
(* variables are updated. After the last batch of a day the position is    *)
(* that day's.                                                             *)
WorkUpdatesPosition ==
  pc \in {"store", "save"} /\ pendingBatches = <<>> /\ events # <<>> =>
    lastExportedBlock = events[1].slot

=============================================================================
