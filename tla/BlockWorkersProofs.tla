------------------------- MODULE BlockWorkersProofs --------------------------
(***************************************************************************)
(* Proofs about the workers that ask for blocks one by one: the position    *)
(* of all four, what the XRP and UTXO workers, which export a block as one  *)
(* event, put into Kafka, and what the ICP and ICRC workers make of the     *)
(* operations of a block, with the keys of all four, and the balances that  *)
(* the exported transfers of ICP and ICRC add up to.                        *)
(***************************************************************************)
EXTENDS BlockWorkers, ArrayProofs, FiniteSetTheorems, TLAPS

(* By how much the position may go back. *)
Rewind == IF worker = "xrp" THEN MaxLag ELSE 0

(* Every height is one that the chain has confirmed, and what a process      *)
(* knows is behind its position, and the saved one, by no more than the lag. *)
Heights ==
  /\ tip \in Int /\ tip >= Confirmations + MaxLag
  /\ pc \in {"init", "work", "fetch", "store", "save"}
  /\ saved.block \in Nat /\ saved.block <= tip - Confirmations
  /\ lastExportedBlock \in Nat /\ lastExportedBlock <= tip - Confirmations
  /\ lastExportedBlock >= saved.block - Rewind
  /\ pc \notin {"store", "save"} => lastExportedBlock = saved.block
  /\ pc # "init" => /\ lastConfirmedBlock \in Nat
                    /\ lastConfirmedBlock <= tip - Confirmations
                    /\ lastConfirmedBlock >= saved.block - MaxLag
                    /\ lastConfirmedBlock >= lastExportedBlock - MaxLag

Request ==
  [stage : {"getblockhash", "block", "done"}, failed : Int,
   answer : {"none", "unvalidated"} \cup {chain[b] : b \in Int}]

(* The requests in flight are those of the interval, and one that is done    *)
(* has the contents of its own block, unless they were not validated.       *)
Requests ==
  pc = "fetch" =>
    /\ requests \in [(lastExportedBlock + 1)..ToBlock(lastConfirmedBlock) -> Request]
    /\ \A b \in DOMAIN requests :
         requests[b].stage = "done" => requests[b].answer \in {chain[b], "unvalidated"}

IsLedger(e) == e.transfer = chain[e.block] /\ e.primaryKey = e.block /\ e.index = 1

InTopic(b) == \E e \in topic : e.block = b

InEvents(b) == \E i \in DOMAIN events : events[i].block = b

(* XRP and UTXO: what is returned or committed is what the chain holds, and  *)
(* every block up to the position is committed, or handed out and about to   *)
(* be.                                                                       *)
Ledgers ==
  worker \in {"xrp", "utxo"} =>
    /\ \A e \in topic : IsLedger(e)
    /\ \A i \in DOMAIN events : IsLedger(events[i])
    /\ \A i, j \in DOMAIN events : i < j => events[i].primaryKey < events[j].primaryKey
    /\ \A b \in 1..saved.block : InTopic(b)
    /\ pc = "store" => \A b \in 1..lastExportedBlock : InTopic(b) \/ InEvents(b)
    /\ pc = "save" => \A b \in 1..lastExportedBlock : InTopic(b)

IInv == Heights /\ Requests /\ Ledgers

-----------------------------------------------------------------------------
(* The interval.                                                           *)

(* The interval ends at the confirmed block or after a whole batch. *)
LEMMA Interval ==
  ASSUME Heights, pc # "init"
  PROVE  /\ ToBlock(lastConfirmedBlock) \in Nat
         /\ ToBlock(lastConfirmedBlock) <= lastConfirmedBlock
         /\ ToBlock(lastConfirmedBlock) < lastExportedBlock =>
              ToBlock(lastConfirmedBlock) = lastConfirmedBlock
  BY BlockWorkersAssumption DEF Heights, ToBlock, nextIntervalCalculator, Minimum

(* The requests are as many as the interval is long. *)
LEMMA Counted ==
  ASSUME NEW p \in Nat, NEW q \in Nat
  PROVE  /\ Cardinality((p + 1)..q) \in Nat
         /\ p + Cardinality((p + 1)..q) = IF q < p THEN p ELSE q
  <1>1. Cardinality((p + 1)..q) = IF p + 1 > q THEN 0 ELSE q - (p + 1) + 1
    BY FS_Interval
  <1> QED
    BY <1>1

-----------------------------------------------------------------------------
(* One lemma for each kind of step.                                        *)

(* A process ends, for whatever reason: the next one starts at the saved    *)
(* position.                                                                *)
LEMMA FreshStep ==
  ASSUME IInv, Fresh, UNCHANGED <<nodeVars, topic, saved>>
  PROVE  IInv'
  <1>1. /\ pc' = "init" /\ lastExportedBlock' = saved.block /\ events' = <<>>
        /\ worker' = worker /\ tip' = tip /\ chain' = chain /\ topic' = topic /\ saved' = saved
    BY DEF Fresh, nodeVars
  <1>2. Heights'
    BY <1>1, BlockWorkersAssumption DEF IInv, Heights, Rewind
  <1>3. Requests'
    BY <1>1 DEF Requests
  <1>4. Ledgers'
    BY <1>1 DEF IInv, Ledgers, IsLedger, InTopic
  <1> QED
    BY <1>2, <1>3, <1>4 DEF IInv

(* What is confirmed stays confirmed. *)
LEMMA Later ==
  ASSUME NEW s \in Int, NEW t \in Int, s <= t, NEW c \in Nat, NEW m \in Nat
  PROVE  /\ s >= c + m => t >= c + m
         /\ \A x \in Nat : x <= s - c => x <= t - c
  OBVIOUS

(* Nothing that matters changes, or the chain grows. *)
LEMMA QuietStep ==
  ASSUME IInv, tip' \in Int, tip <= tip',
         UNCHANGED <<worker, chain, pc, lastConfirmedBlock, lastExportedBlock, requests, events,
                     topic, saved>>
  PROVE  IInv'
  <1>1. Heights'
    <2>1. tip \in Int /\ Confirmations \in Nat /\ MaxLag \in Nat
      BY BlockWorkersAssumption DEF IInv, Heights
    <2>2. /\ tip >= Confirmations + MaxLag => tip' >= Confirmations + MaxLag
          /\ \A x \in Nat : x <= tip - Confirmations => x <= tip' - Confirmations
      BY <2>1, Later
    <2>3. Rewind' = Rewind
      BY DEF Rewind
    <2> QED
      BY <2>2, <2>3 DEF IInv, Heights
  <1>2. Requests'
    BY DEF IInv, Requests, Request, ToBlock
  <1>3. Ledgers'
    BY DEF IInv, Ledgers, IsLedger, InTopic, InEvents
  <1> QED
    BY <1>1, <1>2, <1>3 DEF IInv

(* The heights that a replica reports. *)
LEMMA HeightFacts ==
  ASSUME Heights, NEW h \in ReportedHeights
  PROVE  /\ h \in Nat /\ h <= tip - Confirmations
         /\ h >= saved.block - MaxLag /\ h >= lastExportedBlock - MaxLag
  BY BlockWorkersAssumption DEF Heights, ReportedHeights, ReportedTip

(* init() takes a reported height. *)
LEMMA InitStep ==
  ASSUME IInv, InitWorker
  PROVE  IInv'
  <1>1. /\ pc = "init" /\ pc' = "work" /\ lastConfirmedBlock' \in ReportedHeights
        /\ UNCHANGED <<worker, tip, chain, lastExportedBlock, requests, events, topic, saved>>
    BY DEF InitWorker, nodeVars
  <1>2. Heights'
    BY <1>1, HeightFacts, BlockWorkersAssumption DEF IInv, Heights, Rewind
  <1>3. Requests'
    BY <1>1 DEF Requests
  <1>4. Ledgers'
    BY <1>1 DEF IInv, Ledgers, IsLedger, InTopic, InEvents
  <1> QED
    BY <1>2, <1>3, <1>4 DEF IInv

(* Nothing to do: the position is saved again. *)
LEMMA IdleStep ==
  ASSUME IInv, WorkIdle
  PROVE  IInv'
  <1>1. /\ pc = "work" /\ pc' = "save" /\ events' = <<>>
        /\ UNCHANGED <<worker, tip, chain, lastConfirmedBlock, lastExportedBlock, requests,
                       topic, saved>>
    BY DEF WorkIdle, nodeVars
  <1>2. Heights'
    BY <1>1, BlockWorkersAssumption DEF IInv, Heights, Rewind
  <1>3. Requests'
    BY <1>1 DEF Requests
  <1>4. Ledgers'
    BY <1>1 DEF IInv, Heights, Ledgers, IsLedger, InTopic, InEvents
  <1> QED
    BY <1>2, <1>3, <1>4 DEF IInv

(* The confirmed block is the known one or a reported one, and no request is *)
(* answered yet.                                                             *)
LEMMA StartStep ==
  ASSUME IInv, StartRequests
  PROVE  IInv'
  <1>1. PICK h \in ReportedHeights :
          /\ lastConfirmedBlock' = Context(h).confirmed
          /\ requests' = [b \in (lastExportedBlock + 1)..ToBlock(Context(h).confirmed) |->
                            [stage |-> FirstStage, failed |-> 0, answer |-> "none"]]
    BY DEF StartRequests
  <1>2. /\ pc = "work" /\ pc' = "fetch"
        /\ UNCHANGED <<worker, tip, chain, lastExportedBlock, events, topic, saved>>
    BY DEF StartRequests, nodeVars
  <1>3. lastConfirmedBlock' \in {lastConfirmedBlock, h}
    BY <1>1 DEF Context, analyzeWorkerContext, equalityContext
  <1>4. Heights'
    BY <1>2, <1>3, HeightFacts, BlockWorkersAssumption DEF IInv, Heights, Rewind
  <1>5. Requests'
    <2>1. ToBlock(lastConfirmedBlock)' = ToBlock(Context(h).confirmed)
      BY <1>1, <1>2 DEF ToBlock
    <2>2. [stage |-> FirstStage, failed |-> 0, answer |-> "none"] \in Request'
      BY DEF Request, FirstStage
    <2>3. FirstStage # "done"
      BY DEF FirstStage
    <2> QED
      BY <1>1, <1>2, <2>1, <2>2, <2>3 DEF Requests
  <1>6. Ledgers'
    BY <1>2 DEF IInv, Ledgers, IsLedger, InTopic, InEvents
  <1> QED
    BY <1>4, <1>5, <1>6 DEF IInv

(* One request moves on: it is answered for its own block, asked again, or   *)
(* comes without validation.                                                *)
LEMMA RequestStep ==
  ASSUME IInv, pc = "fetch", NEW b \in DOMAIN requests, NEW r \in Request,
         r.stage = "done" => r.answer \in {chain[b], "unvalidated"},
         requests' = [requests EXCEPT ![b] = r], fetchUnchanged
  PROVE  IInv'
  <1>1. UNCHANGED <<worker, tip, chain, pc, lastConfirmedBlock, lastExportedBlock, events, topic,
                    saved>>
    BY DEF fetchUnchanged, nodeVars
  <1>2. Heights'
    BY <1>1, BlockWorkersAssumption DEF IInv, Heights, Rewind
  <1>3. Requests'
    BY <1>1 DEF IInv, Requests, Request, ToBlock
  <1>4. Ledgers'
    BY <1>1 DEF IInv, Ledgers, IsLedger, InTopic, InEvents
  <1> QED
    BY <1>2, <1>3, <1>4 DEF IInv

(* The batch is complete: the position of XRP is the end of the interval,    *)
(* that of the others counts the requests.                                   *)
LEMMA FinishStep ==
  ASSUME IInv, FinishWork
  PROVE  IInv'
  <1> DEFINE p    == lastExportedBlock
             last == ToBlock(lastConfirmedBlock)
  <1>1. /\ pc = "fetch" /\ Pending = {} /\ BatchAccepted
        /\ events' = extendTransactionsWithPrimaryKey(Transactions)
        /\ lastExportedBlock' = NewPosition
        /\ pc' = IF events' = <<>> THEN "save" ELSE "store"
        /\ UNCHANGED <<worker, tip, chain, lastConfirmedBlock, topic, saved>>
    BY DEF FinishWork, nodeVars
  <1>2. /\ p \in Nat /\ p = saved.block
        /\ last \in Nat /\ last <= lastConfirmedBlock
        /\ last < p => last = lastConfirmedBlock
        /\ lastConfirmedBlock \in Nat /\ lastConfirmedBlock <= tip - Confirmations
        /\ lastConfirmedBlock >= p - MaxLag /\ tip \in Int /\ p <= tip - Confirmations
    BY <1>1, Interval DEF IInv, Heights
  <1>3. DOMAIN requests = (p + 1)..last
    BY <1>1 DEF IInv, Requests
  <1>4. lastExportedBlock' = IF worker = "xrp" \/ last >= p THEN last ELSE p
    <2>1. p + Cardinality(DOMAIN requests) = IF last < p THEN p ELSE last
      BY <1>2, <1>3, Counted
    <2>2. last < p <=> ~(last >= p)
      BY <1>2
    <2> QED
      BY <1>1, <2>1, <2>2 DEF NewPosition
  <1>5. Heights'
    <2>1. /\ lastExportedBlock' \in Nat /\ lastExportedBlock' <= tip - Confirmations
          /\ lastExportedBlock' >= p - Rewind
          /\ lastConfirmedBlock >= lastExportedBlock' - MaxLag
      BY <1>2, <1>4, BlockWorkersAssumption DEF Rewind
    <2>2. pc' \in {"store", "save"} /\ Rewind' = Rewind
      BY <1>1 DEF Rewind
    <2> QED
      BY <1>1, <1>2, <2>1, <2>2 DEF IInv, Heights
  <1>6. Requests'
    BY <1>1 DEF Requests
  <1>7. Ledgers'
    <2> SUFFICES ASSUME worker \in {"xrp", "utxo"}
                 PROVE  Ledgers'
      BY <1>1 DEF Ledgers
    <2> DEFINE n == Cardinality(DOMAIN requests)
    <2>1. /\ n \in Nat /\ DOMAIN requests = (p + 1)..(p + n)
          /\ \A b \in 1..last : b \in 1..p \/ b - p \in 1..n
      <3>1. n \in Nat /\ p + n = IF last < p THEN p ELSE last
        BY <1>2, <1>3, Counted
      <3> HIDE DEF n, last
      <3>2. (p + 1)..last = (p + 1)..(p + n)
        BY <1>2, <3>1
      <3>3. \A b \in 1..last : b \in 1..p \/ b - p \in 1..n
        BY <1>2, <3>1
      <3> QED
        BY <1>3, <3>1, <3>2, <3>3
    <2>2. ASSUME NEW b \in DOMAIN requests
          PROVE  requests[b].answer = chain[b]
      <3>1. requests[b].stage = "done"
        BY <1>1 DEF Pending
      <3>2. requests[b].answer # "unvalidated"
        BY <1>1 DEF BatchAccepted, Parses, validateXRPTransaction
      <3> QED
        BY <1>1, <3>1, <3>2 DEF IInv, Requests
    <2>3. Transactions = [i \in 1..n |-> LedgerEvent(p + i)]
      BY DEF Transactions
    <2>4. Len(Transactions) = n
      BY <2>1, <2>3
    <2>5. /\ DOMAIN events' = 1..n
          /\ \A i \in 1..n : /\ events'[i].block = p + i /\ events'[i].index = 1
                             /\ events'[i].transfer = requests[p + i].answer
                             /\ events'[i].primaryKey = p + i
      BY <1>1, <2>3, <2>4 DEF extendTransactionsWithPrimaryKey, LedgerEvent
    <2>6. \A i \in DOMAIN events' : IsLedger(events[i])'
      <3> SUFFICES ASSUME NEW i \in 1..n PROVE IsLedger(events[i])'
        BY <2>5
      <3>1. p + i \in DOMAIN requests
        BY <1>2, <2>1
      <3>2. requests[p + i].answer = chain'[p + i]
        BY <1>1, <2>2, <3>1
      <3>3. /\ events'[i].block = p + i /\ events'[i].index = 1
            /\ events'[i].transfer = requests[p + i].answer /\ events'[i].primaryKey = p + i
        BY <2>5
      <3> QED
        BY <3>2, <3>3 DEF IsLedger
    <2>7. \A i, j \in DOMAIN events' : i < j => events'[i].primaryKey < events'[j].primaryKey
      BY <1>2, <2>1, <2>5
    <2>8. \A e \in topic' : IsLedger(e)'
      BY <1>1 DEF IInv, Ledgers, IsLedger
    <2>9. \A b \in 1..p : InTopic(b)'
      BY <1>1, <1>2 DEF IInv, Ledgers, InTopic
    <2>10. \A b \in 1..lastExportedBlock' : b \in 1..p \/ b - p \in 1..n
      BY <1>2, <1>4, <2>1
    <2>11. \A b \in 1..lastExportedBlock' : InTopic(b)' \/ InEvents(b)'
      <3> SUFFICES ASSUME NEW b \in 1..lastExportedBlock', b - p \in 1..n
                   PROVE  InEvents(b)'
        BY <2>9, <2>10
      <3>1. events'[b - p].block = p + (b - p)
        BY <2>5
      <3>2. lastExportedBlock' \in Nat
        BY <1>2, <1>4
      <3>3. p + (b - p) = b
        BY <1>2, <3>2
      <3> QED
        BY <2>5, <3>1, <3>3 DEF InEvents
    <2>12. pc' = "save" => \A b \in 1..lastExportedBlock' : ~InEvents(b)'
      BY <1>1 DEF InEvents
    <2>13. \A b \in 1..saved'.block : InTopic(b)'
      BY <1>1, <1>2, <2>9
    <2>14. pc' = "save" => \A b \in 1..lastExportedBlock' : InTopic(b)'
      BY <2>11, <2>12
    <2> HIDE DEF n, last, p
    <2> QED
      BY <2>6, <2>7, <2>8, <2>11, <2>13, <2>14 DEF Ledgers
  <1> QED
    BY <1>5, <1>6, <1>7 DEF IInv

(* The returned events are committed. *)
LEMMA StoreStep ==
  ASSUME IInv, Store
  PROVE  IInv'
  <1>1. /\ pc = "store" /\ pc' = "save" /\ topic' = topic \cup {events[i] : i \in DOMAIN events}
        /\ UNCHANGED <<worker, tip, chain, lastConfirmedBlock, lastExportedBlock, requests,
                       events, saved>>
    BY DEF Store, nodeVars, workerVars
  <1>2. Heights'
    BY <1>1, BlockWorkersAssumption DEF IInv, Heights, Rewind
  <1>3. Requests'
    BY <1>1 DEF Requests
  <1>4. Ledgers'
    <2>1. \A b : InTopic(b) \/ InEvents(b) => InTopic(b)'
      BY <1>1 DEF InTopic, InEvents
    <2>2. \A e : IsLedger(e)' <=> IsLedger(e)
      BY <1>1 DEF IsLedger
    <2> QED
      BY <1>1, <2>1, <2>2 DEF IInv, Ledgers
  <1> QED
    BY <1>2, <1>3, <1>4 DEF IInv

(* The position is saved once its events are committed. *)
LEMMA SaveStep ==
  ASSUME IInv, Save
  PROVE  IInv'
  <1>1. /\ pc = "save" /\ pc' = "work" /\ saved'.block = lastExportedBlock
        /\ UNCHANGED <<worker, tip, chain, lastConfirmedBlock, lastExportedBlock, requests,
                       events, topic>>
    BY DEF Save, nodeVars, workerVars
  <1>2. Heights'
    BY <1>1, BlockWorkersAssumption DEF IInv, Heights, Rewind
  <1>3. Requests'
    BY <1>1 DEF Requests
  <1>4. Ledgers'
    BY <1>1 DEF IInv, Ledgers, IsLedger, InTopic, InEvents
  <1> QED
    BY <1>2, <1>3, <1>4 DEF IInv

(* Requests that are answered, repeated or refused. *)
LEMMA FetchStep ==
  ASSUME IInv, NEW b \in Pending,
         Answer(b) \/ Retry(b) \/ EmptyLedger(b) \/ UnvalidatedLedger(b) \/ GiveUp(b)
  PROVE  IInv'
  <1>1. b \in DOMAIN requests /\ pc = "fetch"
    BY DEF Pending, Answer, Retry, EmptyLedger, UnvalidatedLedger, GiveUp
  <1>2. /\ requests[b] \in Request /\ requests[b].stage # "done"
        /\ requests = [x \in DOMAIN requests |-> requests[x]]
        /\ b \in Int
    <2>1. /\ requests \in [(lastExportedBlock + 1)..ToBlock(lastConfirmedBlock) -> Request]
          /\ lastExportedBlock \in Nat /\ ToBlock(lastConfirmedBlock) \in Nat
      BY <1>1, Interval DEF IInv, Heights, Requests
    <2> QED
      BY <1>1, <2>1 DEF Pending
  <1>3. CASE Answer(b)
    <2> DEFINE r == IF requests[b].stage = "getblockhash"
                    THEN [requests[b] EXCEPT !.stage = "block", !.failed = 0]
                    ELSE [requests[b] EXCEPT !.stage = "done", !.answer = chain[b]]
    <2>1. requests' = [requests EXCEPT ![b] = r] /\ fetchUnchanged
      BY <1>3 DEF Answer
    <2>2. CASE requests[b].stage = "getblockhash"
      <3>1. r = [requests[b] EXCEPT !.stage = "block", !.failed = 0]
        BY <2>2
      <3>2. r = [stage |-> "block", failed |-> 0, answer |-> requests[b].answer]
        BY <1>2, <3>1 DEF Request
      <3> HIDE DEF r
      <3>3. requests[b].answer \in {"none", "unvalidated"} \cup {chain[x] : x \in Int}
        BY <1>2 DEF Request
      <3>4. r \in Request /\ r.stage # "done"
        BY <3>2, <3>3 DEF Request
      <3> QED
        BY <1>1, <2>1, <3>4, RequestStep
    <2>3. CASE requests[b].stage # "getblockhash"
      <3>1. r = [requests[b] EXCEPT !.stage = "done", !.answer = chain[b]]
        BY <2>3
      <3>2. r \in Request /\ r.answer = chain[b]
        BY <1>2, <3>1 DEF Request
      <3> HIDE DEF r
      <3> QED
        BY <1>1, <2>1, <3>2, RequestStep
    <2> QED
      BY <2>2, <2>3
  <1>4. CASE Retry(b) \/ EmptyLedger(b)
    <2> DEFINE r == [requests[b] EXCEPT !.failed = @ + 1]
    <2>1. requests' = [requests EXCEPT ![b] = r] /\ fetchUnchanged
      BY <1>4, <1>1 DEF Retry, EmptyLedger
    <2>2. r \in Request /\ r.stage # "done"
      BY <1>2 DEF Request
    <2> HIDE DEF r
    <2> QED
      BY <1>1, <2>1, <2>2, RequestStep
  <1>5. CASE UnvalidatedLedger(b)
    <2> DEFINE r == [requests[b] EXCEPT !.stage = "done", !.answer = "unvalidated"]
    <2>1. requests' = [requests EXCEPT ![b] = r] /\ fetchUnchanged
      BY <1>5, <1>1 DEF UnvalidatedLedger
    <2>2. r \in Request /\ r.answer = "unvalidated"
      BY <1>2 DEF Request
    <2> HIDE DEF r
    <2> QED
      BY <1>1, <2>1, <2>2, RequestStep
  <1>6. CASE GiveUp(b)
    BY <1>6, FreshStep DEF GiveUp
  <1> QED
    BY <1>3, <1>4, <1>5, <1>6

-----------------------------------------------------------------------------
(* Theorems.                                                               *)

(* A first process starts before the first block. *)
LEMMA InvInitially == Init => IInv
  <1> SUFFICES ASSUME Init PROVE IInv
    OBVIOUS
  <1>1. Heights
    BY BlockWorkersAssumption DEF Init, Heights, Rewind
  <1>2. Requests /\ Ledgers
    BY DEF Init, Requests, Ledgers
  <1> QED
    BY <1>1, <1>2 DEF IInv

(* Every step keeps the invariant. *)
LEMMA InvInductive ==
  ASSUME IInv, [Next]_vars
  PROVE  IInv'
  <1>1. tip \in Int
    BY DEF IInv, Heights
  <1>2. CASE WorkThrows \/ AnswerOverBrokenConnection \/ BatchThrows
    BY <1>2, FreshStep DEF WorkThrows, AnswerOverBrokenConnection, BatchThrows, Throw
  <1>3. CASE Crash \/ HeightRefused
    BY <1>3, FreshStep DEF Crash, HeightRefused
  <1>4. CASE recordConnectionError
    BY <1>1, <1>4, QuietStep DEF recordConnectionError, nodeVars
  <1>5. CASE GrowChain
    BY <1>1, <1>5, QuietStep DEF GrowChain, workerVars
  <1>6. CASE UNCHANGED vars
    BY <1>1, <1>6, QuietStep DEF vars, nodeVars, workerVars
  <1> QED
    BY <1>2, <1>3, <1>4, <1>5, <1>6, InitStep, IdleStep, StartStep, FetchStep, FinishStep,
       StoreStep, SaveStep DEF Next, Step, Fault

(* So it holds in every reachable state. *)
LEMMA InvAlways == Spec => []IInv
  BY InvInitially, InvInductive, PTL DEF Spec

(* The saved position of ICP, ICRC and UTXO never moves back, and that of    *)
(* XRP by no more than a replica lags, although it may go back again after   *)
(* each new height: the cached height is never further behind the saved      *)
(* position than the lag.                                                    *)
THEOREM Rewinds == Spec => RewindsOnlyByLag
  <1>1. ASSUME IInv, [Next]_vars PROVE [StaysWithinLag]_vars
    <2>1. CASE Save
      BY <1>1, <2>1 DEF Save, IInv, Heights, Rewind, StaysWithinLag
    <2>2. CASE saved' = saved
      <3>1. saved.block >= saved.block - (IF worker = "xrp" THEN MaxLag ELSE 0)
        BY <1>1, BlockWorkersAssumption DEF IInv, Heights
      <3> QED
        BY <2>2, <3>1 DEF StaysWithinLag
    <2>3. saved' = saved \/ Save
      BY <1>1 DEF Next, Step, Fault, InitWorker, WorkThrows, WorkIdle, StartRequests, Answer,
         AnswerOverBrokenConnection, FinishWork, BatchThrows, Store, Crash, HeightRefused,
         recordConnectionError, Retry, EmptyLedger, UnvalidatedLedger, GiveUp, GrowChain, Throw,
         fetchUnchanged, vars
    <2> QED
      BY <2>1, <2>2, <2>3
  <1> QED
    BY <1>1, InvAlways, PTL DEF Spec, RewindsOnlyByLag

(* XRP and UTXO: every block up to the saved position is in Kafka, and with  *)
(* its own contents, in whatever order the answers come, whichever of them   *)
(* come empty, unvalidated or not at all, and although XRP may go back.      *)
THEOREM OwnContents == Spec => []LedgersAgree
  <1>1. ASSUME IInv PROVE LedgersAgree
    <2> SUFFICES ASSUME worker \in {"xrp", "utxo"}
                 PROVE  /\ \A e \in topic : e.transfer = chain[e.block]
                        /\ \A b \in 1..saved.block : \E e \in topic : e.block = b
      BY DEF LedgersAgree
    <2> QED
      BY <1>1 DEF IInv, Ledgers, IsLedger, InTopic
  <1> QED
    BY <1>1, InvAlways, PTL

-----------------------------------------------------------------------------
(* The transfers of ICP and ICRC.                                          *)

OpsWorkers == {"icp", "icrc"}

(* The transfers of the blocks of the chain, and how many there are up to a   *)
(* block                                                                     *)
ChainTransfers == [b \in Block |-> TransfersOf(chain[b])]

Before == CHOOSE off : IsLayout(off, ChainTransfers)

(* An event of a block of the chain. An ICP key counts from the first block. *)
IsTransferEvent(e) ==
  /\ e.block \in Block
  /\ e.index \in 1..Len(ChainTransfers[e.block])
  /\ e.transfer = ChainTransfers[e.block][e.index]
  /\ worker = "icp" => e.primaryKey = Before[e.block - 1] + e.index

(* All transfers of a block are in E. *)
HasBlock(E, b) ==
  \A i \in 1..Len(ChainTransfers[b]) : \E e \in E : e.block = b /\ e.index = i

Returned == {events[i] : i \in DOMAIN events}

(* ICP and ICRC: what is returned or committed are the transfers of the       *)
(* chain, all of them up to the position, and the ICP key counts them.       *)
Operations ==
  worker \in OpsWorkers =>
    /\ chain \in [Block -> Contents]
    /\ lastExportedBlock \in {0} \cup Block
    /\ saved.block \in {0} \cup Block
    /\ pc # "init" => lastConfirmedBlock <= MaxTip - Confirmations
    /\ pc = "fetch" => \A b \in DOMAIN requests :
         requests[b].stage = "done" => requests[b].answer = chain[b]
    /\ \A e \in topic : IsTransferEvent(e)
    /\ \A e \in Returned : IsTransferEvent(e)
    /\ \A i, j \in DOMAIN events : i < j => events[i].primaryKey < events[j].primaryKey
    /\ \A b \in 1..saved.block : HasBlock(topic, b)
    /\ pc = "store" => \A b \in (saved.block + 1)..lastExportedBlock : HasBlock(Returned, b)
    /\ pc = "save" => \A b \in 1..lastExportedBlock : HasBlock(topic, b)
    /\ worker = "icp" => /\ saved.key = Before[saved.block]
                         /\ lastPrimaryKey = Before[lastExportedBlock]

Operation ==
  [type : IcrcTypes \cup {"TRANSACTION"}, account : {"a", "b", "c"}, value : Int, index : 0..3,
   spender : {"c"}]

AnyTransfer ==
  [from : {"a", "b", "c", "burn", "mint"}, to : {"a", "b", "c", "burn", "mint"}, value : Int,
   type : IcrcTypes \cup {"TRANSACTION"}]

(* An operation of the ledgers *)
LEMMA OpIsOperation ==
  ASSUME NEW type \in IcrcTypes \cup {"TRANSACTION"}, NEW account \in {"a", "b", "c"},
         NEW value \in Int, NEW index \in 0..3
  PROVE  Op(type, account, value, index) \in Operation
  BY DEF Op, Operation

(* The blocks of the ledgers are transactions of operations. *)
LEMMA LedgerBlocks ==
  ASSUME NEW content \in IcpBlocks \cup IcrcBlocks
  PROVE  content \in Seq(Seq(Operation))
  <1> DEFINE O == Operation
  <1>1. /\ Op("TRANSACTION", "a", -3, 0) \in O /\ Op("TRANSACTION", "b", 3, 1) \in O
        /\ Op("FEE", "a", -1, 2) \in O /\ Op("TRANSACTION", "a", 2, 0) \in O
        /\ Op("TRANSACTION", "b", -2, 1) \in O /\ Op("FEE", "b", -1, 2) \in O
        /\ Op("MINT", "a", 4, 0) \in O /\ Op("APPROVE", "b", 5, 0) \in O
        /\ Op("FEE", "b", -1, 1) \in O
    BY OpIsOperation DEF IcrcTypes
  <1>2. /\ Op("TRANSFER", "a", -3, 0) \in O /\ Op("TRANSFER", "b", 3, 1) \in O
        /\ Op("FEE_COLLECTOR", "c", 1, 3) \in O /\ Op("SPENDER", "c", 0, 0) \in O
        /\ Op("TRANSFER", "b", 0, 1) \in O /\ Op("TRANSFER", "a", 0, 2) \in O
        /\ Op("FEE", "b", -1, 3) \in O /\ Op("BURN", "b", -2, 0) \in O
    BY OpIsOperation DEF IcrcTypes
  <1> SUFFICES content \in Seq(Seq(O))
    OBVIOUS
  <1> HIDE DEF O
  <1>3. \A x, y \in Seq(O) : /\ <<>> \in Seq(Seq(O)) /\ <<x>> \in Seq(Seq(O))
                             /\ <<x, y>> \in Seq(Seq(O))
    OBVIOUS
  <1>4. \A x, y, z, u \in O : /\ <<x>> \in Seq(O) /\ <<x, y>> \in Seq(O)
                              /\ <<x, y, z>> \in Seq(O) /\ <<x, y, z, u>> \in Seq(O)
    OBVIOUS
  <1>5. CASE content \in IcpBlocks
    <2> DEFINE t1 == <<Op("TRANSACTION", "a", -3, 0), Op("TRANSACTION", "b", 3, 1),
                       Op("FEE", "a", -1, 2)>>
               t2 == <<Op("TRANSACTION", "a", 2, 0), Op("TRANSACTION", "b", -2, 1),
                       Op("FEE", "b", -1, 2)>>
               t3 == <<Op("MINT", "a", 4, 0)>>
               t4 == <<Op("APPROVE", "b", 5, 0), Op("FEE", "b", -1, 1)>>
    <2>1. t1 \in Seq(O) /\ t2 \in Seq(O) /\ t3 \in Seq(O) /\ t4 \in Seq(O)
      BY ONLY <1>1, <1>4
    <2>2. content \in {<<t1>>, <<t2, t3>>, <<t4>>, <<>>}
      BY <1>5 DEF IcpBlocks
    <2> HIDE DEF t1, t2, t3, t4
    <2> QED
      BY ONLY <1>3, <2>1, <2>2
  <1>6. CASE content \in IcrcBlocks
    <2> DEFINE t1 == <<Op("TRANSFER", "a", -3, 0), Op("TRANSFER", "b", 3, 1),
                       Op("FEE", "a", -1, 2), Op("FEE_COLLECTOR", "c", 1, 3)>>
               t2 == <<Op("SPENDER", "c", 0, 0), Op("TRANSFER", "b", 0, 1),
                       Op("TRANSFER", "a", 0, 2), Op("FEE", "b", -1, 3)>>
               t3 == <<Op("BURN", "b", -2, 0)>>
               t4 == <<Op("MINT", "a", 4, 0)>>
    <2>1. t1 \in Seq(O) /\ t2 \in Seq(O) /\ t3 \in Seq(O) /\ t4 \in Seq(O)
      BY ONLY <1>1, <1>2, <1>4
    <2>2. content \in {<<t1>>, <<t2>>, <<t3, t4>>}
      BY <1>6 DEF IcrcBlocks
    <2> HIDE DEF t1, t2, t3, t4
    <2> QED
      BY ONLY <1>3, <2>1, <2>2
  <1> QED
    BY <1>5, <1>6

(* Parts of a kind make a whole of that kind. *)
LEMMA FlattenAny ==
  ASSUME NEW ss, NEW n \in Nat, ss = [i \in 1..n |-> ss[i]],
         NEW X, \A i \in 1..n : ss[i] \in Seq(X)
  PROVE  FlattenSeq(ss) \in Seq(X)
  <1>1. ss \in Seq(Seq(X))
    OBVIOUS
  <1> QED
    BY <1>1, FlattenLayout

(* The last of some operations *)
LEMMA LastOf ==
  ASSUME NEW n \in Nat, NEW S, S \subseteq 1..n, S # {}
  PROVE  Max(S) \in S
  <1>1. PICK x \in S : TRUE
    OBVIOUS
  <1>2. S \subseteq Int /\ n \in Int /\ \A y \in S : y <= n
    OBVIOUS
  <1> QED
    BY ONLY <1>1, <1>2, MaxExists

(* What an ICP operation appends are transfers. *)
LEMMA IcpOperationAppends ==
  ASSUME NEW ops \in Seq(Operation), NEW k \in 1..Len(ops)
  PROVE  IcpOperation(ops, k) \in Seq(AnyTransfer)
  <1>1. \A j \in 1..Len(ops) :
          /\ ops[j].account \in {"a", "b", "c"} /\ ops[j].value \in Int /\ ops[j].spender = "c"
          /\ Unsigned(ops[j]) \in Int
    <2>1. \A x \in Operation : /\ x.account \in {"a", "b", "c"} /\ x.value \in Int /\ x.spender = "c"
                               /\ Unsigned(x) \in Int
      BY DEF Operation, Unsigned
    <2>2. \A j \in 1..Len(ops) : ops[j] \in Operation
      OBVIOUS
    <2> QED
      BY ONLY <2>1, <2>2
  <1>2. PairAt(ops, k) \in Seq(AnyTransfer)
    <2> DEFINE D == {j \in 1..k : ops[j].type = "TRANSACTION" /\ ops[j].value < 0}
               C == {j \in 1..k : ops[j].type = "TRANSACTION" /\ ops[j].value >= 0}
               pair == <<Transfer(ops[Max(D)].account, ops[Max(C)].account, ops[Max(C)].value,
                                  "TRANSACTION")>>
    <2>1. PairAt(ops, k) = <<>> \/ (D # {} /\ C # {} /\ PairAt(ops, k) = pair)
      BY DEF PairAt
    <2>2. ASSUME D # {}, C # {} PROVE pair \in Seq(AnyTransfer)
      <3>1. Max(D) \in D /\ Max(C) \in C
        <4>1. D \subseteq 1..k /\ C \subseteq 1..k /\ k \in Nat
          OBVIOUS
        <4> HIDE DEF D, C
        <4> QED
          BY <2>2, <4>1, LastOf
      <3>2. Max(D) \in 1..Len(ops) /\ Max(C) \in 1..Len(ops)
        BY <3>1
      <3> DEFINE d == Max(D)
                 c == Max(C)
      <3> HIDE DEF d, c
      <3>3. Transfer(ops[d].account, ops[c].account, ops[c].value, "TRANSACTION") \in AnyTransfer
        BY <1>1, <3>2 DEF d, c, Transfer, AnyTransfer
      <3> QED
        BY <3>3 DEF d, c
    <2>3. <<>> \in Seq(AnyTransfer)
      OBVIOUS
    <2> HIDE DEF pair, D, C
    <2> QED
      BY ONLY <2>1, <2>2, <2>3
  <1> DEFINE op == ops[k]
  <1>3. op \in Operation
    OBVIOUS
  <1> HIDE DEF op
  <1>4. /\ Transfer(op.account, BURN_ADDRESS, Unsigned(op), "FEE") \in AnyTransfer
        /\ Transfer(MINT_ADDRESS, op.account, op.value, "MINT") \in AnyTransfer
        /\ Transfer(op.account, op.spender, op.value, "APPROVE") \in AnyTransfer
    BY <1>3 DEF Operation, Unsigned, Transfer, AnyTransfer, IcrcTypes, BURN_ADDRESS, MINT_ADDRESS
  <1>5. \/ IcpOperation(ops, k) \in {<<>>, PairAt(ops, k)}
        \/ IcpOperation(ops, k) = <<Transfer(op.account, BURN_ADDRESS, Unsigned(op), "FEE")>>
        \/ IcpOperation(ops, k) = <<Transfer(MINT_ADDRESS, op.account, op.value, "MINT")>>
        \/ IcpOperation(ops, k) = <<Transfer(op.account, op.spender, op.value, "APPROVE")>>
    BY DEF IcpOperation, op
  <1>6. \A x \in AnyTransfer : <<x>> \in Seq(AnyTransfer)
    OBVIOUS
  <1>7. <<>> \in Seq(AnyTransfer)
    OBVIOUS
  <1> QED
    BY ONLY <1>2, <1>4, <1>5, <1>6, <1>7

(* What the ICP worker makes of a transaction *)
LEMMA IcpTransaction ==
  ASSUME NEW ops \in Seq(Operation)
  PROVE  parseICPBlockTransaction(ops) \in Seq(AnyTransfer)
  <1> DEFINE n == Len(ops)
             ss == [k \in 1..n |-> IcpOperation(ops, k)]
  <1>1. n \in Nat /\ \A k \in 1..n : ss[k] \in Seq(AnyTransfer)
    BY IcpOperationAppends
  <1>2. ss = [k \in 1..n |-> ss[k]]
    OBVIOUS
  <1> HIDE DEF n, ss
  <1>3. FlattenSeq(ss) \in Seq(AnyTransfer)
    BY ONLY <1>1, <1>2, FlattenAny
  <1> QED
    BY <1>3 DEF parseICPBlockTransaction, ss, n

(* What an ICRC operation appends are transfers. *)
LEMMA IcrcOperationAppends ==
  ASSUME NEW op \in Operation
  PROVE  IcrcOperation(op) \in Seq(AnyTransfer)
  <1>1. /\ \A type \in IcrcTypes :
             Transfer(op.account, BURN_ADDRESS, Unsigned(op), type) \in AnyTransfer
        /\ \A type \in IcrcTypes : Transfer(MINT_ADDRESS, op.account, op.value, type) \in AnyTransfer
        /\ Transfer(op.account, op.account, op.value, "APPROVE") \in AnyTransfer
    BY DEF Operation, Unsigned, Transfer, AnyTransfer, IcrcTypes, BURN_ADDRESS, MINT_ADDRESS
  <1>2. \/ IcrcOperation(op) = <<>>
        \/ /\ op.type \in IcrcTypes
           /\ IcrcOperation(op) = <<Transfer(op.account, BURN_ADDRESS, Unsigned(op), op.type)>>
        \/ /\ op.type \in IcrcTypes
           /\ IcrcOperation(op) = <<Transfer(MINT_ADDRESS, op.account, op.value, op.type)>>
        \/ IcrcOperation(op) = <<Transfer(op.account, op.account, op.value, "APPROVE")>>
    BY DEF IcrcOperation, IcrcTypes
  <1>3. \A x \in AnyTransfer : <<x>> \in Seq(AnyTransfer)
    OBVIOUS
  <1>4. <<>> \in Seq(AnyTransfer)
    OBVIOUS
  <1> QED
    BY ONLY <1>1, <1>2, <1>3, <1>4

(* What the ICRC worker makes of a transaction *)
LEMMA IcrcTransaction ==
  ASSUME NEW ops \in Seq(Operation)
  PROVE  parseICRCTransaction(ops) \in Seq(AnyTransfer)
  <1> DEFINE n == Len(ops)
             ss == [k \in 1..n |-> IcrcOperation(ops[k])]
             Pair(p) == Transfer(ops[p[1]].account, ops[p[2]].account, Unsigned(ops[p[1]]),
                                 "TRANSFER")
             X == {Pair(p) : p \in IcrcPairs(ops)}
  <1>1. n \in Nat /\ (\A k \in 1..n : ss[k] \in Seq(AnyTransfer)) /\ ss = [k \in 1..n |-> ss[k]]
    BY IcrcOperationAppends
  <1>2. FlattenSeq(ss) \in Seq(AnyTransfer)
    <2> HIDE DEF n, ss
    <2> QED
      BY ONLY <1>1, FlattenAny
  <1>3. IcrcPairs(ops) \subseteq (1..n) \X (1..n) /\ IsFiniteSet(IcrcPairs(ops))
    <2>1. IcrcDebits(ops) \subseteq 1..n
      <3> DEFINE C == {j \in DOMAIN ops : ops[j].type = "TRANSFER" /\ ops[j].value <= 0}
      <3>1. C \subseteq 1..n /\ 1..n \subseteq Nat
        OBVIOUS
      <3>2. IcrcDebits(ops) = {} \/ (C # {} /\ IcrcDebits(ops) = {Min(C)})
        BY DEF IcrcDebits
      <3> HIDE DEF C
      <3>3. C # {} => Min(C) \in C
        <4>1. C \subseteq Nat
          BY <3>1
        <4> QED
          BY ONLY <4>1, MinExists
      <3> QED
        BY <3>1, <3>2, <3>3
    <2>2. IcrcPairs(ops) \subseteq (1..n) \X (1..n)
      BY <2>1 DEF IcrcPairs, IcrcCredits
    <2>3. IsFiniteSet((1..n) \X (1..n))
      <3>1. IsFiniteSet(1..n)
        BY <1>1, FS_Interval
      <3> QED
        BY <3>1, FS_Product
    <2> QED
      BY <2>2, <2>3, FS_Subset
  <1>4. IsFiniteSet(X) /\ X \subseteq AnyTransfer
    <2>1. IsFiniteSet(X)
      <3> DEFINE P == IcrcPairs(ops)
      <3>1. X = {Pair(p) : p \in P}
        OBVIOUS
      <3> HIDE DEF P
      <3> DEFINE f == [p \in P |-> Pair(p)]
      <3>2. f \in Surjection(P, X)
        BY <3>1 DEF Surjection
      <3>3. IsFiniteSet(P)
        BY <1>3 DEF P
      <3> HIDE DEF X
      <3> QED
        BY <3>2, <3>3, FS_Surjection
    <2>2. \A p \in (1..n) \X (1..n) : Pair(p) \in AnyTransfer
      <3> TAKE p \in (1..n) \X (1..n)
      <3> DEFINE x == ops[p[1]]
                 y == ops[p[2]]
      <3>1. x \in Operation /\ y \in Operation
        OBVIOUS
      <3> HIDE DEF x, y
      <3>2. Transfer(x.account, y.account, Unsigned(x), "TRANSFER") \in AnyTransfer
        BY <3>1 DEF Operation, Unsigned, Transfer, AnyTransfer, IcrcTypes
      <3> QED
        BY <3>2 DEF x, y
    <2> QED
      BY <1>3, <2>1, <2>2
  <1>5. SetToSeq(X) \in Seq(AnyTransfer)
    <2> HIDE DEF X
    <2>1. SetToSeq(X) \in Seq(X)
      BY <1>4, SetToSeqOnce
    <2> QED
      BY <1>4, <2>1
  <1> HIDE DEF n, ss, X
  <1>6. FlattenSeq(ss) \o SetToSeq(X) \in Seq(AnyTransfer)
    BY <1>2, <1>5
  <1> QED
    BY <1>6 DEF parseICRCTransaction, ss, n, X

(* What is made of a block *)
LEMMA TransfersAreTransfers ==
  ASSUME worker \in OpsWorkers, NEW content \in Contents
  PROVE  TransfersOf(content) \in Seq(AnyTransfer)
  <1> DEFINE n == Len(content)
  <1>1. content \in IcpBlocks \cup IcrcBlocks
    BY DEF Contents, OpsWorkers
  <1>2. content \in Seq(Seq(Operation))
    BY <1>1, LedgerBlocks
  <1>3. n \in Nat /\ \A i \in 1..n : content[i] \in Seq(Operation)
    BY <1>2
  <1>4. CASE worker = "icp"
    <2> DEFINE ss == [i \in 1..n |-> parseICPBlockTransaction(content[i])]
    <2>1. (\A i \in 1..n : ss[i] \in Seq(AnyTransfer)) /\ ss = [i \in 1..n |-> ss[i]]
      BY <1>3, IcpTransaction
    <2>2. content \in IcpBlocks
      BY <1>4 DEF Contents
    <2>3. TransfersOf(content) = FlattenSeq(ss)
      BY <1>4, <2>2 DEF TransfersOf, IcpTransfers
    <2> HIDE DEF n, ss
    <2>4. FlattenSeq(ss) \in Seq(AnyTransfer)
      BY ONLY <1>3, <2>1, FlattenAny
    <2> QED
      BY <2>3, <2>4
  <1>5. CASE worker = "icrc"
    <2> DEFINE ss == [i \in 1..n |-> parseICRCTransaction(content[i])]
    <2>1. (\A i \in 1..n : ss[i] \in Seq(AnyTransfer)) /\ ss = [i \in 1..n |-> ss[i]]
      BY <1>3, IcrcTransaction
    <2>2. content \in IcrcBlocks
      BY <1>5 DEF Contents
    <2>3. TransfersOf(content) = FlattenSeq(ss)
      BY <1>5, <2>2 DEF TransfersOf, IcrcTransfers
    <2> HIDE DEF n, ss
    <2>4. FlattenSeq(ss) \in Seq(AnyTransfer)
      BY ONLY <1>3, <2>1, FlattenAny
    <2> QED
      BY <2>3, <2>4
  <1> QED
    BY <1>4, <1>5 DEF OpsWorkers

(* The number of the last block that can come to be confirmed *)
Top == IF MaxTip >= Confirmations THEN MaxTip - Confirmations ELSE 0

(* The blocks of the chain have transfers, and Before counts them. *)
LEMMA BeforeFacts ==
  ASSUME worker \in OpsWorkers, chain \in [Block -> Contents]
  PROVE  /\ Top \in Nat /\ Block = 1..Top
         /\ ChainTransfers \in Seq(Seq(AnyTransfer)) /\ Len(ChainTransfers) = Top
         /\ \A b \in Block : Len(ChainTransfers[b]) \in Nat
         /\ IsLayout(Before, ChainTransfers)
  <1>1. Top \in Nat /\ Block = 1..Top
    BY BlockWorkersAssumption DEF Top, Block
  <1>2. \A b \in Block : TransfersOf(chain[b]) \in Seq(AnyTransfer)
    BY TransfersAreTransfers
  <1>3. ChainTransfers \in Seq(Seq(AnyTransfer)) /\ Len(ChainTransfers) = Top
    BY <1>1, <1>2 DEF ChainTransfers
  <1> DEFINE ss == ChainTransfers
  <1>4. \A b \in Block : Len(ss[b]) \in Nat
    BY <1>1, <1>3
  <1> HIDE DEF ss
  <1>5. \E off : IsLayout(off, ss)
    BY <1>3, FlattenLayout DEF ss
  <1>6. IsLayout(Before, ss)
    BY <1>5 DEF Before, ss
  <1> QED
    BY <1>1, <1>3, <1>4, <1>6 DEF ss

(* ss is as long as n parts of all from the place p + 1 on. *)
IsPiece(ss, n, all, p) ==
  /\ p \in Nat /\ n \in Nat /\ Len(ss) = n /\ Len(all) \in Nat /\ p + n <= Len(all)
  /\ \A i \in 1..n : Len(ss[i]) = Len(all[p + i])

(* Counting from a block on is counting from the start, less what is before. *)
LEMMA LayoutFrom ==
  ASSUME NEW all, NEW offAll, IsLayout(offAll, all), NEW ss, NEW off, IsLayout(off, ss),
         NEW p, NEW n, IsPiece(ss, n, all, p)
  PROVE  \A k \in 0..n : off[k] = offAll[p + k] - offAll[p]
  <1>0. /\ p \in Nat /\ n \in Nat /\ Len(ss) = n /\ Len(all) \in Nat /\ p + n <= Len(all)
        /\ \A i \in 1..n : Len(ss[i]) = Len(all[p + i])
    BY DEF IsPiece
  <1> DEFINE T == {k \in Nat : k <= n => off[k] = offAll[p + k] - offAll[p]}
  <1>1. /\ \A i \in 0..Len(all) : offAll[i] \in Nat
        /\ \A i \in 1..Len(all) : offAll[i] = offAll[i - 1] + Len(all[i])
        /\ off[0] = 0 /\ \A i \in 1..n : off[i] = off[i - 1] + Len(ss[i])
    BY <1>0 DEF IsLayout
  <1>2. 0 \in T
    <2>1. p + 0 = p /\ offAll[p] \in Nat /\ off[0] = 0
      BY <1>0, <1>1
    <2> QED
      BY <2>1
  <1>3. ASSUME NEW k \in Nat, k \in T PROVE k + 1 \in T
    <2> SUFFICES ASSUME k + 1 <= n PROVE off[k + 1] = offAll[p + (k + 1)] - offAll[p]
      OBVIOUS
    <2> DEFINE i == k + 1
               q == p + i
    <2>1. i \in 1..n /\ i - 1 = k /\ q \in 1..Len(all) /\ q - 1 = p + k /\ q - 1 \in 0..Len(all)
          /\ p \in 0..Len(all)
      BY <1>0
    <2>2. off[k] = offAll[p + k] - offAll[p]
      BY <1>0, <1>3
    <2>3. Len(ss[i]) = Len(all[q])
      BY <1>0, <2>1
    <2> HIDE DEF i, q
    <2>4. off[i] = off[k] + Len(ss[i]) /\ offAll[q] = offAll[p + k] + Len(all[q])
      BY <1>0, <1>1, <2>1
    <2>5. offAll[q] \in Nat /\ offAll[p] \in Nat /\ offAll[p + k] \in Nat
      BY <1>0, <1>1, <2>1
    <2>6. Len(all[q]) = offAll[q] - offAll[p + k]
      <3>1. q \in 1..Len(all)
        BY <2>1
      <3>2. Len(all[q]) \in Int
        BY <1>1, <2>1, <2>4, <2>5 DEF IsLayout
      <3> QED
        BY <2>4, <2>5, <3>2
    <2> QED
      BY <2>2, <2>3, <2>4, <2>5, <2>6 DEF i, q
  <1> HIDE DEF T
  <1>4. \A k \in Nat : k \in T
    BY ONLY <1>2, <1>3, Induction
  <1> QED
    BY <1>0, <1>4 DEF T

(* The event has transfer k of the block. *)
OfBlock(e, b, k) == e.block = b /\ e.index = k /\ e.transfer = ChainTransfers[b][k]

(* What the events of a batch hold, from p on: the transfers of n blocks of   *)
(* the chain, in their order.                                                *)
IsBatch(T, p, n) ==
  /\ Len(T) \in Nat /\ DOMAIN T = 1..Len(T)
  /\ Len(T) = Before[p + n] - Before[p]
  /\ \A q \in 1..Len(T) : \E i \in 1..n : \E k \in 1..Len(ChainTransfers[p + i]) :
       q = Before[p + i - 1] - Before[p] + k /\ OfBlock(T[q], p + i, k)
  /\ \A i \in 1..n : \A k \in 1..Len(ChainTransfers[p + i]) :
       /\ Before[p + i - 1] - Before[p] + k \in 1..Len(T)
       /\ OfBlock(T[Before[p + i - 1] - Before[p] + k], p + i, k)

(* The transfers of answered requests, one block after the other             *)
LEMMA BatchTransactions ==
  ASSUME worker \in OpsWorkers, chain \in [Block -> Contents],
         lastExportedBlock \in Nat, NEW n \in Nat, lastExportedBlock + n <= Top,
         Cardinality(DOMAIN requests) = n,
         \A i \in 1..n : requests[lastExportedBlock + i].answer = chain[lastExportedBlock + i]
  PROVE  IsBatch(Transactions, lastExportedBlock, n)
  <1> DEFINE p  == lastExportedBlock
             CT == ChainTransfers
             ss == [i \in 1..n |-> BlockEvents(p + i)]
             S  == [block : Int, index : Nat, transfer : AnyTransfer]
             Ev(i, k) == [block |-> p + i, index |-> k, transfer |-> CT[p + i][k]]
  <1>1. /\ Top \in Nat /\ Block = 1..Top
        /\ CT \in Seq(Seq(AnyTransfer)) /\ Len(CT) = Top
        /\ IsLayout(Before, CT) /\ p \in Nat /\ p + n <= Top
    BY BeforeFacts
  <1>2. ASSUME NEW i \in 1..n
        PROVE  /\ ss[i] = [k \in 1..Len(CT[p + i]) |-> Ev(i, k)]
               /\ CT[p + i] \in Seq(AnyTransfer)
    <2>1. p + i \in Block
      BY <1>1
    <2>2. TransfersOf(requests[p + i].answer) = CT[p + i]
      BY <2>1 DEF ChainTransfers
    <2>3. CT[p + i] \in Seq(AnyTransfer)
      BY <1>1, <2>1
    <2> QED
      BY <2>2, <2>3 DEF BlockEvents
  <1>3. ASSUME NEW i \in 1..n
        PROVE  ss[i] \in Seq(S) /\ Len(ss[i]) = Len(CT[p + i]) /\ Len(CT[p + i]) \in Nat
    <2> DEFINE t == CT[p + i]
               m == Len(t)
    <2>1. /\ t \in Seq(AnyTransfer)
          /\ ss[i] = [k \in 1..m |-> Ev(i, k)]
      <3> HIDE DEF ss, Ev, CT
      <3> QED
        BY <1>2
    <2>5. p + i \in Int
      BY <1>1
    <2>2. m \in Nat /\ \A k \in 1..m : t[k] \in AnyTransfer
      BY <2>1
    <2>3. \A k \in 1..m : Ev(i, k) \in S
      BY <2>2, <2>5
    <2> HIDE DEF S, ss, Ev, m
    <2>4. [k \in 1..m |-> Ev(i, k)] \in Seq(S) /\ Len([k \in 1..m |-> Ev(i, k)]) = m
      BY ONLY <2>2, <2>3
    <2> QED
      BY <2>1, <2>2, <2>4 DEF m
  <1>4. ss \in Seq(Seq(S)) /\ Len(ss) = n
    <2>1. ss = [i \in 1..n |-> ss[i]]
      OBVIOUS
    <2> HIDE DEF ss, S
    <2> QED
      BY <1>3, <2>1
  <1>5. Transactions = FlattenSeq(ss)
    BY DEF Transactions, OpsWorkers
  <1>6. PICK off : IsLayout(off, ss) /\ IsFlat(off, ss, FlattenSeq(ss))
    <2> HIDE DEF ss, S
    <2> QED
      BY ONLY <1>4, FlattenLayout
  <1>7. \A k \in 0..n : off[k] = Before[p + k] - Before[p]
    <2> HIDE DEF ss, S, CT, p
    <2>1. /\ IsLayout(Before, CT) /\ IsLayout(off, ss) /\ p \in Nat /\ n \in Nat /\ Len(ss) = n
          /\ Len(CT) \in Nat /\ p + n <= Len(CT)
      BY <1>1, <1>4, <1>6
    <2>2. \A i \in 1..n : Len(ss[i]) = Len(CT[p + i])
      BY <1>3
    <2> HIDE DEF Ev
    <2>3. IsPiece(ss, n, CT, p)
      BY ONLY <2>1, <2>2 DEF IsPiece
    <2> QED
      BY ONLY <2>1, <2>3, LayoutFrom
  <1> DEFINE T == FlattenSeq(ss)
  <1>8. T \in Seq(S)
    <2> HIDE DEF ss, S
    <2> QED
      BY ONLY <1>4, FlattenLayout
  <1>9. Len(T) \in Nat /\ DOMAIN T = 1..Len(T)
    <2> HIDE DEF T, S
    <2> QED
      BY <1>8
  <1>10. \A i \in 1..n : \A k \in 1..Len(CT[p + i]) : ss[i][k] = Ev(i, k)
    <2> TAKE i \in 1..n
    <2> HIDE DEF Ev, CT, ss, p
    <2> QED
      BY <1>2
  <1>11. \A i \in 1..n : off[i - 1] = Before[p + i - 1] - Before[p]
    <2> TAKE i \in 1..n
    <2>1. i - 1 \in 0..n /\ p + (i - 1) = p + i - 1
      BY <1>1
    <2> HIDE DEF p
    <2> QED
      BY <1>7, <2>1
  <1>12. Len(T) = Before[p + n] - Before[p]
    <2> HIDE DEF T, p, ss
    <2>1. Len(T) = off[n]
      BY <1>4, <1>6 DEF IsFlat, T
    <2> QED
      BY <1>7, <2>1
  <1>13. /\ \A i \in 1..n : \A k \in 1..Len(ss[i]) : T[off[i - 1] + k] = ss[i][k]
         /\ \A q \in 1..Len(T) : \E i \in 1..n : \E k \in 1..Len(ss[i]) : q = off[i - 1] + k
    <2> HIDE DEF ss
    <2> QED
      BY <1>4, <1>6 DEF IsFlat, T
  <1>14. \A i \in 1..n : \A k \in 1..Len(ss[i]) : off[i - 1] + k \in 1..Len(T)
    <2> TAKE i \in 1..n
    <2> TAKE k \in 1..Len(ss[i])
    <2>1. off[i - 1] \in Nat /\ off[i] \in Nat /\ off[n] \in Nat /\ off[i] <= off[n]
          /\ off[i] = off[i - 1] + Len(ss[i]) /\ Len(T) = off[n]
      <3>1. i \in 0..n /\ i - 1 \in 0..n /\ n \in 0..n /\ i <= n
        OBVIOUS
      <3> HIDE DEF ss, T
      <3>2. Len(T) = off[n]
        BY <1>4, <1>6 DEF IsFlat, T
      <3> QED
        BY <1>4, <1>6, <3>1, <3>2 DEF IsLayout
    <2>2. Len(ss[i]) \in Nat /\ k \in 1..Len(ss[i])
      BY <1>3
    <2> HIDE DEF ss, T
    <2> QED
      BY <2>1, <2>2
  <1> HIDE DEF p, CT, ss, T, Ev, S
  <1>15. \A q \in 1..Len(T) : \E i \in 1..n : \E k \in 1..Len(CT[p + i]) :
           q = Before[p + i - 1] - Before[p] + k /\ T[q] = Ev(i, k)
    <2> TAKE q \in 1..Len(T)
    <2>1. PICK i \in 1..n : \E k \in 1..Len(ss[i]) : q = off[i - 1] + k
      BY <1>13
    <2>2. PICK k \in 1..Len(ss[i]) : q = off[i - 1] + k
      BY <2>1
    <2>3. k \in 1..Len(CT[p + i])
      BY <1>3
    <2>4. T[q] = ss[i][k] /\ ss[i][k] = Ev(i, k)
      BY <1>10, <1>13, <2>2, <2>3
    <2>5. q = Before[p + i - 1] - Before[p] + k
      BY <1>11, <2>2
    <2> QED
      BY <2>3, <2>4, <2>5
  <1>16. \A i \in 1..n : \A k \in 1..Len(CT[p + i]) :
           /\ Before[p + i - 1] - Before[p] + k \in 1..Len(T)
           /\ T[Before[p + i - 1] - Before[p] + k] = Ev(i, k)
    <2> TAKE i \in 1..n
    <2> TAKE k \in 1..Len(CT[p + i])
    <2>1. k \in 1..Len(ss[i]) /\ off[i - 1] = Before[p + i - 1] - Before[p]
      BY <1>3, <1>11
    <2>2. off[i - 1] + k \in 1..Len(T) /\ T[off[i - 1] + k] = ss[i][k] /\ ss[i][k] = Ev(i, k)
      BY <1>10, <1>13, <1>14, <2>1
    <2> QED
      BY <2>1, <2>2
  <1>17. \A i \in 1..n : \A k : OfBlock(Ev(i, k), p + i, k)
    BY DEF OfBlock, Ev, CT
  <1>18. IsBatch(T, p, n)
    <2>1. \A q \in 1..Len(T) : \E i \in 1..n : \E k \in 1..Len(CT[p + i]) :
            q = Before[p + i - 1] - Before[p] + k /\ OfBlock(T[q], p + i, k)
      <3> TAKE q \in 1..Len(T)
      <3>1. PICK i \in 1..n : \E k \in 1..Len(CT[p + i]) :
              q = Before[p + i - 1] - Before[p] + k /\ T[q] = Ev(i, k)
        BY <1>15
      <3>2. PICK k \in 1..Len(CT[p + i]) : q = Before[p + i - 1] - Before[p] + k /\ T[q] = Ev(i, k)
        BY <3>1
      <3>3. OfBlock(T[q], p + i, k)
        BY <1>17, <3>2
      <3> QED
        BY <3>2, <3>3
    <2>2. \A i \in 1..n : \A k \in 1..Len(CT[p + i]) :
            /\ Before[p + i - 1] - Before[p] + k \in 1..Len(T)
            /\ OfBlock(T[Before[p + i - 1] - Before[p] + k], p + i, k)
      BY <1>16, <1>17, Zenon
    <2> QED
      BY <1>9, <1>12, <2>1, <2>2 DEF IsBatch, CT
  <1> QED
    BY <1>5, <1>18 DEF T, p

(* The numbers of blocks grow with the places in a batch, and with them the   *)
(* keys of ICRC.                                                             *)
LEMMA BatchIsOrdered ==
  ASSUME worker \in OpsWorkers, chain \in [Block -> Contents], NEW p \in Nat, NEW n \in Nat,
         p + n <= Top, NEW T, IsBatch(T, p, n), NEW q \in 1..Len(T), NEW r \in 1..Len(T), q < r
  PROVE  T[q].block \in Block /\ T[r].block \in Block /\ T[q].block <= T[r].block
  <1> DEFINE CT == ChainTransfers
  <1>1. /\ Top \in Nat /\ Block = 1..Top /\ IsLayout(Before, CT) /\ Len(CT) = Top
        /\ \A b \in Block : Len(CT[b]) \in Nat
    BY BeforeFacts
  <1> HIDE DEF CT
  <1>2. PICK i \in 1..n : \E k \in 1..Len(CT[p + i]) :
          q = Before[p + i - 1] - Before[p] + k /\ OfBlock(T[q], p + i, k)
    BY Zenon DEF IsBatch, CT
  <1>3. PICK k \in 1..Len(CT[p + i]) : q = Before[p + i - 1] - Before[p] + k /\ T[q].block = p + i
    BY <1>2 DEF OfBlock
  <1>4. PICK j \in 1..n : \E m \in 1..Len(CT[p + j]) :
          r = Before[p + j - 1] - Before[p] + m /\ OfBlock(T[r], p + j, m)
    BY Zenon DEF IsBatch, CT
  <1>5. PICK m \in 1..Len(CT[p + j]) : r = Before[p + j - 1] - Before[p] + m /\ T[r].block = p + j
    BY <1>4 DEF OfBlock
  <1>6. p + i \in Block /\ p + j \in Block
    BY <1>1
  <1>7. ~(j < i)
    <2> SUFFICES ASSUME j < i PROVE FALSE
      OBVIOUS
    <2> DEFINE x == p + i - 1
               y == p + j
               z == p + j - 1
    <2>1. x \in 0..Top /\ y \in 1..Top /\ z \in 0..Top /\ p \in 0..Top
          /\ y <= x /\ y - 1 = z /\ y \in 0..Top
      BY <1>1
    <2>2. q = Before[x] - Before[p] + k /\ r = Before[z] - Before[p] + m /\ k >= 1 /\ k \in Nat
      BY <1>1, <1>3, <1>5, <1>6
    <2>3. m \in Nat /\ m <= Len(CT[y])
      BY <1>1, <1>5, <1>6, SMTT(60)
    <2> HIDE DEF x, y, z
    <2>4. /\ Before[x] \in Nat /\ Before[y] \in Nat /\ Before[z] \in Nat /\ Before[p] \in Nat
          /\ Before[y] <= Before[x]
      BY <1>1, <2>1 DEF IsLayout
    <2>5. Before[y] = Before[z] + Len(CT[y]) /\ Len(CT[y]) \in Nat
      BY <1>1, <2>1 DEF IsLayout
    <2> DEFINE ly == Len(CT[y])
               bx == Before[x]
               by == Before[y]
               bz == Before[z]
               bp == Before[p]
    <2>6. /\ bx \in Nat /\ by \in Nat /\ bz \in Nat /\ bp \in Nat /\ by <= bx /\ by = bz + ly
          /\ ly \in Nat /\ m <= ly /\ m \in Nat /\ k >= 1 /\ k \in Nat
          /\ q = bx - bp + k /\ r = bz - bp + m /\ q < r
      BY <2>2, <2>3, <2>4, <2>5
    <2> HIDE DEF ly, bx, by, bz, bp
    <2> QED
      BY ONLY <2>6
  <1> QED
    BY <1>3, <1>5, <1>6, <1>7

(* The same settings and the same chain count the same. *)
LEMMA SameCounting ==
  ASSUME UNCHANGED <<worker, chain>>
  PROVE  /\ ChainTransfers' = ChainTransfers /\ Before' = Before
         /\ \A e : IsTransferEvent(e)' <=> IsTransferEvent(e)
         /\ \A E, b : HasBlock(E, b)' <=> HasBlock(E, b)
  <1>1. ChainTransfers' = ChainTransfers
    BY DEF ChainTransfers, TransfersOf
  <1>2. Before' = Before
    BY <1>1 DEF Before
  <1> QED
    BY <1>1, <1>2 DEF IsTransferEvent, HasBlock

(* A process ends, for whatever reason. *)
LEMMA OperationsFresh ==
  ASSUME Operations, Fresh, UNCHANGED <<nodeVars, topic, saved>>
  PROVE  Operations'
  <1>1. /\ pc' = "init" /\ lastExportedBlock' = saved.block /\ lastPrimaryKey' = saved.key
        /\ events' = <<>> /\ UNCHANGED <<worker, chain, topic, saved>>
    BY DEF Fresh, nodeVars
  <1>2. /\ ChainTransfers' = ChainTransfers /\ Before' = Before
        /\ \A e : IsTransferEvent(e)' <=> IsTransferEvent(e)
        /\ \A E, b : HasBlock(E, b)' <=> HasBlock(E, b)
    BY <1>1, SameCounting
  <1>3. Contents' = Contents /\ OpsWorkers' = OpsWorkers /\ Returned' = {}
    BY <1>1 DEF Contents, OpsWorkers, Returned
  <1> QED
    BY <1>1, <1>2, <1>3 DEF Operations

(* Nothing that matters changes. *)
LEMMA OperationsQuiet ==
  ASSUME Operations, UNCHANGED <<worker, chain, pc, lastConfirmedBlock, lastExportedBlock,
                                 lastPrimaryKey, requests, events, topic, saved>>
  PROVE  Operations'
  <1>1. /\ ChainTransfers' = ChainTransfers /\ Before' = Before
        /\ \A e : IsTransferEvent(e)' <=> IsTransferEvent(e)
        /\ \A E, b : HasBlock(E, b)' <=> HasBlock(E, b)
    BY SameCounting
  <1>2. Contents' = Contents /\ OpsWorkers' = OpsWorkers /\ Returned' = Returned
    BY DEF Contents, OpsWorkers, Returned
  <1> QED
    BY <1>1, <1>2 DEF Operations

(* No replica reports more than the chain can have. *)
LEMMA HeightsEnd ==
  ASSUME NEW h \in ReportedHeights
  PROVE  h <= MaxTip - Confirmations
  BY BlockWorkersAssumption DEF ReportedHeights, ReportedTip

(* init(), and a call of work() with nothing to do *)
LEMMA OperationsWait ==
  ASSUME Heights, Operations, InitWorker \/ WorkIdle
  PROVE  Operations'
  <1>1. /\ pc \in {"init", "work"} /\ pc' \in {"work", "save"}
        /\ UNCHANGED <<worker, chain, lastExportedBlock, lastPrimaryKey, topic, saved>>
        /\ pc = "init" \/ lastConfirmedBlock' = lastConfirmedBlock
        /\ pc = "init" => lastConfirmedBlock' \in ReportedHeights
        /\ events' \in {events, <<>>}
    BY DEF InitWorker, WorkIdle, nodeVars
  <1>2. /\ ChainTransfers' = ChainTransfers /\ Before' = Before
        /\ \A e : IsTransferEvent(e)' <=> IsTransferEvent(e)
        /\ \A E, b : HasBlock(E, b)' <=> HasBlock(E, b)
    BY <1>1, SameCounting
  <1>3. Contents' = Contents /\ OpsWorkers' = OpsWorkers /\ Returned' \in {Returned, {}}
    BY <1>1 DEF Contents, OpsWorkers, Returned
  <1>4. worker \in OpsWorkers => lastConfirmedBlock' <= MaxTip - Confirmations
    BY <1>1, HeightsEnd DEF Operations
  <1>5. lastExportedBlock = saved.block
    BY <1>1 DEF Heights
  <1> QED
    BY <1>1, <1>2, <1>3, <1>4, <1>5 DEF Operations

(* Requests are sent. *)
LEMMA OperationsStart ==
  ASSUME Operations, StartRequests
  PROVE  Operations'
  <1>1. PICK h \in ReportedHeights :
          /\ lastConfirmedBlock' = Context(h).confirmed
          /\ requests' = [b \in (lastExportedBlock + 1)..ToBlock(Context(h).confirmed) |->
                            [stage |-> FirstStage, failed |-> 0, answer |-> "none"]]
    BY DEF StartRequests
  <1>2. /\ pc = "work" /\ pc' = "fetch"
        /\ UNCHANGED <<worker, chain, lastExportedBlock, lastPrimaryKey, events, topic, saved>>
    BY DEF StartRequests, nodeVars
  <1>3. lastConfirmedBlock' \in {lastConfirmedBlock, h}
    BY <1>1 DEF Context, analyzeWorkerContext, equalityContext
  <1>4. \A b \in DOMAIN requests' : requests'[b].stage # "done"
    BY <1>1 DEF FirstStage
  <1>5. /\ ChainTransfers' = ChainTransfers /\ Before' = Before
        /\ \A e : IsTransferEvent(e)' <=> IsTransferEvent(e)
        /\ \A E, b : HasBlock(E, b)' <=> HasBlock(E, b)
    BY <1>2, SameCounting
  <1>6. Contents' = Contents /\ OpsWorkers' = OpsWorkers /\ Returned' = Returned
    BY <1>2 DEF Contents, OpsWorkers, Returned
  <1>7. worker \in OpsWorkers => lastConfirmedBlock' <= MaxTip - Confirmations
    BY <1>2, <1>3, HeightsEnd DEF Operations
  <1> QED
    BY <1>2, <1>4, <1>5, <1>6, <1>7 DEF Operations

(* A request is answered for its own block, or asked again. *)
LEMMA OperationsFetch ==
  ASSUME IInv, Operations, NEW b \in Pending,
         Answer(b) \/ Retry(b) \/ EmptyLedger(b) \/ UnvalidatedLedger(b) \/ GiveUp(b)
  PROVE  Operations'
  <1>1. CASE GiveUp(b)
    BY <1>1, OperationsFresh DEF GiveUp
  <1>2. CASE ~GiveUp(b)
    <2>1. pc = "fetch" /\ b \in DOMAIN requests /\ requests[b].stage # "done" /\ fetchUnchanged
      BY <1>2 DEF Pending, Answer, Retry, EmptyLedger, UnvalidatedLedger
    <2>2. UNCHANGED <<worker, chain, pc, lastConfirmedBlock, lastExportedBlock, lastPrimaryKey,
                      events, topic, saved>>
      BY <2>1 DEF fetchUnchanged, nodeVars
    <2>3. /\ ChainTransfers' = ChainTransfers /\ Before' = Before
          /\ \A e : IsTransferEvent(e)' <=> IsTransferEvent(e)
          /\ \A E, x : HasBlock(E, x)' <=> HasBlock(E, x)
      BY <2>2, SameCounting
    <2>4. Contents' = Contents /\ OpsWorkers' = OpsWorkers /\ Returned' = Returned
      BY <2>2 DEF Contents, OpsWorkers, Returned
    <2>5. /\ requests \in [(lastExportedBlock + 1)..ToBlock(lastConfirmedBlock) -> Request]
          /\ requests[b] \in Request
      BY <2>1 DEF IInv, Requests
    <2>6. ASSUME worker \in OpsWorkers
          PROVE  \A x \in DOMAIN requests' :
                   requests'[x].stage = "done" => requests'[x].answer = chain[x]
      <3>1. /\ ~UnvalidatedLedger(b)
            /\ \A x \in DOMAIN requests :
                 requests[x].stage = "done" => requests[x].answer = chain[x]
        BY <2>1, <2>6 DEF OpsWorkers, UnvalidatedLedger, Operations
      <3>2. PICK r : /\ requests' = [requests EXCEPT ![b] = r]
                     /\ r.stage = "done" => r.answer = chain[b]
        <4>1. CASE Answer(b) /\ requests[b].stage = "getblockhash"
          <5> DEFINE r == [requests[b] EXCEPT !.stage = "block", !.failed = 0]
          <5>1. requests' = [requests EXCEPT ![b] = r]
            BY <4>1 DEF Answer
          <5>2. r.stage # "done"
            BY <2>5 DEF Request
          <5> QED
            BY <5>1, <5>2
        <4>2. CASE Answer(b) /\ requests[b].stage # "getblockhash"
          <5> DEFINE r == [requests[b] EXCEPT !.stage = "done", !.answer = chain[b]]
          <5>1. requests' = [requests EXCEPT ![b] = r]
            BY <4>2 DEF Answer
          <5>2. r.answer = chain[b]
            BY <2>5 DEF Request
          <5> QED
            BY <5>1, <5>2
        <4>3. CASE Retry(b) \/ EmptyLedger(b)
          <5> DEFINE r == [requests[b] EXCEPT !.failed = @ + 1]
          <5>1. requests' = [requests EXCEPT ![b] = r]
            BY <4>3, <2>1 DEF Retry, EmptyLedger
          <5>2. r.stage # "done"
            BY <2>1, <2>5 DEF Request
          <5> QED
            BY <5>1, <5>2
        <4> QED
          BY <1>2, <3>1, <4>1, <4>2, <4>3
      <3> QED
        BY <2>5, <3>1, <3>2
    <2> QED
      BY <2>2, <2>3, <2>4, <2>6 DEF Operations
  <1> QED
    BY <1>1, <1>2

(* The returned events are committed. *)
LEMMA OperationsStore ==
  ASSUME Heights, Operations, Store
  PROVE  Operations'
  <1>1. /\ pc = "store" /\ pc' = "save" /\ topic' = topic \cup Returned
        /\ UNCHANGED <<worker, chain, lastConfirmedBlock, lastExportedBlock, lastPrimaryKey,
                       events, saved>>
    BY DEF Store, nodeVars, workerVars, Returned
  <1>2. /\ ChainTransfers' = ChainTransfers /\ Before' = Before
        /\ \A e : IsTransferEvent(e)' <=> IsTransferEvent(e)
        /\ \A E, b : HasBlock(E, b)' <=> HasBlock(E, b)
    BY <1>1, SameCounting
  <1>3. Contents' = Contents /\ OpsWorkers' = OpsWorkers /\ Returned' = Returned
    BY <1>1 DEF Contents, OpsWorkers, Returned
  <1>4. \A b : HasBlock(topic, b) \/ HasBlock(Returned, b) => HasBlock(topic', b)
    BY <1>1 DEF HasBlock
  <1>5. ASSUME worker \in OpsWorkers
        PROVE  \A b \in 1..lastExportedBlock : HasBlock(topic, b) \/ HasBlock(Returned, b)
    <2>1. /\ \A b \in 1..saved.block : HasBlock(topic, b)
          /\ \A b \in (saved.block + 1)..lastExportedBlock : HasBlock(Returned, b)
      BY <1>1, <1>5 DEF Operations
    <2>2. saved.block \in Nat /\ lastExportedBlock \in Nat
      BY DEF Heights
    <2>3. \A b \in 1..lastExportedBlock :
            b \in 1..saved.block \/ b \in (saved.block + 1)..lastExportedBlock
      BY <2>2
    <2> QED
      BY <2>1, <2>3, Zenon
  <1> QED
    BY <1>1, <1>2, <1>3, <1>4, <1>5 DEF Operations

(* The position is saved, and with it the last key. *)
LEMMA OperationsSave ==
  ASSUME Operations, Save
  PROVE  Operations'
  <1>1. /\ pc = "save" /\ pc' = "work"
        /\ saved' = [block |-> lastExportedBlock, key |-> lastPrimaryKey]
        /\ UNCHANGED <<worker, chain, lastConfirmedBlock, lastExportedBlock, lastPrimaryKey,
                       events, topic>>
    BY DEF Save, nodeVars, workerVars
  <1>2. /\ ChainTransfers' = ChainTransfers /\ Before' = Before
        /\ \A e : IsTransferEvent(e)' <=> IsTransferEvent(e)
        /\ \A E, b : HasBlock(E, b)' <=> HasBlock(E, b)
    BY <1>1, SameCounting
  <1>3. /\ Contents' = Contents /\ OpsWorkers' = OpsWorkers /\ Returned' = Returned
        /\ saved'.block = lastExportedBlock /\ saved'.key = lastPrimaryKey
    BY <1>1 DEF Contents, OpsWorkers, Returned
  <1> QED
    BY <1>1, <1>2, <1>3 DEF Operations

(* How many blocks a complete batch has *)
LEMMA BatchLength ==
  ASSUME IInv, Operations, worker \in OpsWorkers, pc = "fetch",
         NEW n, n = Cardinality(DOMAIN requests)
  PROVE  /\ n \in Nat /\ lastExportedBlock \in Nat /\ lastExportedBlock = saved.block
         /\ lastExportedBlock + n <= Top
         /\ DOMAIN requests = (lastExportedBlock + 1)..(lastExportedBlock + n)
  <1> DEFINE p    == lastExportedBlock
             last == ToBlock(lastConfirmedBlock)
  <1>1. /\ p \in Nat /\ p = saved.block /\ last \in Nat /\ last <= lastConfirmedBlock
        /\ lastConfirmedBlock \in Nat
        /\ DOMAIN requests = (p + 1)..last
    BY Interval DEF IInv, Heights, Requests
  <1>2. p \in {0} \cup Block /\ lastConfirmedBlock <= MaxTip - Confirmations
    BY DEF Operations
  <1> HIDE DEF last, p
  <1>3. n \in Nat /\ p + n = IF last < p THEN p ELSE last
    BY <1>1, Counted
  <1>4. p <= Top /\ last <= Top
    BY <1>1, <1>2, BlockWorkersAssumption DEF Top, Block
  <1>5. p + n <= Top
    BY <1>3, <1>4
  <1>6. (p + 1)..last = (p + 1)..(p + n)
    BY <1>1, <1>3
  <1> QED
    BY <1>1, <1>3, <1>5, <1>6 DEF p

(* The batch is complete. *)
LEMMA OperationsFinish ==
  ASSUME IInv, Operations, FinishWork
  PROVE  Operations'
  <1> SUFFICES ASSUME worker \in OpsWorkers
               PROVE  Operations'
    <2>1. worker' = worker /\ OpsWorkers' = OpsWorkers
      BY DEF FinishWork, nodeVars, OpsWorkers
    <2> QED
      BY <2>1 DEF Operations
  <1> DEFINE p == lastExportedBlock
             n == Cardinality(DOMAIN requests)
             T == Transactions
             CT == ChainTransfers
  <1>1. /\ pc = "fetch" /\ Pending = {}
        /\ events' = extendTransactionsWithPrimaryKey(T)
        /\ lastExportedBlock' = p + n
        /\ lastPrimaryKey' = lastPrimaryKey + Len(T)
        /\ pc' = IF events' = <<>> THEN "save" ELSE "store"
        /\ UNCHANGED <<worker, chain, lastConfirmedBlock, topic, saved>>
    BY DEF FinishWork, nodeVars, NewPosition, NewPrimaryKey, OpsWorkers
  <1>2. /\ n \in Nat /\ p \in Nat /\ p = saved.block /\ p + n <= Top
        /\ DOMAIN requests = (p + 1)..(p + n)
    BY <1>1, BatchLength
  <1>3. chain \in [Block -> Contents]
    BY DEF Operations
  <1>4. /\ Top \in Nat /\ Block = 1..Top /\ Len(CT) = Top /\ IsLayout(Before, CT)
        /\ \A b \in Block : Len(CT[b]) \in Nat
    BY <1>3, BeforeFacts
  <1>5. \A i \in 1..n : requests[p + i].answer = chain[p + i]
    <2> TAKE i \in 1..n
    <2>1. p + i \in DOMAIN requests
      BY <1>2
    <2>2. requests[p + i].stage = "done"
      BY <1>1, <2>1 DEF Pending
    <2> QED
      BY <1>1, <2>1, <2>2 DEF Operations
  <1>6. IsBatch(T, p, n)
    <2> HIDE DEF n
    <2> QED
      BY <1>2, <1>3, <1>5, BatchTransactions DEF n
  <1> HIDE DEF p, n, T, CT
  <1>7. Len(T) \in Nat /\ DOMAIN T = 1..Len(T) /\ Len(T) = Before[p + n] - Before[p]
    BY <1>6 DEF IsBatch
  <1>8. Before[p] \in Nat /\ Before[p + n] \in Nat
    <2>1. p \in 0..Top /\ p + n \in 0..Top
      BY <1>2, <1>4
    <2> QED
      BY <1>4, <2>1 DEF IsLayout
  <1>9. worker = "icp" => lastPrimaryKey = Before[p]
    BY DEF Operations, p
  <1>10. /\ DOMAIN events' = 1..Len(T)
         /\ \A i \in 1..Len(T) :
              /\ events'[i].block = T[i].block /\ events'[i].index = T[i].index
              /\ events'[i].transfer = T[i].transfer
              /\ worker = "icp" => events'[i].primaryKey = lastPrimaryKey + i
              /\ worker = "icrc" => events'[i].primaryKey = T[i].block + i
    BY <1>1 DEF extendTransactionsWithPrimaryKey, IcpKey, IcrcKey
  <1>11. /\ ChainTransfers' = ChainTransfers /\ Before' = Before
         /\ \A e : IsTransferEvent(e)' <=> IsTransferEvent(e)
         /\ \A E, b : HasBlock(E, b)' <=> HasBlock(E, b)
    BY <1>1, SameCounting
  <1>12. ASSUME NEW i \in 1..Len(T) PROVE IsTransferEvent(events'[i])
    <2>1. PICK j \in 1..n : \E k \in 1..Len(CT[p + j]) :
            i = Before[p + j - 1] - Before[p] + k /\ OfBlock(T[i], p + j, k)
      BY <1>6, Zenon DEF IsBatch, CT
    <2>2. PICK k \in 1..Len(CT[p + j]) :
            i = Before[p + j - 1] - Before[p] + k /\ OfBlock(T[i], p + j, k)
      BY <2>1
    <2> DEFINE b == p + j
               e == events'[i]
    <2>3. b \in Block /\ b - 1 = p + j - 1 /\ b - 1 \in 0..Top
      <3>1. b \in 1..Top /\ b - 1 = p + j - 1 /\ b - 1 \in 0..Top
        <4>1. n \in Nat /\ p \in Nat /\ Top \in Nat /\ p + n <= Top /\ j \in 1..n
          BY <1>2, <1>4
        <4> QED
          BY ONLY <4>1
      <3> QED
        BY <1>4, <3>1
    <2>4. e.block = b /\ e.index = k /\ e.transfer = CT[b][k]
      BY <1>10, <2>2 DEF OfBlock, CT
    <2>5. k \in Nat /\ Before[b - 1] \in Nat
      BY <1>4, <2>2, <2>3 DEF IsLayout
    <2>6. worker = "icp" => e.primaryKey = Before[b - 1] + k
      <3> SUFFICES ASSUME worker = "icp" PROVE e.primaryKey = Before[b - 1] + k
        OBVIOUS
      <3>1. e.primaryKey = Before[p] + i /\ i = Before[b - 1] - Before[p] + k
        BY <1>9, <1>10, <2>2, <2>3
      <3> HIDE DEF b, e
      <3> QED
        BY <1>8, <2>5, <3>1
    <2>7. k \in 1..Len(CT[b])
      BY <2>2
    <2> HIDE DEF b, e
    <2>8. IsTransferEvent(e)
      BY <2>3, <2>4, <2>6, <2>7 DEF IsTransferEvent, CT
    <2> QED
      BY <2>8 DEF e
  <1>13. \A e \in Returned' : IsTransferEvent(e)'
    BY <1>10, <1>11, <1>12 DEF Returned
  <1>14. ASSUME NEW i \in DOMAIN events', NEW j \in DOMAIN events', i < j
         PROVE  events'[i].primaryKey < events'[j].primaryKey
    <2>1. i \in 1..Len(T) /\ j \in 1..Len(T)
      BY <1>10
    <2>2. CASE worker = "icp"
      BY <1>8, <1>9, <1>10, <1>14, <2>1, <2>2
    <2>3. CASE worker = "icrc"
      <3>1. T[i].block \in Block /\ T[j].block \in Block /\ T[i].block <= T[j].block
        BY <1>2, <1>3, <1>6, <1>14, <2>1, BatchIsOrdered
      <3>2. events'[i].primaryKey = T[i].block + i /\ events'[j].primaryKey = T[j].block + j
        BY <1>10, <2>1, <2>3
      <3> DEFINE x == T[i].block
                 y == T[j].block
      <3>3. x \in Nat /\ y \in Nat /\ x <= y /\ i \in Nat /\ j \in Nat
        BY <1>4, <1>7, <2>1, <3>1
      <3>4. x + i < y + j
        <4> HIDE DEF x, y
        <4> QED
          BY <1>14, <3>3
      <3> QED
        BY <3>2, <3>4
    <2> QED
      BY <2>2, <2>3 DEF OpsWorkers
  <1>15. \A b \in (p + 1)..(p + n) : HasBlock(Returned', b)
    <2> SUFFICES ASSUME NEW b \in (p + 1)..(p + n), NEW k \in 1..Len(CT[b])
                 PROVE  \E e \in Returned' : e.block = b /\ e.index = k
      BY DEF HasBlock, CT
    <2> DEFINE j == b - p
               q == Before[p + j - 1] - Before[p] + k
    <2>1. j \in 1..n /\ p + j = b
      BY <1>2
    <2>2. q \in 1..Len(T) /\ OfBlock(T[q], p + j, k)
      BY <1>6, <2>1, Zenon DEF IsBatch, CT
    <2> HIDE DEF q, j
    <2>3. events'[q].block = b /\ events'[q].index = k /\ q \in DOMAIN events'
      BY <1>10, <2>1, <2>2 DEF OfBlock
    <2> QED
      BY <2>3 DEF Returned
  <1>16. p \in {0} \cup Block /\ p + n \in {0} \cup Block
    <2>1. p \in {0} \cup Block
      BY DEF Operations, p
    <2>2. p + n \in {0} \cup Block
      BY <1>2, <1>4
    <2> QED
      BY <2>1, <2>2
  <1>17. /\ \A b \in 1..p : HasBlock(topic, b)
         /\ \A b \in 1..(p + n) : b \in 1..p \/ b \in (p + 1)..(p + n)
    BY <1>2 DEF Operations
  <1>18. pc' = "save" => \A b \in 1..(p + n) : HasBlock(topic, b)
    <2> SUFFICES ASSUME pc' = "save", NEW b \in (p + 1)..(p + n) PROVE HasBlock(topic, b)
      BY <1>17
    <2>1. Returned' = {}
      BY <1>1 DEF Returned
    <2>2. HasBlock({}, b)
      BY <1>15, <2>1
    <2> QED
      BY <2>2 DEF HasBlock
  <1>19. worker = "icp" => lastPrimaryKey + Len(T) = Before[p + n]
    <2> DEFINE x == Before[p]
               y == Before[p + n]
               m == Len(T)
    <2>1. x \in Nat /\ y \in Nat /\ m = y - x /\ (worker = "icp" => lastPrimaryKey = x)
      BY <1>7, <1>8, <1>9
    <2>2. worker = "icp" => lastPrimaryKey + m = y
      <3> HIDE DEF x, y, m
      <3> QED
        BY <2>1
    <2> QED
      BY <2>2
  <1>20. /\ Contents' = Contents /\ OpsWorkers' = OpsWorkers /\ lastExportedBlock' = p + n
         /\ pc' \in {"store", "save"} /\ p = saved.block
         /\ lastConfirmedBlock <= MaxTip - Confirmations
    BY <1>1, <1>2 DEF Contents, OpsWorkers, p, n, Operations
  <1>21. lastPrimaryKey' = lastPrimaryKey + Len(T)
    BY <1>1
  <1> QED
    BY <1>1, <1>3, <1>11, <1>13, <1>14, <1>15, <1>16, <1>17, <1>18, <1>19, <1>20, <1>21
       DEF Operations

(* A first process has nothing. *)
LEMMA OperationsInitially == Init => Operations
  <1> SUFFICES ASSUME Init, worker \in OpsWorkers PROVE Operations
    BY DEF Operations
  <1>1. /\ chain \in [Block -> Contents] /\ pc = "init" /\ lastExportedBlock = 0
        /\ lastPrimaryKey = 0 /\ events = <<>> /\ topic = {} /\ saved.block = 0 /\ saved.key = 0
    BY DEF Init
  <1>2. Before[0] = 0
    BY <1>1, BeforeFacts DEF IsLayout
  <1>3. Returned = {}
    BY <1>1 DEF Returned
  <1> QED
    BY <1>1, <1>2, <1>3 DEF Operations

(* Every step keeps what is known of the transfers of ICP and ICRC. *)
LEMMA OperationsInductive ==
  ASSUME IInv, Operations, [Next]_vars
  PROVE  Operations'
  <1>1. Heights
    BY DEF IInv
  <1>2. CASE WorkThrows \/ AnswerOverBrokenConnection \/ BatchThrows
    BY <1>2, OperationsFresh DEF WorkThrows, AnswerOverBrokenConnection, BatchThrows, Throw
  <1>3. CASE Crash \/ HeightRefused
    BY <1>3, OperationsFresh DEF Crash, HeightRefused
  <1>4. CASE recordConnectionError
    BY <1>4, OperationsQuiet DEF recordConnectionError, nodeVars
  <1>5. CASE GrowChain
    BY <1>5, OperationsQuiet DEF GrowChain, workerVars
  <1>6. CASE UNCHANGED vars
    BY <1>6, OperationsQuiet DEF vars, nodeVars, workerVars
  <1> QED
    BY <1>1, <1>2, <1>3, <1>4, <1>5, <1>6, OperationsWait, OperationsStart, OperationsFetch,
       OperationsFinish, OperationsStore, OperationsSave DEF Next, Step, Fault

(* So it holds in every reachable state. *)
LEMMA OperationsAlways == Spec => [](IInv /\ Operations)
  BY InvInitially, InvInductive, OperationsInitially, OperationsInductive, PTL DEF Spec

(* Counting from the first block on tells the transfers of the chain apart. *)
LEMMA CountsApart ==
  ASSUME worker = "icp", chain \in [Block -> Contents],
         NEW e, IsTransferEvent(e), NEW f, IsTransferEvent(f), e.primaryKey = f.primaryKey
  PROVE  e.block = f.block /\ e.index = f.index
  <1> DEFINE CT == ChainTransfers
  <1>1. /\ Top \in Nat /\ Block = 1..Top /\ Len(CT) = Top /\ IsLayout(Before, CT)
        /\ \A b \in Block : Len(CT[b]) \in Nat
    BY BeforeFacts DEF OpsWorkers
  <1>2. \A b \in Block : /\ Before[b - 1] \in Nat /\ Before[b] \in Nat
                         /\ Before[b] = Before[b - 1] + Len(CT[b])
    <2> TAKE b \in Block
    <2>1. b \in 1..Top /\ b \in 0..Top /\ b - 1 \in 0..Top
      BY <1>1
    <2> QED
      BY <1>1, <2>1 DEF IsLayout
  <1>3. ASSUME NEW x, IsTransferEvent(x)
        PROVE  /\ x.block \in Block /\ x.index \in 1..Len(CT[x.block])
               /\ x.primaryKey = Before[x.block - 1] + x.index
    BY <1>3 DEF IsTransferEvent
  <1> HIDE DEF CT
  <1>4. ASSUME NEW x, IsTransferEvent(x), NEW y, IsTransferEvent(y),
               x.block < y.block
        PROVE  x.primaryKey # y.primaryKey
    <2> DEFINE a == x.block
               b == y.block
               i == x.index
               j == y.index
    <2>1. /\ a \in Block /\ i \in 1..Len(CT[a]) /\ x.primaryKey = Before[a - 1] + i
          /\ b \in Block /\ j \in 1..Len(CT[b]) /\ y.primaryKey = Before[b - 1] + j
          /\ a < b
      BY <1>3, <1>4
    <2> HIDE DEF a, b, i, j
    <2>2. a \in 0..Top /\ b - 1 \in 0..Top /\ a <= b - 1
      BY <1>1, <2>1
    <2>3. Before[a] <= Before[b - 1]
      BY <1>1, <2>2 DEF IsLayout
    <2> DEFINE ba == Before[a]
               bp == Before[a - 1]
               bb == Before[b - 1]
               la == Len(CT[a])
               lb == Len(CT[b])
    <2>4. /\ ba \in Nat /\ bp \in Nat /\ bb \in Nat /\ la \in Nat /\ lb \in Nat /\ ba = bp + la
          /\ ba <= bb /\ i \in 1..la /\ j \in 1..lb
      BY <1>1, <1>2, <2>1, <2>3
    <2>5. bp + i # bb + j
      <3> HIDE DEF ba, bp, bb, la, lb
      <3> QED
        BY <2>4
    <2> QED
      BY <2>1, <2>5
  <1>5. e.block \in Int /\ f.block \in Int
    BY <1>1, <1>3
  <1>6. e.block = f.block
    BY <1>4, <1>5
  <1>7. e.index = f.index
    <2> DEFINE b == e.block
               x == Before[b - 1]
    <2>1. /\ b \in Block /\ e.index \in 1..Len(CT[b]) /\ f.index \in 1..Len(CT[b])
          /\ e.primaryKey = x + e.index /\ f.primaryKey = x + f.index
      BY <1>3, <1>6
    <2>2. e.index \in Int /\ f.index \in Int /\ x \in Int
      BY <1>1, <1>2, <2>1
    <2> DEFINE u == e.index
               v == f.index
    <2>3. u \in Int /\ v \in Int /\ x \in Int /\ x + u = x + v
      BY <2>1, <2>2
    <2> HIDE DEF x, b, u, v
    <2>4. u = v
      BY ONLY <2>3
    <2> QED
      BY <2>4 DEF u, v
  <1> QED
    BY <1>6, <1>7

(* ICP, XRP and UTXO: the keys identify the transfers, over repetitions and   *)
(* batches that are cut elsewhere, and those of all four grow within a       *)
(* batch: the key that the ICP worker counts on from its saved position is   *)
(* the number of transfers of all blocks before.                            *)
THEOREM TransferKeys == Spec => []KeysIdentify
  <1>1. ASSUME IInv, Operations, worker \in {"icp", "icrc", "xrp", "utxo"} PROVE KeysIdentify
    <2>1. CASE worker \in {"xrp", "utxo"}
      BY <1>1, <2>1 DEF IInv, Ledgers, IsLedger, KeysIdentify
    <2>2. CASE worker = "icrc"
      BY <1>1, <2>2 DEF Operations, OpsWorkers, KeysIdentify
    <2>3. CASE worker = "icp"
      <3>1. /\ chain \in [Block -> Contents] /\ \A e \in topic : IsTransferEvent(e)
            /\ \A i, j \in DOMAIN events : i < j => events[i].primaryKey < events[j].primaryKey
        BY <1>1, <2>3 DEF Operations, OpsWorkers
      <3>2. ASSUME NEW e \in topic, NEW f \in topic, e.primaryKey = f.primaryKey
            PROVE  e.block = f.block /\ e.index = f.index
        BY <2>3, <3>1, <3>2, CountsApart
      <3>3. ASSUME NEW e \in topic, NEW f \in topic, e.block = f.block, e.index = f.index
            PROVE  e.primaryKey = f.primaryKey
        <4>1. IsTransferEvent(e) /\ IsTransferEvent(f)
          BY <3>1
        <4>2. /\ e.primaryKey = Before[e.block - 1] + e.index
              /\ f.primaryKey = Before[f.block - 1] + f.index
          BY <2>3, <4>1 DEF IsTransferEvent
        <4> QED
          BY <3>3, <4>2
      <3> QED
        BY <3>1, <3>2, <3>3 DEF KeysIdentify
    <2> QED
      BY <1>1, <2>1, <2>2, <2>3
  <1> DEFINE OneOfFour == worker \in {"icp", "icrc", "xrp", "utxo"}
  <1>2. Init => OneOfFour
    BY BlockWorkersAssumption DEF Init
  <1>3. ASSUME OneOfFour, [Next]_vars PROVE OneOfFour'
    BY <1>3 DEF Next, Step, Fault, InitWorker, WorkThrows, WorkIdle, StartRequests, Answer,
       AnswerOverBrokenConnection, FinishWork, BatchThrows, Store, Save, Crash, HeightRefused,
       recordConnectionError, Retry, EmptyLedger, UnvalidatedLedger, GiveUp, GrowChain, Throw,
       fetchUnchanged, vars, nodeVars
  <1>4. ASSUME IInv, Operations, OneOfFour PROVE KeysIdentify
    BY <1>1, <1>4
  <1> HIDE DEF OneOfFour
  <1> QED
    BY <1>2, <1>3, <1>4, OperationsAlways, PTL DEF Spec

(* ICP and ICRC: what Kafka has of the blocks up to the saved position is     *)
(* exactly what the worker makes of the chain, each transfer at its place,   *)
(* and it never has a transfer that the chain has not.                       *)
THEOREM TransfersAreThoseOfTheChain ==
  Spec => [](worker \in OpsWorkers =>
               /\ \A e \in topic : /\ e.block \in Block
                                   /\ e.index \in 1..Len(TransfersOf(chain[e.block]))
                                   /\ e.transfer = TransfersOf(chain[e.block])[e.index]
               /\ \A b \in 1..saved.block : \A i \in 1..Len(TransfersOf(chain[b])) :
                    \E e \in topic : e.block = b /\ e.index = i)
  <1> DEFINE P == worker \in OpsWorkers =>
               /\ \A e \in topic : /\ e.block \in Block
                                   /\ e.index \in 1..Len(TransfersOf(chain[e.block]))
                                   /\ e.transfer = TransfersOf(chain[e.block])[e.index]
               /\ \A b \in 1..saved.block : \A i \in 1..Len(TransfersOf(chain[b])) :
                    \E e \in topic : e.block = b /\ e.index = i
  <1>1. ASSUME IInv, Operations PROVE P
    <2> SUFFICES ASSUME worker \in OpsWorkers PROVE P
      OBVIOUS
    <2>1. /\ \A e \in topic : IsTransferEvent(e)
          /\ \A b \in 1..saved.block : HasBlock(topic, b)
          /\ saved.block \in {0} \cup Block /\ chain \in [Block -> Contents]
      BY <1>1 DEF Operations
    <2>2. \A b \in Block : ChainTransfers[b] = TransfersOf(chain[b])
      BY DEF ChainTransfers
    <2>3. \A b \in 1..saved.block : b \in Block
      BY <2>1, BeforeFacts
    <2>4. \A e \in topic : /\ e.block \in Block
                           /\ e.index \in 1..Len(TransfersOf(chain[e.block]))
                           /\ e.transfer = TransfersOf(chain[e.block])[e.index]
      BY <2>1, <2>2 DEF IsTransferEvent
    <2>5. \A b \in 1..saved.block : \A i \in 1..Len(TransfersOf(chain[b])) :
                    \E e \in topic : e.block = b /\ e.index = i
      BY <2>1, <2>2, <2>3 DEF HasBlock
    <2> QED
      BY <2>4, <2>5
  <1> HIDE DEF P
  <1>2. Spec => []P
    BY <1>1, OperationsAlways, PTL
  <1> QED
    BY <1>2 DEF P

-----------------------------------------------------------------------------
(* Balances of ICP and ICRC.                                               *)

Accounts == {"a", "b", "c"}

(* What a transfer of a block pays to an account, or takes from it *)
Received(T, i, account) ==
  IF i \in 1..Len(T) /\ T[i].type # "APPROVE" /\ T[i].to = account THEN T[i].value ELSE 0

Paid(T, i, account) ==
  IF i \in 1..Len(T) /\ T[i].type # "APPROVE" /\ T[i].from = account THEN T[i].value ELSE 0

Net(T, account) ==
  (Received(T, 1, account) + Received(T, 2, account) + Received(T, 3, account)
     + Received(T, 4, account))
  - (Paid(T, 1, account) + Paid(T, 2, account) + Paid(T, 3, account) + Paid(T, 4, account))

(* What an operation of a block adds to an account *)
Added(ops, k, account) ==
  IF k \in 1..Len(ops) /\ ops[k].account = account /\ ops[k].type \notin {"APPROVE", "SPENDER"}
  THEN ops[k].value ELSE 0

AddedAll(ops, account) ==
  Added(ops, 1, account) + Added(ops, 2, account) + Added(ops, 3, account) + Added(ops, 4, account)

(* A transfer of four operations: its transfers explain its operations. *)
Explained(T, ops) ==
  /\ T \in Seq(AnyTransfer) /\ Len(T) <= 4
  /\ ops \in Seq(Operation) /\ Len(ops) <= 4
  /\ \A account \in Accounts : Net(T, account) = AddedAll(ops, account)

(* Max and Min of one number *)
LEMMA OneNumber ==
  ASSUME NEW x \in Int
  PROVE  Max({x}) = x /\ Min({x}) = x
  <1>1. /\ Max({x}) = CHOOSE y \in {x} : \A z \in {x} : y >= z
        /\ Min({x}) = CHOOSE y \in {x} : \A z \in {x} : y <= z
    BY DEF Max, Min
  <1> QED
    BY <1>1

(* The operations up to one of ICP hold one debit and one credit, which
   belong together                                                         *)
IsPair(ops, k, d, c) ==
  /\ {j \in 1..k : ops[j].type = "TRANSACTION" /\ ops[j].value < 0} = {d}
  /\ {j \in 1..k : ops[j].type = "TRANSACTION" /\ ops[j].value >= 0} = {c}
  /\ Matches(ops[d], ops[c])

PairTransfer(ops, d, c) ==
  Transfer(ops[d].account, ops[c].account, ops[c].value, "TRANSACTION")

(* A debit and a credit of ICP that belong together are one transfer *)
LEMMA PairOf ==
  ASSUME NEW ops, NEW k, NEW d \in Int, NEW c \in Int, IsPair(ops, k, d, c)
  PROVE  PairAt(ops, k) = <<PairTransfer(ops, d, c)>>
  <1>1. Max({d}) = d /\ Max({c}) = c
    BY OneNumber
  <1> QED
    BY <1>1 DEF PairAt, IsPair, PairTransfer

(* A transaction of ICP: a transfer with its fee *)
LEMMA IcpSend ==
  ASSUME NEW ops, ops = <<Op("TRANSACTION", "a", -3, 0), Op("TRANSACTION", "b", 3, 1),
                       Op("FEE", "a", -1, 2)>>
  PROVE  parseICPBlockTransaction(ops) =
           <<Transfer("a", "b", 3, "TRANSACTION"), Transfer("a", "burn", 1, "FEE")>>
  <1>1. Len(ops) = 3
    OBVIOUS
  <1>2. /\ ops[1].type = "TRANSACTION" /\ ops[1].account = "a" /\ ops[1].value = -3
        /\ ops[1].index = 0
        /\ ops[2].type = "TRANSACTION" /\ ops[2].account = "b" /\ ops[2].value = 3
        /\ ops[2].index = 1
        /\ ops[3].type = "FEE" /\ ops[3].account = "a" /\ ops[3].value = -1
        /\ ops[3].index = 2
    BY DEF Op
  <1> DEFINE ss == [k \in 1..3 |-> IcpOperation(ops, k)]
             x == Transfer("a", "b", 3, "TRANSACTION")
             y == Transfer("a", "burn", 1, "FEE")
  <1>3. ss[1] = <<>>
    <2> DEFINE C == {j \in 1..1 : ops[j].type = "TRANSACTION" /\ ops[j].value >= 0}
    <2>1. C = {}
      BY <1>2
    <2>2. PairAt(ops, 1) = <<>>
      BY <2>1 DEF PairAt
    <2> QED
      BY <1>2, <2>2 DEF IcpOperation
  <1>4. ss[2] = <<x>>
    <2>1. /\ {j \in 1..2 : ops[j].type = "TRANSACTION" /\ ops[j].value < 0} = {1}
          /\ {j \in 1..2 : ops[j].type = "TRANSACTION" /\ ops[j].value >= 0} = {2}
      BY <1>2
    <2>2. Matches(ops[1], ops[2])
      BY <1>2 DEF Matches, Adjacent, Unsigned
    <2>3. IsPair(ops, 2, 1, 2)
      BY <2>1, <2>2 DEF IsPair
    <2>4. PairAt(ops, 2) = <<PairTransfer(ops, 1, 2)>>
      BY ONLY <2>3, PairOf, 1 \in Int, 2 \in Int, Zenon
    <2>5. PairTransfer(ops, 1, 2) = x
      BY <1>2 DEF PairTransfer
    <2> QED
      BY <1>2, <2>4, <2>5 DEF IcpOperation
  <1>5. ss[3] = <<y>>
    BY <1>2 DEF IcpOperation, Unsigned, BURN_ADDRESS
  <1>6. ss = [k \in 1..3 |-> ss[k]] /\ parseICPBlockTransaction(ops) = FlattenSeq(ss)
    BY <1>1 DEF parseICPBlockTransaction
  <1> HIDE DEF ss, x, y
  <1>7. FlattenSeq(ss) = (ss[1] \o ss[2]) \o ss[3]
    BY ONLY <1>6, FlattenShort, 3 \in 1..4, Zenon
  <1>8. FlattenSeq(ss) = <<x, y>>
    BY <1>3, <1>4, <1>5, <1>7, ShortLists
  <1> QED
    BY <1>6, <1>8 DEF x, y

(* A refund that lists the credit first *)
LEMMA IcpRefund ==
  ASSUME NEW ops, ops = <<Op("TRANSACTION", "a", 2, 0), Op("TRANSACTION", "b", -2, 1),
                       Op("FEE", "b", -1, 2)>>
  PROVE  parseICPBlockTransaction(ops) =
           <<Transfer("b", "a", 2, "TRANSACTION"), Transfer("b", "burn", 1, "FEE")>>
  <1>1. Len(ops) = 3
    OBVIOUS
  <1>2. /\ ops[1].type = "TRANSACTION" /\ ops[1].account = "a" /\ ops[1].value = 2
        /\ ops[1].index = 0
        /\ ops[2].type = "TRANSACTION" /\ ops[2].account = "b" /\ ops[2].value = -2
        /\ ops[2].index = 1
        /\ ops[3].type = "FEE" /\ ops[3].account = "b" /\ ops[3].value = -1
        /\ ops[3].index = 2
    BY DEF Op
  <1> DEFINE ss == [k \in 1..3 |-> IcpOperation(ops, k)]
             x == Transfer("b", "a", 2, "TRANSACTION")
             y == Transfer("b", "burn", 1, "FEE")
  <1>3. ss[1] = <<>>
    <2> DEFINE D == {j \in 1..1 : ops[j].type = "TRANSACTION" /\ ops[j].value < 0}
    <2>1. D = {}
      BY <1>2
    <2>2. PairAt(ops, 1) = <<>>
      BY <2>1 DEF PairAt
    <2> QED
      BY <1>2, <2>2 DEF IcpOperation
  <1>4. ss[2] = <<x>>
    <2>1. /\ {j \in 1..2 : ops[j].type = "TRANSACTION" /\ ops[j].value < 0} = {2}
          /\ {j \in 1..2 : ops[j].type = "TRANSACTION" /\ ops[j].value >= 0} = {1}
      BY <1>2
    <2>2. Matches(ops[2], ops[1])
      BY <1>2 DEF Matches, Adjacent, Unsigned
    <2>3. IsPair(ops, 2, 2, 1)
      BY <2>1, <2>2 DEF IsPair
    <2>4. PairAt(ops, 2) = <<PairTransfer(ops, 2, 1)>>
      BY ONLY <2>3, PairOf, 1 \in Int, 2 \in Int, Zenon
    <2>5. PairTransfer(ops, 2, 1) = x
      BY <1>2 DEF PairTransfer
    <2> QED
      BY <1>2, <2>4, <2>5 DEF IcpOperation
  <1>5. ss[3] = <<y>>
    BY <1>2 DEF IcpOperation, Unsigned, BURN_ADDRESS
  <1>6. ss = [k \in 1..3 |-> ss[k]] /\ parseICPBlockTransaction(ops) = FlattenSeq(ss)
    BY <1>1 DEF parseICPBlockTransaction
  <1> HIDE DEF ss, x, y
  <1>7. FlattenSeq(ss) = (ss[1] \o ss[2]) \o ss[3]
    BY ONLY <1>6, FlattenShort, 3 \in 1..4, Zenon
  <1>8. FlattenSeq(ss) = <<x, y>>
    BY <1>3, <1>4, <1>5, <1>7, ShortLists
  <1> QED
    BY <1>6, <1>8 DEF x, y

(* A mint, and an approval with its fee *)
LEMMA IcpMintOrApprove ==
  ASSUME NEW m, m = <<Op("MINT", "a", 4, 0)>>,
         NEW p, p = <<Op("APPROVE", "b", 5, 0), Op("FEE", "b", -1, 1)>>
  PROVE  /\ parseICPBlockTransaction(m) = <<Transfer("mint", "a", 4, "MINT")>>
         /\ parseICPBlockTransaction(p) =
              <<Transfer("b", "c", 5, "APPROVE"), Transfer("b", "burn", 1, "FEE")>>
  <1>1. Len(m) = 1 /\ Len(p) = 2
    OBVIOUS
  <1>2. /\ m[1].type = "MINT" /\ m[1].account = "a" /\ m[1].value = 4
        /\ p[1].type = "APPROVE" /\ p[1].account = "b" /\ p[1].value = 5 /\ p[1].spender = "c"
        /\ p[2].type = "FEE" /\ p[2].account = "b" /\ p[2].value = -1
    BY DEF Op
  <1> DEFINE mm == [k \in 1..1 |-> IcpOperation(m, k)]
             pp == [k \in 1..2 |-> IcpOperation(p, k)]
             x == Transfer("mint", "a", 4, "MINT")
             y == Transfer("b", "c", 5, "APPROVE")
             z == Transfer("b", "burn", 1, "FEE")
  <1>3. mm[1] = <<x>>
    BY <1>2 DEF IcpOperation, MINT_ADDRESS
  <1>4. pp[1] = <<y>>
    BY <1>2 DEF IcpOperation
  <1>5. pp[2] = <<z>>
    BY <1>2 DEF IcpOperation, Unsigned, BURN_ADDRESS
  <1>6. /\ mm = [k \in 1..1 |-> mm[k]] /\ parseICPBlockTransaction(m) = FlattenSeq(mm)
        /\ pp = [k \in 1..2 |-> pp[k]] /\ parseICPBlockTransaction(p) = FlattenSeq(pp)
    BY <1>1 DEF parseICPBlockTransaction
  <1> HIDE DEF mm, pp, x, y, z
  <1>7. FlattenSeq(mm) = mm[1] /\ FlattenSeq(pp) = pp[1] \o pp[2]
    BY ONLY <1>6, FlattenShort, 1 \in 1..4, 2 \in 1..4, Zenon
  <1>8. FlattenSeq(mm) = <<x>> /\ FlattenSeq(pp) = <<y, z>>
    BY <1>3, <1>4, <1>5, <1>7, ShortLists
  <1> QED
    BY <1>6, <1>8 DEF x, y, z

(* A list with one element, and one with none *)
LEMMA OneElement ==
  ASSUME NEW x
  PROVE  SetToSeq({x}) = <<x>> /\ SetToSeq({}) = <<>>
  <1>1. IsFiniteSet({}) /\ Cardinality({}) = 0 /\ IsFiniteSet({x}) /\ Cardinality({x}) = 1
    BY FS_EmptySet, FS_Singleton
  <1> DEFINE s == SetToSeq({x})
             e == SetToSeq({})
  <1>2. s \in Seq({x}) /\ Len(s) = 1
    BY <1>1, SetToSeqOnce
  <1>3. e \in Seq({}) /\ Len(e) = 0
    BY <1>1, SetToSeqOnce
  <1> HIDE DEF s, e
  <1>4. s = <<x>>
    BY <1>2
  <1>5. e = <<>>
    BY <1>3
  <1> QED
    BY <1>4, <1>5 DEF s, e

(* The first debit *)
LEMMA IcrcDebitOf ==
  ASSUME NEW ops, NEW S, S = {j \in DOMAIN ops : ops[j].type = "TRANSFER" /\ ops[j].value <= 0},
         NEW d \in S, S \subseteq Nat, \A j \in S : d <= j
  PROVE  IcrcDebits(ops) = {d}
  <1>1. Min(S) \in S /\ \A j \in S : Min(S) <= j
    BY MinExists
  <1>2. Min(S) = d
    BY <1>1
  <1>3. S # {} /\ IcrcDebits(ops) = IF S = {} THEN {} ELSE {Min(S)}
    BY DEF IcrcDebits
  <1> QED
    BY <1>2, <1>3

(* The transfers of the pairs *)
IcrcPaired(ops) ==
  {Transfer(ops[p[1]].account, ops[p[2]].account, Unsigned(ops[p[1]]), "TRANSFER") :
     p \in IcrcPairs(ops)}

(* A debit and a credit of ICRC *)
LEMMA IcrcPairOf ==
  ASSUME NEW ops, NEW d, NEW c, IcrcDebits(ops) = {d}, IcrcCredits(ops) = {c},
         Matches(ops[d], ops[c]), NEW z,
         z = Transfer(ops[d].account, ops[c].account, Unsigned(ops[d]), "TRANSFER")
  PROVE  IcrcPaired(ops) = {z}
  <1>1. IcrcPairs(ops) = {<<d, c>>}
    BY DEF IcrcPairs
  <1> DEFINE Of(p) == Transfer(ops[p[1]].account, ops[p[2]].account, Unsigned(ops[p[1]]), "TRANSFER")
  <1>2. {Of(p) : p \in IcrcPairs(ops)} = {Of(<<d, c>>)}
    <2> HIDE DEF Of
    <2> QED
      BY <1>1
  <1>3. <<d, c>>[1] = d /\ <<d, c>>[2] = c
    OBVIOUS
  <1>4. Of(<<d, c>>) = Transfer(ops[d].account, ops[c].account, Unsigned(ops[d]), "TRANSFER")
    BY ONLY <1>3 DEF Of
  <1>5. IcrcPaired(ops) = {Of(p) : p \in IcrcPairs(ops)}
    BY DEF IcrcPaired
  <1> HIDE DEF Of
  <1> QED
    BY <1>2, <1>4, <1>5

(* A transfer of ICRC with a fee that is collected *)
LEMMA IcrcSend ==
  ASSUME NEW ops, ops = <<Op("TRANSFER", "a", -3, 0), Op("TRANSFER", "b", 3, 1),
                       Op("FEE", "a", -1, 2), Op("FEE_COLLECTOR", "c", 1, 3)>>
  PROVE  parseICRCTransaction(ops) =
           <<Transfer("a", "burn", 1, "FEE"), Transfer("mint", "c", 1, "FEE_COLLECTOR"),
             Transfer("a", "b", 3, "TRANSFER")>>
  <1>1. Len(ops) = 4 /\ DOMAIN ops = 1..4
    OBVIOUS
  <1>2. /\ ops[1].type = "TRANSFER" /\ ops[1].account = "a" /\ ops[1].value = -3
        /\ ops[1].index = 0
        /\ ops[2].type = "TRANSFER" /\ ops[2].account = "b" /\ ops[2].value = 3
        /\ ops[2].index = 1
        /\ ops[3].type = "FEE" /\ ops[3].account = "a" /\ ops[3].value = -1
        /\ ops[4].type = "FEE_COLLECTOR" /\ ops[4].account = "c" /\ ops[4].value = 1
    BY DEF Op
  <1> DEFINE ss == [k \in 1..4 |-> IcrcOperation(ops[k])]
             x == Transfer("a", "burn", 1, "FEE")
             y == Transfer("mint", "c", 1, "FEE_COLLECTOR")
             z == Transfer("a", "b", 3, "TRANSFER")
  <1>3. ss[1] = <<>> /\ ss[2] = <<>> /\ ss[3] = <<x>> /\ ss[4] = <<y>>
    BY <1>2 DEF IcrcOperation, Unsigned, BURN_ADDRESS, MINT_ADDRESS
  <1>4. IcrcPaired(ops) = {z}
    <2>1. IcrcDebits(ops) = {1}
      <3> DEFINE S == {j \in DOMAIN ops : ops[j].type = "TRANSFER" /\ ops[j].value <= 0}
      <3>1. S = {1}
        BY <1>1, <1>2
      <3>2. 1 \in S /\ S \subseteq Nat /\ \A j \in S : 1 <= j
        BY <3>1
      <3>3. S = {j \in DOMAIN ops : ops[j].type = "TRANSFER" /\ ops[j].value <= 0}
        OBVIOUS
      <3> HIDE DEF S
      <3> QED
        BY ONLY <3>2, <3>3, IcrcDebitOf
    <2>2. IcrcCredits(ops) = {2}
      BY <1>1, <1>2, <2>1 DEF IcrcCredits
    <2>3. Matches(ops[1], ops[2])
      BY <1>2 DEF Matches, Adjacent, Unsigned
    <2>4. Transfer(ops[1].account, ops[2].account, Unsigned(ops[1]), "TRANSFER") = z
      BY <1>2 DEF Unsigned
    <2> HIDE DEF z
    <2> QED
      BY ONLY <2>1, <2>2, <2>3, <2>4, IcrcPairOf
  <1>5. ss = [k \in 1..4 |-> ss[k]]
        /\ parseICRCTransaction(ops) = FlattenSeq(ss) \o SetToSeq({z})
    BY <1>1, <1>4 DEF parseICRCTransaction, IcrcPaired
  <1> HIDE DEF ss, x, y, z
  <1>6. FlattenSeq(ss) = ((ss[1] \o ss[2]) \o ss[3]) \o ss[4]
    BY ONLY <1>5, FlattenShort, 4 \in 1..4, Zenon
  <1>7. FlattenSeq(ss) = <<x, y>>
    BY <1>3, <1>6, ShortLists
  <1>8. parseICRCTransaction(ops) = <<x, y, z>>
    <2>1. SetToSeq({z}) = <<z>>
      BY OneElement, Zenon
    <2>2. <<x, y>> \o <<z>> = <<x, y, z>>
      BY ShortLists, Zenon
    <2> QED
      BY ONLY <1>5, <1>7, <2>1, <2>2, Zenon
  <1> QED
    BY <1>8 DEF x, y, z

(* A transfer of nothing, with a spender and a fee *)
LEMMA IcrcNothing ==
  ASSUME NEW ops, ops = <<Op("SPENDER", "c", 0, 0), Op("TRANSFER", "b", 0, 1),
                       Op("TRANSFER", "a", 0, 2), Op("FEE", "b", -1, 3)>>
  PROVE  parseICRCTransaction(ops) =
           <<Transfer("b", "burn", 1, "FEE"), Transfer("b", "a", 0, "TRANSFER")>>
  <1>1. Len(ops) = 4 /\ DOMAIN ops = 1..4
    OBVIOUS
  <1>2. /\ ops[1].type = "SPENDER"
        /\ ops[2].type = "TRANSFER" /\ ops[2].account = "b" /\ ops[2].value = 0
        /\ ops[2].index = 1
        /\ ops[3].type = "TRANSFER" /\ ops[3].account = "a" /\ ops[3].value = 0
        /\ ops[3].index = 2
        /\ ops[4].type = "FEE" /\ ops[4].account = "b" /\ ops[4].value = -1
    BY DEF Op
  <1> DEFINE ss == [k \in 1..4 |-> IcrcOperation(ops[k])]
             x == Transfer("b", "burn", 1, "FEE")
             z == Transfer("b", "a", 0, "TRANSFER")
  <1>3. ss[1] = <<>> /\ ss[2] = <<>> /\ ss[3] = <<>> /\ ss[4] = <<x>>
    BY <1>2 DEF IcrcOperation, Unsigned, BURN_ADDRESS
  <1>4. IcrcPaired(ops) = {z}
    <2>1. IcrcDebits(ops) = {2}
      <3> DEFINE S == {j \in DOMAIN ops : ops[j].type = "TRANSFER" /\ ops[j].value <= 0}
      <3>1. S = {2, 3}
        BY <1>1, <1>2
      <3>2. 2 \in S /\ S \subseteq Nat /\ \A j \in S : 2 <= j
        BY <3>1
      <3>3. S = {j \in DOMAIN ops : ops[j].type = "TRANSFER" /\ ops[j].value <= 0}
        OBVIOUS
      <3> HIDE DEF S
      <3> QED
        BY ONLY <3>2, <3>3, IcrcDebitOf
    <2>2. IcrcCredits(ops) = {3}
      BY <1>1, <1>2, <2>1 DEF IcrcCredits
    <2>3. Matches(ops[2], ops[3])
      BY <1>2 DEF Matches, Adjacent, Unsigned
    <2>4. Transfer(ops[2].account, ops[3].account, Unsigned(ops[2]), "TRANSFER") = z
      BY <1>2 DEF Unsigned
    <2> HIDE DEF z
    <2> QED
      BY ONLY <2>1, <2>2, <2>3, <2>4, IcrcPairOf
  <1>5. ss = [k \in 1..4 |-> ss[k]]
        /\ parseICRCTransaction(ops) = FlattenSeq(ss) \o SetToSeq({z})
    BY <1>1, <1>4 DEF parseICRCTransaction, IcrcPaired
  <1> HIDE DEF ss, x, z
  <1>6. FlattenSeq(ss) = ((ss[1] \o ss[2]) \o ss[3]) \o ss[4]
    BY ONLY <1>5, FlattenShort, 4 \in 1..4, Zenon
  <1>7. FlattenSeq(ss) = <<x>>
    BY <1>3, <1>6, ShortLists
  <1>8. parseICRCTransaction(ops) = <<x, z>>
    <2>1. SetToSeq({z}) = <<z>>
      BY OneElement, Zenon
    <2>2. <<x>> \o <<z>> = <<x, z>>
      BY ShortLists, Zenon
    <2> QED
      BY ONLY <1>5, <1>7, <2>1, <2>2, Zenon
  <1> QED
    BY <1>8 DEF x, z

(* A burn and a mint *)
LEMMA IcrcBurnAndMint ==
  ASSUME NEW m, m = <<Op("MINT", "a", 4, 0)>>, NEW p, p = <<Op("BURN", "b", -2, 0)>>
  PROVE  /\ parseICRCTransaction(m) = <<Transfer("mint", "a", 4, "MINT")>>
         /\ parseICRCTransaction(p) = <<Transfer("b", "burn", 2, "BURN")>>
  <1>1. Len(m) = 1 /\ Len(p) = 1 /\ DOMAIN m = 1..1 /\ DOMAIN p = 1..1
    OBVIOUS
  <1>2. /\ m[1].type = "MINT" /\ m[1].account = "a" /\ m[1].value = 4
        /\ p[1].type = "BURN" /\ p[1].account = "b" /\ p[1].value = -2
    BY DEF Op
  <1>3. IcrcPaired(m) = {}
    <2>1. {j \in DOMAIN m : m[j].type = "TRANSFER" /\ m[j].value <= 0} = {}
      BY <1>1, <1>2
    <2> QED
      BY <2>1 DEF IcrcDebits, IcrcPairs, IcrcPaired
  <1>4. IcrcPaired(p) = {}
    <2>1. {j \in DOMAIN p : p[j].type = "TRANSFER" /\ p[j].value <= 0} = {}
      BY <1>1, <1>2
    <2> QED
      BY <2>1 DEF IcrcDebits, IcrcPairs, IcrcPaired
  <1> DEFINE mm == [k \in 1..1 |-> IcrcOperation(m[k])]
             pp == [k \in 1..1 |-> IcrcOperation(p[k])]
             x == Transfer("mint", "a", 4, "MINT")
             y == Transfer("b", "burn", 2, "BURN")
  <1>5. mm[1] = <<x>>
    BY <1>2 DEF IcrcOperation, MINT_ADDRESS
  <1>6. pp[1] = <<y>>
    BY <1>2 DEF IcrcOperation, Unsigned, BURN_ADDRESS
  <1>7. /\ mm = [k \in 1..1 |-> mm[k]] /\ pp = [k \in 1..1 |-> pp[k]]
        /\ parseICRCTransaction(m) = FlattenSeq(mm) \o SetToSeq({})
        /\ parseICRCTransaction(p) = FlattenSeq(pp) \o SetToSeq({})
    BY <1>1, <1>3, <1>4 DEF parseICRCTransaction, IcrcPaired
  <1> HIDE DEF mm, pp, x, y
  <1>8. FlattenSeq(mm) = mm[1] /\ FlattenSeq(pp) = pp[1]
    BY ONLY <1>7, FlattenShort, 1 \in 1..4, Zenon
  <1>9. parseICRCTransaction(m) = <<x>> /\ parseICRCTransaction(p) = <<y>>
    <2>1. SetToSeq({}) = <<>>
      BY OneElement, Zenon
    <2>2. <<x>> \o <<>> = <<x>> /\ <<y>> \o <<>> = <<y>>
      BY ShortLists, Zenon
    <2> QED
      BY ONLY <1>5, <1>6, <1>7, <1>8, <2>1, <2>2, Zenon
  <1> QED
    BY <1>9 DEF x, y

(* The accounts agree for the ICP blocks *)
LEMMA IcpExplained ==
  ASSUME NEW content \in IcpBlocks
  PROVE  LET T == FlattenSeq([i \in 1..Len(content) |-> parseICPBlockTransaction(content[i])])
             ops == FlattenSeq(content)
         IN /\ Len(T) <= 4 /\ Len(ops) <= 4
            /\ \A account \in Accounts : Net(T, account) = AddedAll(ops, account)
  <1> DEFINE t1 == <<Op("TRANSACTION", "a", -3, 0), Op("TRANSACTION", "b", 3, 1),
                     Op("FEE", "a", -1, 2)>>
             t2 == <<Op("TRANSACTION", "a", 2, 0), Op("TRANSACTION", "b", -2, 1),
                     Op("FEE", "b", -1, 2)>>
             t3 == <<Op("MINT", "a", 4, 0)>>
             t4 == <<Op("APPROVE", "b", 5, 0), Op("FEE", "b", -1, 1)>>
             ss == [i \in 1..Len(content) |-> parseICPBlockTransaction(content[i])]
             T == FlattenSeq(ss)
             ops == FlattenSeq(content)
             Good == /\ Len(T) <= 4 /\ Len(ops) <= 4
                     /\ \A account \in Accounts : Net(T, account) = AddedAll(ops, account)
  <1> SUFFICES Good
    OBVIOUS
  <1>1. content \in {<<t1>>, <<t2, t3>>, <<t4>>, <<>>}
    BY DEF IcpBlocks
  <1>2. CASE content = <<t1>>
    <2> DEFINE x == Transfer("a", "b", 3, "TRANSACTION")
               y == Transfer("a", "burn", 1, "FEE")
    <2>1. ops = t1
      <3>1. content = [i \in 1..1 |-> content[i]] /\ content[1] = t1
        BY <1>2
      <3> HIDE DEF t1
      <3> QED
        BY ONLY <3>1, FlattenShort, 1 \in 1..4, Zenon DEF ops
    <2>2. T = <<x, y>>
      <3>1. ss = [i \in 1..1 |-> ss[i]] /\ ss[1] = parseICPBlockTransaction(t1)
        BY <1>2
      <3>2. parseICPBlockTransaction(t1) = <<x, y>>
        BY IcpSend
      <3> HIDE DEF ss, t1, x, y
      <3> QED
        BY ONLY <3>1, <3>2, FlattenShort, 1 \in 1..4, Zenon DEF T
    <2> HIDE DEF T, ops
    <2>3. Len(T) = 2 /\ T[1] = x /\ T[2] = y
      BY <2>2
    <2>4. Len(ops) = 3 /\ ops[1] = Op("TRANSACTION", "a", -3, 0)
          /\ ops[2] = Op("TRANSACTION", "b", 3, 1) /\ ops[3] = Op("FEE", "a", -1, 2)
      BY <2>1
    <2>5. \A account \in Accounts : Net(T, account) = AddedAll(ops, account)
      BY <2>3, <2>4 DEF Accounts, Net, AddedAll, Received, Paid, Added, Transfer, Op
    <2> QED
      BY <2>3, <2>4, <2>5
  <1>3. CASE content = <<t2, t3>>
    <2> DEFINE x == Transfer("b", "a", 2, "TRANSACTION")
               y == Transfer("b", "burn", 1, "FEE")
               z == Transfer("mint", "a", 4, "MINT")
    <2>1. ops = <<Op("TRANSACTION", "a", 2, 0), Op("TRANSACTION", "b", -2, 1),
                  Op("FEE", "b", -1, 2), Op("MINT", "a", 4, 0)>>
      <3>1. content = [i \in 1..2 |-> content[i]] /\ content[1] = t2 /\ content[2] = t3
        BY <1>3
      <3>2. ops = content[1] \o content[2]
        <4> HIDE DEF t2, t3
        <4> QED
          BY ONLY <3>1, FlattenShort, 2 \in 1..4, Zenon DEF ops
      <3>3. t2 \o t3 = <<Op("TRANSACTION", "a", 2, 0), Op("TRANSACTION", "b", -2, 1),
                         Op("FEE", "b", -1, 2), Op("MINT", "a", 4, 0)>>
        BY ShortLists DEF t2, t3
      <3> HIDE DEF t2, t3
      <3> QED
        BY ONLY <3>1, <3>2, <3>3, Zenon
    <2>2. T = <<x, y, z>>
      <3>1. ss = [i \in 1..2 |-> ss[i]] /\ ss[1] = parseICPBlockTransaction(t2)
            /\ ss[2] = parseICPBlockTransaction(t3)
        BY <1>3
      <3>2. parseICPBlockTransaction(t2) = <<x, y>>
        BY IcpRefund
      <3>3. parseICPBlockTransaction(t3) = <<z>>
        BY IcpMintOrApprove
      <3> HIDE DEF ss, t2, t3, x, y, z
      <3>4. T = ss[1] \o ss[2]
        BY ONLY <3>1, FlattenShort, 2 \in 1..4, Zenon DEF T
      <3>5. <<x, y>> \o <<z>> = <<x, y, z>>
        BY ShortLists
      <3> QED
        BY ONLY <3>1, <3>2, <3>3, <3>4, <3>5, Zenon
    <2> HIDE DEF T, ops
    <2>3. Len(T) = 3 /\ T[1] = x /\ T[2] = y /\ T[3] = z
      BY <2>2
    <2>4. Len(ops) = 4 /\ ops[1] = Op("TRANSACTION", "a", 2, 0)
          /\ ops[2] = Op("TRANSACTION", "b", -2, 1) /\ ops[3] = Op("FEE", "b", -1, 2)
          /\ ops[4] = Op("MINT", "a", 4, 0)
      BY <2>1
    <2>5. \A account \in Accounts : Net(T, account) = AddedAll(ops, account)
      BY <2>3, <2>4 DEF Accounts, Net, AddedAll, Received, Paid, Added, Transfer, Op
    <2> QED
      BY <2>3, <2>4, <2>5
  <1>4. CASE content = <<t4>>
    <2> DEFINE x == Transfer("b", "c", 5, "APPROVE")
               y == Transfer("b", "burn", 1, "FEE")
    <2>1. ops = t4
      <3>1. content = [i \in 1..1 |-> content[i]] /\ content[1] = t4
        BY <1>4
      <3> HIDE DEF t4
      <3> QED
        BY ONLY <3>1, FlattenShort, 1 \in 1..4, Zenon DEF ops
    <2>2. T = <<x, y>>
      <3>1. ss = [i \in 1..1 |-> ss[i]] /\ ss[1] = parseICPBlockTransaction(t4)
        BY <1>4
      <3>2. parseICPBlockTransaction(t4) = <<x, y>>
        BY IcpMintOrApprove
      <3> HIDE DEF ss, t4, x, y
      <3> QED
        BY ONLY <3>1, <3>2, FlattenShort, 1 \in 1..4, Zenon DEF T
    <2> HIDE DEF T, ops
    <2>3. Len(T) = 2 /\ T[1] = x /\ T[2] = y
      BY <2>2
    <2>4. Len(ops) = 2 /\ ops[1] = Op("APPROVE", "b", 5, 0) /\ ops[2] = Op("FEE", "b", -1, 1)
      BY <2>1
    <2>5. \A account \in Accounts : Net(T, account) = AddedAll(ops, account)
      BY <2>3, <2>4 DEF Accounts, Net, AddedAll, Received, Paid, Added, Transfer, Op
    <2> QED
      BY <2>3, <2>4, <2>5
  <1>5. CASE content = <<>>
    <2>1. ss = <<>> /\ FlattenSeq(<<>>) = <<>>
      <3>1. ss = <<>>
        BY <1>5
      <3>2. FlattenSeq(<<>>) = <<>>
        BY DEF FlattenSeq
      <3> QED
        BY <3>1, <3>2
    <2>2. T = <<>> /\ ops = <<>>
      BY <1>5, <2>1
    <2> HIDE DEF T, ops
    <2>3. Len(T) = 0 /\ Len(ops) = 0
      BY <2>2
    <2>4. \A account \in Accounts : Net(T, account) = AddedAll(ops, account)
      BY <2>3 DEF Net, AddedAll, Received, Paid, Added
    <2> QED
      BY <2>3, <2>4
  <1> QED
    BY <1>1, <1>2, <1>3, <1>4, <1>5

(* The accounts agree for the ICRC blocks *)
LEMMA IcrcExplained ==
  ASSUME NEW content \in IcrcBlocks
  PROVE  LET T == FlattenSeq([i \in 1..Len(content) |-> parseICRCTransaction(content[i])])
             ops == FlattenSeq(content)
         IN /\ Len(T) <= 4 /\ Len(ops) <= 4
            /\ \A account \in Accounts : Net(T, account) = AddedAll(ops, account)
  <1> DEFINE t1 == <<Op("TRANSFER", "a", -3, 0), Op("TRANSFER", "b", 3, 1),
                     Op("FEE", "a", -1, 2), Op("FEE_COLLECTOR", "c", 1, 3)>>
             t2 == <<Op("SPENDER", "c", 0, 0), Op("TRANSFER", "b", 0, 1),
                     Op("TRANSFER", "a", 0, 2), Op("FEE", "b", -1, 3)>>
             t3 == <<Op("BURN", "b", -2, 0)>>
             t4 == <<Op("MINT", "a", 4, 0)>>
             ss == [i \in 1..Len(content) |-> parseICRCTransaction(content[i])]
             T == FlattenSeq(ss)
             ops == FlattenSeq(content)
             Good == /\ Len(T) <= 4 /\ Len(ops) <= 4
                     /\ \A account \in Accounts : Net(T, account) = AddedAll(ops, account)
  <1> SUFFICES Good
    OBVIOUS
  <1>1. content \in {<<t1>>, <<t2>>, <<t3, t4>>}
    BY DEF IcrcBlocks
  <1>2. CASE content = <<t1>>
    <2> DEFINE x == Transfer("a", "burn", 1, "FEE")
               y == Transfer("mint", "c", 1, "FEE_COLLECTOR")
               z == Transfer("a", "b", 3, "TRANSFER")
    <2>1. ops = t1
      <3>1. content = [i \in 1..1 |-> content[i]] /\ content[1] = t1
        BY <1>2
      <3> HIDE DEF t1
      <3> QED
        BY ONLY <3>1, FlattenShort, 1 \in 1..4, Zenon DEF ops
    <2>2. T = <<x, y, z>>
      <3>1. ss = [i \in 1..1 |-> ss[i]] /\ ss[1] = parseICRCTransaction(t1)
        BY <1>2
      <3>2. parseICRCTransaction(t1) = <<x, y, z>>
        BY IcrcSend
      <3> HIDE DEF ss, t1, x, y, z
      <3> QED
        BY ONLY <3>1, <3>2, FlattenShort, 1 \in 1..4, Zenon DEF T
    <2> HIDE DEF T, ops
    <2>3. Len(T) = 3 /\ T[1] = x /\ T[2] = y /\ T[3] = z
      BY <2>2
    <2>4. Len(ops) = 4 /\ ops[1] = Op("TRANSFER", "a", -3, 0)
          /\ ops[2] = Op("TRANSFER", "b", 3, 1) /\ ops[3] = Op("FEE", "a", -1, 2)
          /\ ops[4] = Op("FEE_COLLECTOR", "c", 1, 3)
      BY <2>1
    <2>5. \A account \in Accounts : Net(T, account) = AddedAll(ops, account)
      BY <2>3, <2>4 DEF Accounts, Net, AddedAll, Received, Paid, Added, Transfer, Op
    <2> QED
      BY <2>3, <2>4, <2>5
  <1>3. CASE content = <<t2>>
    <2> DEFINE x == Transfer("b", "burn", 1, "FEE")
               y == Transfer("b", "a", 0, "TRANSFER")
    <2>1. ops = t2
      <3>1. content = [i \in 1..1 |-> content[i]] /\ content[1] = t2
        BY <1>3
      <3> HIDE DEF t2
      <3> QED
        BY ONLY <3>1, FlattenShort, 1 \in 1..4, Zenon DEF ops
    <2>2. T = <<x, y>>
      <3>1. ss = [i \in 1..1 |-> ss[i]] /\ ss[1] = parseICRCTransaction(t2)
        BY <1>3
      <3>2. parseICRCTransaction(t2) = <<x, y>>
        BY IcrcNothing
      <3> HIDE DEF ss, t2, x, y
      <3> QED
        BY ONLY <3>1, <3>2, FlattenShort, 1 \in 1..4, Zenon DEF T
    <2> HIDE DEF T, ops
    <2>3. Len(T) = 2 /\ T[1] = x /\ T[2] = y
      BY <2>2
    <2>4. Len(ops) = 4 /\ ops[1] = Op("SPENDER", "c", 0, 0)
          /\ ops[2] = Op("TRANSFER", "b", 0, 1) /\ ops[3] = Op("TRANSFER", "a", 0, 2)
          /\ ops[4] = Op("FEE", "b", -1, 3)
      BY <2>1
    <2>5. \A account \in Accounts : Net(T, account) = AddedAll(ops, account)
      BY <2>3, <2>4 DEF Accounts, Net, AddedAll, Received, Paid, Added, Transfer, Op
    <2> QED
      BY <2>3, <2>4, <2>5
  <1>4. CASE content = <<t3, t4>>
    <2> DEFINE x == Transfer("b", "burn", 2, "BURN")
               y == Transfer("mint", "a", 4, "MINT")
    <2>1. ops = <<Op("BURN", "b", -2, 0), Op("MINT", "a", 4, 0)>>
      <3>1. content = [i \in 1..2 |-> content[i]] /\ content[1] = t3 /\ content[2] = t4
        BY <1>4
      <3>2. ops = content[1] \o content[2]
        <4> HIDE DEF t3, t4
        <4> QED
          BY ONLY <3>1, FlattenShort, 2 \in 1..4, Zenon DEF ops
      <3>3. t3 \o t4 = <<Op("BURN", "b", -2, 0), Op("MINT", "a", 4, 0)>>
        BY ShortLists DEF t3, t4
      <3> HIDE DEF t3, t4
      <3> QED
        BY ONLY <3>1, <3>2, <3>3, Zenon
    <2>2. T = <<x, y>>
      <3>1. ss = [i \in 1..2 |-> ss[i]] /\ ss[1] = parseICRCTransaction(t3)
            /\ ss[2] = parseICRCTransaction(t4)
        BY <1>4
      <3>2. parseICRCTransaction(t3) = <<x>> /\ parseICRCTransaction(t4) = <<y>>
        BY IcrcBurnAndMint
      <3> HIDE DEF ss, t3, t4, x, y
      <3>3. T = ss[1] \o ss[2]
        BY ONLY <3>1, FlattenShort, 2 \in 1..4, Zenon DEF T
      <3>4. <<x>> \o <<y>> = <<x, y>>
        BY ShortLists
      <3> QED
        BY ONLY <3>1, <3>2, <3>3, <3>4, Zenon
    <2> HIDE DEF T, ops
    <2>3. Len(T) = 2 /\ T[1] = x /\ T[2] = y
      BY <2>2
    <2>4. Len(ops) = 2 /\ ops[1] = Op("BURN", "b", -2, 0) /\ ops[2] = Op("MINT", "a", 4, 0)
      BY <2>1
    <2>5. \A account \in Accounts : Net(T, account) = AddedAll(ops, account)
      BY <2>3, <2>4 DEF Accounts, Net, AddedAll, Received, Paid, Added, Transfer, Op
    <2> QED
      BY <2>3, <2>4, <2>5
  <1> QED
    BY <1>1, <1>2, <1>3, <1>4

(* What the worker makes of a block explains its operations. *)
LEMMA BlocksExplained ==
  ASSUME worker \in OpsWorkers, NEW content \in Contents
  PROVE  Explained(TransfersOf(content), FlattenSeq(content))
  <1>1. TransfersOf(content) \in Seq(AnyTransfer)
    BY TransfersAreTransfers
  <1>2. content \in IcpBlocks \cup IcrcBlocks
    BY DEF Contents, OpsWorkers
  <1>3. content \in Seq(Seq(Operation))
    BY <1>2, LedgerBlocks
  <1>4. FlattenSeq(content) \in Seq(Operation)
    BY <1>3, FlattenLayout
  <1>5. CASE worker = "icp"
    <2>1. content \in IcpBlocks
      BY <1>5 DEF Contents
    <2>2. TransfersOf(content) =
            FlattenSeq([i \in 1..Len(content) |-> parseICPBlockTransaction(content[i])])
      BY <1>5, <2>1 DEF TransfersOf, IcpTransfers
    <2> QED
      BY <1>1, <1>4, <2>1, <2>2, IcpExplained DEF Explained
  <1>6. CASE worker = "icrc"
    <2>1. content \in IcrcBlocks
      BY <1>6 DEF Contents
    <2>2. TransfersOf(content) =
            FlattenSeq([i \in 1..Len(content) |-> parseICRCTransaction(content[i])])
      BY <1>6, <2>1 DEF TransfersOf, IcrcTransfers
    <2> QED
      BY <1>1, <1>4, <2>1, <2>2, IcrcExplained DEF Explained
  <1> QED
    BY <1>5, <1>6 DEF OpsWorkers

(* What a block moves is what its operations add. *)
LEMMA MovedIsAdded ==
  ASSUME worker \in OpsWorkers, NEW content \in Contents, NEW account \in Accounts
  PROVE  Moved[content][account] = AddedAll(FlattenSeq(content), account)
  <1> DEFINE ops == FlattenSeq(content)
             f == [k \in DOMAIN ops |-> ops[k].value]
             S == {k \in DOMAIN ops : ops[k].account = account
                                      /\ ops[k].type \notin {"APPROVE", "SPENDER"}}
  <1>1. ops \in Seq(Operation) /\ Len(ops) <= 4
    BY BlocksExplained DEF Explained
  <1>2. Moved[content][account] = SumFunctionOnSet(f, S)
    <2>1. content \in IcpBlocks \cup IcrcBlocks
      BY DEF Contents, OpsWorkers
    <2> QED
      BY <2>1 DEF Moved, Accounts
  <1> HIDE DEF ops
  <1>3. \A k \in 1..Len(ops) : ops[k].value \in Int
    <2>1. \A x \in Operation : x.value \in Int
      BY DEF Operation
    <2>2. \A k \in 1..Len(ops) : ops[k] \in Operation
      BY <1>1
    <2> QED
      BY <2>1, <2>2
  <1>4. /\ DOMAIN ops = 1..Len(ops) /\ Len(ops) \in Nat
        /\ S \subseteq {1, 2, 3, 4} /\ S \subseteq 1..Len(ops)
        /\ \A k \in S : f[k] \in Int
    BY <1>1, <1>3
  <1>5. \A k : Term(f, S, k) = Added(ops, k, account)
    BY <1>4 DEF Term, Added
  <1> HIDE DEF f, S
  <1>6. SumFunctionOnSet(f, S) = Term(f, S, 1) + Term(f, S, 2) + Term(f, S, 3) + Term(f, S, 4)
    <2>1. Distinct(1, 2, 3, 4)
      BY DEF Distinct
    <2>2. FourTerms(f, S, 1, 2, 3, 4)
      BY ONLY <1>4, <2>1, SumOfFour
    <2> QED
      BY <2>2 DEF FourTerms
  <1>7. SumFunctionOnSet(f, S) = AddedAll(ops, account)
    BY <1>5, <1>6 DEF AddedAll
  <1> QED
    BY <1>2, <1>7 DEF ops

(* A transfer of a block, without its key *)
At(b, i, transfer) == [block |-> b, index |-> i, transfer |-> transfer]

Chosen(T, J, i) == IF i \in J THEN T[i].value ELSE 0

ChosenTerms(f, X, T, J) ==
  SumFunctionOnSet(f, X) = Chosen(T, J, 1) + Chosen(T, J, 2) + Chosen(T, J, 3) + Chosen(T, J, 4)

(* The sum of some transfers of a block *)
LEMMA BlockSum ==
  ASSUME NEW T \in Seq(AnyTransfer), Len(T) <= 4, NEW J, J \subseteq 1..Len(T), NEW b, NEW f,
         NEW X, X = {At(b, i, T[i]) : i \in J}, \A i \in J : f[At(b, i, T[i])] = T[i].value
  PROVE  ChosenTerms(f, X, T, J)
  <1> DEFINE e(i) == At(b, i, T[i])
  <1>1. \A i, j : e(i) = e(j) => i = j
    BY DEF At
  <1>2. \A i \in J : i \in {1, 2, 3, 4} /\ T[i].value \in Int
    <2>1. \A x \in AnyTransfer : x.value \in Int
      BY DEF AnyTransfer
    <2>2. \A i \in J : T[i] \in AnyTransfer /\ i \in {1, 2, 3, 4}
      OBVIOUS
    <2> QED
      BY <2>1, <2>2
  <1>3. \A i : e(i) \in X <=> i \in J
    BY <1>1
  <1>4. \A i \in J : f[e(i)] = T[i].value
    OBVIOUS
  <1>5. X = {e(i) : i \in J}
    OBVIOUS
  <1> HIDE DEF e
  <1>6. X \subseteq {e(1), e(2), e(3), e(4)} /\ \A x \in X : f[x] \in Int
    <2> SUFFICES ASSUME NEW x \in X PROVE x \in {e(1), e(2), e(3), e(4)} /\ f[x] \in Int
      OBVIOUS
    <2>1. PICK i \in J : x = e(i)
      BY <1>5
    <2>2. f[x] \in Int
      BY <1>2, <1>4, <2>1
    <2>3. i = 1 \/ i = 2 \/ i = 3 \/ i = 4
      BY <1>2
    <2> QED
      BY ONLY <2>1, <2>2, <2>3
  <1>7. Distinct(e(1), e(2), e(3), e(4))
    BY <1>1 DEF Distinct
  <1>8. FourTerms(f, X, e(1), e(2), e(3), e(4))
    BY ONLY <1>6, <1>7, SumOfFour
  <1>9. \A i : Term(f, X, e(i)) = Chosen(T, J, i)
    BY <1>3, <1>4 DEF Term, Chosen
  <1> QED
    BY <1>8, <1>9 DEF FourTerms, ChosenTerms

Placed(b, T, J) == {At(b, i, T[i]) : i \in J}

(* The places of the transfers that are not approvals, and those of them to   *)
(* or from an account                                                        *)
Moving(T) == {i \in 1..Len(T) : T[i].type # "APPROVE"}

To(T, account) == {i \in Moving(T) : T[i].to = account}

From(T, account) == {i \in Moving(T) : T[i].from = account}

(* What the events of a block net *)
LEMMA BlockNet ==
  ASSUME worker \in OpsWorkers, NEW content \in Contents, NEW account \in Accounts, NEW T,
         T = TransfersOf(content), NEW b, NEW f, NEW X, NEW Y, X = Placed(b, T, To(T, account)),
         Y = Placed(b, T, From(T, account)),
         \A i \in Moving(T) : f[At(b, i, T[i])] = T[i].value
  PROVE  Moved[content][account] = SumFunctionOnSet(f, X) - SumFunctionOnSet(f, Y)
  <1> DEFINE J == To(T, account)
             K == From(T, account)
  <1>1. /\ T \in Seq(AnyTransfer) /\ Len(T) <= 4
        /\ Net(T, account) = AddedAll(FlattenSeq(content), account)
    BY BlocksExplained DEF Explained
  <1>2. J \subseteq 1..Len(T) /\ K \subseteq 1..Len(T)
        /\ (\A i \in J : f[At(b, i, T[i])] = T[i].value)
        /\ (\A i \in K : f[At(b, i, T[i])] = T[i].value)
        /\ X = {At(b, i, T[i]) : i \in J} /\ Y = {At(b, i, T[i]) : i \in K}
    BY DEF Placed, To, From, Moving
  <1>3. \A i : Chosen(T, J, i) = Received(T, i, account) /\ Chosen(T, K, i) = Paid(T, i, account)
    BY DEF Chosen, Received, Paid, To, From, Moving
  <1> HIDE DEF J, K
  <1>4. ChosenTerms(f, X, T, J)
    BY ONLY <1>1, <1>2, BlockSum
  <1>5. ChosenTerms(f, Y, T, K)
    BY ONLY <1>1, <1>2, BlockSum
  <1>6. SumFunctionOnSet(f, X) - SumFunctionOnSet(f, Y) = Net(T, account)
    BY <1>3, <1>4, <1>5 DEF Net, ChosenTerms
  <1> QED
    BY <1>1, <1>6, MovedIsAdded

(* The events of the claimed blocks, without their keys and approvals *)
Claimed == {e \in topic : e.block <= saved.block /\ e.transfer.type # "APPROVE"}

Transfers == {At(e.block, e.index, e.transfer) : e \in Claimed}

(* S has of block b the transfers at J. *)
Selects(S, b, T, J) ==
  /\ S \subseteq Transfers /\ J \subseteq Moving(T)
  /\ \A e \in Transfers : e \in S /\ e.block = b => e.index \in J
  /\ \A j \in J : At(b, j, T[j]) \in Transfers => At(b, j, T[j]) \in S

(* These are all in Kafka, and nothing else is. *)
LEMMA ClaimedOfBlock ==
  ASSUME worker \in OpsWorkers, Operations, NEW b \in 1..saved.block, NEW T,
         T = TransfersOf(chain[b]), NEW S, NEW J, Selects(S, b, T, J)
  PROVE  {e \in S : e.block = b} = Placed(b, T, J)
  <1>1. /\ \A e \in topic : IsTransferEvent(e)
        /\ \A i \in 1..saved.block : HasBlock(topic, i)
        /\ saved.block \in {0} \cup Block /\ chain \in [Block -> Contents]
    BY DEF Operations
  <1>2. b \in Block /\ b <= saved.block /\ ChainTransfers[b] = T
    <2>1. b \in Block
      BY <1>1, BeforeFacts
    <2>2. b <= saved.block
      BY <1>1, BeforeFacts
    <2> QED
      BY <2>1, <2>2 DEF ChainTransfers
  <1>3. ASSUME NEW e \in S, e.block = b PROVE e.index \in J /\ e = At(b, e.index, T[e.index])
    <2>1. PICK x \in Claimed : e = At(x.block, x.index, x.transfer)
      BY DEF Transfers, Selects
    <2>2. e.block = x.block /\ e.index = x.index /\ e.transfer = x.transfer
      BY <2>1 DEF At
    <2>3. x.transfer = ChainTransfers[x.block][x.index]
      BY <1>1 DEF IsTransferEvent, Claimed
    <2>4. e = At(b, e.index, T[e.index])
      BY <1>2, <1>3, <2>1, <2>2, <2>3
    <2> QED
      BY <1>3, <2>4 DEF Selects
  <1>4. ASSUME NEW j \in J PROVE At(b, j, T[j]) \in S /\ At(b, j, T[j]).block = b
    <2>1. PICK x \in topic : x.block = b /\ x.index = j
      BY <1>1, <1>2 DEF HasBlock, Selects, Moving
    <2>2. x.transfer = T[j]
      BY <1>1, <1>2, <2>1 DEF IsTransferEvent
    <2>3. x \in Claimed
      BY <1>2, <2>1, <2>2 DEF Claimed, Selects, Moving
    <2>4. At(b, j, T[j]) \in Transfers
      BY <2>1, <2>2, <2>3 DEF Transfers
    <2> QED
      BY <2>4 DEF At, Selects
  <1> QED
    BY <1>3, <1>4 DEF Placed

(* What is exported of the claimed blocks is finite. *)
LEMMA TransfersFinite ==
  ASSUME worker \in OpsWorkers, Operations
  PROVE  /\ IsFiniteSet(Transfers) /\ saved.block \in Nat
         /\ \A e \in Transfers : e.block \in 1..saved.block /\ e.transfer.value \in Int
  <1>1. /\ \A e \in topic : IsTransferEvent(e)
        /\ saved.block \in {0} \cup Block /\ chain \in [Block -> Contents]
    BY DEF Operations
  <1>2. saved.block \in Nat /\ \A b \in Block : b \in Nat /\ b >= 1
    BY <1>1, BeforeFacts
  <1> DEFINE n == saved.block
             P == (1..n) \X (1..4)
             F == [p \in P |-> At(p[1], p[2], TransfersOf(chain[p[1]])[p[2]])]
             R == {F[p] : p \in P}
  <1>3. ASSUME NEW e \in Transfers
        PROVE  e.block \in 1..n /\ e.transfer.value \in Int /\ e \in R
    <2>1. PICK x \in Claimed : e = At(x.block, x.index, x.transfer)
      BY DEF Transfers
    <2>2. e.block = x.block /\ e.index = x.index /\ e.transfer = x.transfer
      BY <2>1 DEF At
    <2>3. /\ x.block \in Block /\ x.block <= n
          /\ x.index \in 1..Len(ChainTransfers[x.block])
          /\ x.transfer = ChainTransfers[x.block][x.index]
      BY <1>1 DEF IsTransferEvent, Claimed
    <2> DEFINE T == TransfersOf(chain[x.block])
    <2>4. ChainTransfers[x.block] = T
      BY <2>3 DEF ChainTransfers
    <2>5. T \in Seq(AnyTransfer) /\ Len(T) <= 4
      BY <1>1, <2>3, BlocksExplained DEF Explained
    <2> HIDE DEF T
    <2>6. x.block \in 1..n /\ x.index \in 1..4 /\ x.index \in 1..Len(T)
      BY <1>2, <2>3, <2>4, <2>5
    <2>7. T[x.index] \in AnyTransfer
      BY <2>5, <2>6
    <2>8. e.transfer.value \in Int
      BY <2>2, <2>3, <2>4, <2>7 DEF AnyTransfer
    <2>9. e = F[<<x.block, x.index>>]
      <3>1. <<x.block, x.index>> \in P /\ <<x.block, x.index>>[1] = x.block
            /\ <<x.block, x.index>>[2] = x.index
        BY <2>6
      <3>2. F[<<x.block, x.index>>] = At(x.block, x.index, T[x.index])
        BY <3>1 DEF T
      <3> QED
        BY <2>1, <2>3, <2>4, <3>2
    <2>10. <<x.block, x.index>> \in P
      BY <2>6
    <2> HIDE DEF F, P
    <2> QED
      BY <2>2, <2>6, <2>8, <2>9, <2>10
  <1>4. IsFiniteSet(R)
    <2>1. IsFiniteSet(P)
      <3>1. IsFiniteSet(1..n) /\ IsFiniteSet(1..4)
        <4>1. \A h \in Int : IsFiniteSet(1..h)
          BY FS_Interval
        <4>2. n \in Int /\ 4 \in Int
          BY <1>2
        <4> QED
          BY ONLY <4>1, <4>2
      <3> QED
        BY <3>1, FS_Product
    <2>2. F \in [P -> R]
      OBVIOUS
    <2>3. F \in Surjection(P, R)
      <3> HIDE DEF F
      <3> QED
        BY <2>2 DEF Surjection
    <2> HIDE DEF F, P, R
    <2> QED
      BY <2>1, <2>3, FS_Surjection
  <1>5. IsFiniteSet(Transfers)
    <2>1. Transfers \subseteq R
      BY <1>3
    <2> HIDE DEF R
    <2> QED
      BY <1>4, <2>1, FS_Subset
  <1> QED
    BY <1>2, <1>3, <1>5

(* What is exported of the claimed blocks adds up to what they moved. *)
LEMMA ExportedIsLedger ==
  ASSUME worker \in OpsWorkers, Operations, NEW account \in Accounts
  PROVE  ExportedBalance(account) = LedgerBalance(account)
  <1> DEFINE n == saved.block
             M == [b \in 1..n |-> Moved[chain[b]][account]]
             f == [e \in Transfers |-> e.transfer.value]
             at == [e \in Transfers |-> e.block]
             X == {e \in Transfers : e.transfer.to = account}
             Y == {e \in Transfers : e.transfer.from = account}
  <1>1. /\ IsFiniteSet(Transfers) /\ n \in Nat
        /\ \A e \in Transfers : e.block \in 1..n /\ e.transfer.value \in Int
    BY TransfersFinite
  <1>2. ExportedBalance(account) = SumFunctionOnSet(f, X) - SumFunctionOnSet(f, Y)
    <2>1. Transfers = {[block |-> e.block, index |-> e.index, transfer |-> e.transfer] :
                        e \in {g \in topic : g.block <= saved.block /\ g.transfer.type # "APPROVE"}}
      BY DEF Transfers, Claimed, At
    <2> QED
      BY <2>1 DEF ExportedBalance
  <1>3. LedgerBalance(account) = SumFunctionOnSet(M, 1..n)
    BY DEF LedgerBalance, SumFunction
  <1>4. Summable(f, X) /\ Summable(f, Y)
    <2>1. X \subseteq Transfers /\ Y \subseteq Transfers /\ \A e \in Transfers : f[e] \in Int
      BY <1>1
    <2> HIDE DEF X, Y, f
    <2> QED
      BY <1>1, <2>1, FS_Subset DEF Summable
  <1>5. ASSUME NEW b \in 1..n
        PROVE  M[b] = SumFunctionOnSet(f, AtBlock(X, at, b)) - SumFunctionOnSet(f, AtBlock(Y, at, b))
    <2> DEFINE content == chain[b]
               T == TransfersOf(content)
               J == To(T, account)
               K == From(T, account)
    <2>1. content \in Contents
      <3>1. chain \in [Block -> Contents] /\ saved.block \in {0} \cup Block
        BY DEF Operations
      <3>2. b \in Block
        BY <3>1, BeforeFacts
      <3> QED
        BY <3>1, <3>2
    <2>2. M[b] = Moved[content][account]
      OBVIOUS
    <2>3. AtBlock(X, at, b) = {e \in X : e.block = b} /\ AtBlock(Y, at, b) = {e \in Y : e.block = b}
      BY DEF AtBlock
    <2>4. ASSUME NEW e \in Transfers, e.block = b
          PROVE  /\ e.index \in 1..Len(T) /\ e.transfer = T[e.index] /\ T[e.index].type # "APPROVE"
      <3>1. PICK x \in Claimed : e = At(x.block, x.index, x.transfer)
        BY DEF Transfers
      <3>2. e.block = x.block /\ e.index = x.index /\ e.transfer = x.transfer
        BY <3>1 DEF At
      <3>3. /\ x.block \in Block /\ x.index \in 1..Len(ChainTransfers[x.block])
            /\ x.transfer = ChainTransfers[x.block][x.index] /\ x.transfer.type # "APPROVE"
        BY DEF Operations, IsTransferEvent, Claimed
      <3>4. ChainTransfers[x.block] = T
        BY <2>4, <3>2, <3>3 DEF ChainTransfers
      <3> QED
        BY <3>2, <3>3, <3>4
    <2>5. \A j \in 1..Len(T) : At(b, j, T[j]).transfer = T[j]
      BY DEF At
    <2> DEFINE XB == {e \in X : e.block = b}
               YB == {e \in Y : e.block = b}
    <2>6. b \in 1..saved.block /\ T = TransfersOf(chain[b])
      OBVIOUS
    <2>7. Selects(X, b, T, J) /\ Selects(Y, b, T, K) /\ Selects(Transfers, b, T, Moving(T))
      BY <2>4, <2>5 DEF Selects, Moving, To, From
    <2>8. T = TransfersOf(content)
      OBVIOUS
    <2> HIDE DEF T, n, J, K, X, Y, XB, YB, content
    <2> DEFINE Here(S, L) == {e \in S : e.block = b} = Placed(b, T, L)
    <2>9. \A S, L : Selects(S, b, T, L) => Here(S, L)
      BY ONLY <2>6, ClaimedOfBlock, worker \in OpsWorkers, Operations, Zenon
    <2>10. Here(X, J) /\ Here(Y, K) /\ Here(Transfers, Moving(T))
      <3> HIDE DEF Here
      <3> QED
        BY ONLY <2>7, <2>9, Zenon
    <2>11. XB = Placed(b, T, J)
      BY ONLY <2>10 DEF XB, Here
    <2>12. YB = Placed(b, T, K)
      BY ONLY <2>10 DEF YB, Here
    <2>13. \A i \in Moving(T) : f[At(b, i, T[i])] = T[i].value
      <3>1. {e \in Transfers : e.block = b} = Placed(b, T, Moving(T))
        BY ONLY <2>10 DEF Here
      <3>2. \A i \in Moving(T) : At(b, i, T[i]) \in Transfers
        BY <3>1 DEF Placed
      <3> QED
        BY <3>2 DEF At
    <2> HIDE DEF f
    <2>14. Moved[content][account] = SumFunctionOnSet(f, XB) - SumFunctionOnSet(f, YB)
      BY ONLY <2>1, <2>8, <2>11, <2>12, <2>13, BlockNet, worker \in OpsWorkers,
         account \in Accounts DEF J, K
    <2> HIDE DEF at, M
    <2> QED
      BY <2>2, <2>3, <2>14 DEF XB, YB
  <1>6. \A x \in X \cup Y : at[x] \in 1..n
    BY <1>1
  <1>7. 1 - 1 <= n /\ 1 \in Int /\ n \in Int
    BY <1>1
  <1> HIDE DEF n, M, f, at, X, Y
  <1>8. DifferInBlocks(f, X, Y, at, 1, n, M)
    BY <1>5, <1>6 DEF DifferInBlocks
  <1>9. Differ(f, X, Y, 1, n, M)
    BY ONLY <1>4, <1>7, <1>8, SumByBlock
  <1> QED
    BY <1>2, <1>3, <1>9 DEF Differ

(* The transfers in Kafka of the blocks up to the saved position add up, for   *)
(* every account, to the operations of these blocks, for every chain made of  *)
(* the blocks of the two ledgers, whatever was retried, thrown away or sent   *)
(* twice.                                                                    *)
THEOREM TransfersExplainBalances == Spec => []BalancesAgree
  <1>1. ASSUME IInv, Operations PROVE BalancesAgree
    BY <1>1, ExportedIsLedger DEF BalancesAgree, OpsWorkers, Accounts
  <1> QED
    BY <1>1, OperationsAlways, PTL

=============================================================================
