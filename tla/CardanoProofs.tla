--------------------------- MODULE CardanoProofs ----------------------------
(***************************************************************************)
(* Proofs about the Cardano worker, for every chain, every way the API     *)
(* cuts its answers, every lag and every number of crashes.                *)
(***************************************************************************)
EXTENDS Cardano, FiniteSetTheorems, TLAPS

(* All transactions of the chain up to block b. *)
UpTo(b) == {t \in AllTransactions : t.block <= b}

(* The key of a transaction: its place in the chain. *)
KeyOf(t) == StartKey + Rank(AllTransactions, t)

(* Everything up to block b is in the topic. *)
Exported(b) == \A t \in UpTo(b) : \E e \in topic : e.transaction = t

(* What was taken from the API after the saved position. *)
Pending == {t \in AllTransactions : saved.block < t.block /\ t.block <= lastExportedBlock}

(* Every variable the proofs need holds a value of its code counterpart's  *)
(* kind.                                                                   *)
TypeOK ==
  /\ tip \in Block
  /\ transactionsCount \in [Block -> Nat]
  /\ pc \in {"init", "work", "store", "save"}
  /\ lastConfirmedBlock \in Int
  /\ lastExportedBlock \in Int /\ lastExportedBlock >= -1
  /\ lastPrimaryKey \in Int
  /\ saved.block \in Int /\ saved.block >= -1 /\ saved.key \in Int

(* What the worker knows: its key is the number of transactions up to its  *)
(* block, a batch holds exactly the transactions after the saved position, *)
(* each with its place in the chain for a key, and what it has stored is   *)
(* confirmed, whole and complete up to the position it is about to save.   *)
IInv ==
  /\ pc # "init" => lastConfirmedBlock <= tip - Confirmations
  /\ lastPrimaryKey = StartKey + Cardinality(UpTo(lastExportedBlock))
  /\ saved.key = StartKey + Cardinality(UpTo(saved.block))
  /\ saved.block <= lastExportedBlock
  /\ pc \in {"init", "work"} => lastExportedBlock = saved.block
  /\ pc = "store" =>
       /\ events = {[transaction |-> t, primaryKey |-> KeyOf(t)] : t \in Pending}
       /\ lastExportedBlock <= tip - Confirmations
  /\ Exported(saved.block)
  /\ pc = "save" => Exported(lastExportedBlock)
  /\ \A e \in topic : /\ e.transaction \in AllTransactions
                      /\ e.primaryKey = KeyOf(e.transaction)
                      /\ e.transaction.block <= tip - Confirmations
  /\ BlocksAreWhole

-----------------------------------------------------------------------------
(* Transactions and blocks.                                                *)

(* The transactions of one block. *)
InBlock(b) == {[block |-> b, index |-> k] : k \in 1..transactionsCount[b]}

(* A transaction is asked for exactly if its block is. *)
LEMMA TransactionsOf ==
  ASSUME NEW blocks \in SUBSET Block
  PROVE  /\ Transactions(blocks) = {t \in AllTransactions : t.block \in blocks}
         /\ \A t \in AllTransactions :
              t.block \in Block /\ t.index \in 1..transactionsCount[t.block]
  BY DEF Transactions, AllTransactions

(* A block holds as many transactions as the API counts for it. *)
LEMMA InBlockCount ==
  ASSUME TypeOK, NEW b \in Block
  PROVE  /\ IsFiniteSet(InBlock(b))
         /\ Cardinality(InBlock(b)) = transactionsCount[b]
         /\ InBlock(b) = {t \in AllTransactions : t.block = b}
  <1> DEFINE n == transactionsCount[b]
             nth == [k \in 1..n |-> [block |-> b, index |-> k]]
  <1>1. n \in Nat
    BY DEF TypeOK
  <1>2. nth \in Bijection(1..n, InBlock(b))
    <2>1. nth \in [1..n -> InBlock(b)]
      BY DEF InBlock
    <2>2. \A j, k \in 1..n : nth[j] = nth[k] => j = k
      OBVIOUS
    <2>3. \A t \in InBlock(b) : \E k \in 1..n : nth[k] = t
      BY DEF InBlock
    <2> QED
      BY <2>1, <2>2, <2>3 DEF Bijection, Injection, Surjection, IsInjective
  <1>3. ExistsBijection(1..n, InBlock(b))
    BY <1>2 DEF ExistsBijection
  <1>4. IsFiniteSet(1..n)
    BY <1>1, FS_Interval
  <1>5. IsFiniteSet(InBlock(b)) /\ Cardinality(InBlock(b)) = n
    BY <1>1, <1>3, <1>4, FS_Bijection, FS_CountingElements
  <1>6. InBlock(b) = {t \in AllTransactions : t.block = b}
    BY DEF InBlock, AllTransactions, Transactions
  <1> QED
    BY <1>5, <1>6

(* The chain has finitely many transactions, so every part of it can be    *)
(* counted.                                                                *)
LEMMA PartsFinite ==
  ASSUME TypeOK, NEW S \in SUBSET AllTransactions
  PROVE  IsFiniteSet(S) /\ Cardinality(S) \in Nat
  <1> DEFINE parts == {InBlock(b) : b \in Block}
             part == [b \in Block |-> InBlock(b)]
  <1>1. IsFiniteSet(Block)
    BY FS_Interval, CardanoAssumption DEF Block
  <1>2. part \in Surjection(Block, parts)
    BY DEF Surjection
  <1>3. IsFiniteSet(parts)
    BY <1>1, <1>2, FS_Surjection
  <1>4. \A T \in parts : IsFiniteSet(T)
    BY InBlockCount
  <1>5. IsFiniteSet(UNION parts)
    BY <1>3, <1>4, FS_UNION
  <1>6. AllTransactions = UNION parts
    BY DEF AllTransactions, Transactions, InBlock
  <1>7. IsFiniteSet(S)
    BY <1>5, <1>6, FS_Subset
  <1> QED
    BY <1>7, FS_CardinalityType

(* Two parts without a common transaction count together. *)
LEMMA DisjointParts ==
  ASSUME TypeOK, NEW S \in SUBSET AllTransactions, NEW T \in SUBSET AllTransactions,
         S \cap T = {}
  PROVE  Cardinality(S \cup T) = Cardinality(S) + Cardinality(T)
  <1>1. /\ IsFiniteSet(S) /\ Cardinality(S) \in Nat
        /\ IsFiniteSet(T) /\ Cardinality(T) \in Nat
    BY PartsFinite
  <1>2. Cardinality(S \cup T) = Cardinality(S) + Cardinality(T) - Cardinality(S \cap T)
    BY <1>1, FS_Union
  <1> QED
    BY <1>1, <1>2, FS_EmptySet

(* A set of blocks has a last one. *)
LEMMA HighestBlock ==
  ASSUME NEW S \in SUBSET Block, S # {}
  PROVE  \E b \in S : \A c \in S : c <= b
  <1> DEFINE T == {MaxTip - b : b \in S}
             R == {ss \in Nat \X Nat : ss[1] < ss[2]}
  <1>1. T \subseteq Nat /\ T # {}
    <2>1. \A b \in S : MaxTip - b \in Nat
      BY CardanoAssumption DEF Block
    <2>2. PICK b \in S : TRUE
      OBVIOUS
    <2>3. MaxTip - b \in T
      BY <2>2
    <2> QED
      BY <2>1, <2>3
  <1>2. PICK x \in T : \A y \in T : ~(<<y, x>> \in R)
    <2>1. IsWellFoundedOn(R, Nat)
      BY NatLessThanWellFounded DEF OpToRel
    <2> HIDE DEF R, T
    <2> QED
      BY <1>1, <2>1, WFMin
  <1>3. \A y \in T : ~(y < x)
    BY <1>1, <1>2
  <1>4. PICK b \in S : x = MaxTip - b
    OBVIOUS
  <1>5. \A c \in S : c <= b
    <2> TAKE c \in S
    <2>1. ~(MaxTip - c < MaxTip - b)
      BY <1>3, <1>4
    <2> QED
      BY <2>1, CardanoAssumption DEF Block
  <1> QED
    BY <1>5

(* LastBlock finds it. *)
LEMMA LastBlockFacts ==
  ASSUME NEW S \in SUBSET AllTransactions, S # {}
  PROVE  /\ LastBlock(S) \in BlocksOf(S)
         /\ LastBlock(S) \in Block
         /\ \A t \in S : t.block <= LastBlock(S)
  <1>1. BlocksOf(S) \in SUBSET Block /\ BlocksOf(S) # {}
    BY TransactionsOf DEF BlocksOf
  <1>2. \E b \in BlocksOf(S) : \A c \in BlocksOf(S) : c <= b
    BY <1>1, HighestBlock
  <1>3. /\ LastBlock(S) \in BlocksOf(S)
        /\ \A c \in BlocksOf(S) : c <= LastBlock(S)
    BY <1>2 DEF LastBlock
  <1>4. \A t \in S : t.block \in BlocksOf(S)
    BY DEF BlocksOf
  <1> QED
    BY <1>1, <1>3, <1>4

-----------------------------------------------------------------------------
(* Answers of the API.                                                     *)

(* An answer may stop early and may lack a transaction, but a block before *)
(* one that it has transactions of is not missing altogether.              *)
LEMMA AnswerFacts ==
  ASSUME TypeOK, NEW blocks \in SUBSET Block, NEW answer \in Answers(blocks), answer # {}
  PROVE  /\ answer \subseteq {t \in AllTransactions : t.block \in blocks}
         /\ \A t \in answer : \A s \in AllTransactions :
              s.block \in blocks /\ s.block < t.block => \E r \in answer : r.block = s.block
  <1> DEFINE all == Transactions(blocks)
             Prefix(last) == {t \in all : ~Before(last, t)}
  <1>1. all = {t \in AllTransactions : t.block \in blocks}
    BY TransactionsOf
  <1>2. \A t \in all : t.block \in Int /\ t.index \in Int
    <2>1. \A t \in all : t \in AllTransactions
      BY <1>1
    <2>2. \A b \in Block : b \in Int /\ transactionsCount[b] \in Nat
      BY DEF TypeOK, Block
    <2> QED
      BY <2>1, <2>2, TransactionsOf
  <1>3. all # {}
    BY DEF Answers
  <1>4. PICK last \in all :
          \/ answer = Prefix(last)
          \/ \E u \in Prefix(last) : /\ answer = Prefix(last) \ {u}
                                     /\ \E s \in Prefix(last) \ {u} : s.block = u.block
    BY <1>3 DEF Answers
  <1>5. answer \subseteq all
    BY <1>4
  <1>6. ASSUME NEW t \in answer, NEW s \in AllTransactions,
               s.block \in blocks, s.block < t.block
        PROVE  \E r \in answer : r.block = s.block
    <2>1. s \in all /\ t \in Prefix(last)
      BY <1>1, <1>4, <1>6
    <2>2. s \in Prefix(last)
      BY <1>2, <1>6, <2>1 DEF Before
    <2> HIDE DEF Prefix
    <2> QED
      BY <1>4, <2>2
  <1> QED
    BY <1>1, <1>5, <1>6

(* What verifyAllBlocksComplete accepts are whole blocks. *)
LEMMA CompleteBlocks ==
  ASSUME TypeOK, NEW kept \in SUBSET AllTransactions, verifyAllBlocksComplete(kept),
         NEW t \in kept, NEW s \in AllTransactions, s.block = t.block
  PROVE  s \in kept
  <1> DEFINE b == t.block
             seen == {u \in kept : u.block = b}
  <1>1. b \in Block
    BY TransactionsOf
  <1>2. /\ IsFiniteSet(InBlock(b)) /\ Cardinality(InBlock(b)) = transactionsCount[b]
        /\ InBlock(b) = {u \in AllTransactions : u.block = b}
    BY <1>1, InBlockCount
  <1>3. seen \in SUBSET InBlock(b)
    BY <1>2
  <1>4. Cardinality(seen) = transactionsCount[b]
    BY DEF verifyAllBlocksComplete, BlocksOf, Seen
  <1>5. seen = InBlock(b)
    BY <1>2, <1>3, <1>4, FS_Subset
  <1> QED
    BY <1>2, <1>5

(* What is left of an answer that is not refused: all transactions of the  *)
(* blocks asked for, up to the last one that is left.                      *)
LEMMA AcceptedIsComplete ==
  ASSUME TypeOK, NEW blocks \in SUBSET Block, NEW answer \in Answers(blocks), answer # {},
         ~SingleBlockIsPartial(answer),
         verifyAllBlocksComplete(discardNotCompletedBlock(answer))
  PROVE  LET kept == discardNotCompletedBlock(answer)
         IN /\ kept # {}
            /\ kept \subseteq AllTransactions
            /\ LastBlock(kept) \in blocks
            /\ kept = {t \in AllTransactions : t.block \in blocks /\ t.block <= LastBlock(kept)}
  <1> DEFINE kept == discardNotCompletedBlock(answer)
             end == LastBlock(answer)
             last == LastBlock(kept)
  <1>1. /\ answer \in SUBSET AllTransactions
        /\ \A t \in answer : t.block \in blocks
        /\ \A t \in answer : \A s \in AllTransactions :
             s.block \in blocks /\ s.block < t.block => \E r \in answer : r.block = s.block
    BY AnswerFacts
  <1>2. /\ end \in BlocksOf(answer) /\ end \in Block
        /\ \A t \in answer : t.block <= end
    BY <1>1, LastBlockFacts
  <1>3. kept = answer \/ kept = {t \in answer : t.block # end}
    BY DEF discardNotCompletedBlock
  <1>4. kept # {}
    <2>1. CASE Seen(answer, end) = transactionsCount[end]
      BY <2>1 DEF discardNotCompletedBlock
    <2>2. CASE Seen(answer, end) # transactionsCount[end]
      <3>1. BlocksOf(answer) # {end}
        BY <2>2 DEF SingleBlockIsPartial
      <3>2. PICK t \in answer : t.block # end
        BY <1>2, <3>1 DEF BlocksOf
      <3> QED
        BY <1>3, <3>2
    <2> QED
      BY <2>1, <2>2
  <1>5. kept \in SUBSET AllTransactions
    BY <1>1, <1>3
  <1>6. /\ last \in BlocksOf(kept) /\ last \in Block
        /\ \A t \in kept : t.block <= last
    BY <1>4, <1>5, LastBlockFacts
  <1> HIDE DEF kept, end, last
  <1>7. PICK t \in kept : t.block = last
    BY <1>6 DEF BlocksOf
  <1>8. last \in blocks /\ t \in answer
    BY <1>1, <1>3, <1>7
  <1>9. ASSUME NEW s \in AllTransactions, s.block \in blocks, s.block <= last
        PROVE  s \in kept
    <2>0. last \in Int /\ end \in Int /\ s.block \in Int
      BY <1>2, <1>6, TransactionsOf DEF Block
    <2>1. PICK r \in kept : r.block = s.block
      <3>1. CASE s.block = last
        BY <1>7, <3>1
      <3>2. CASE s.block < last
        <4>1. PICK r \in answer : r.block = s.block
          BY <1>1, <1>7, <1>8, <1>9, <3>2
        <4>2. s.block # end
          BY <1>2, <1>7, <1>8, <2>0, <3>2
        <4> QED
          BY <1>3, <4>1, <4>2
      <3> QED
        BY <1>9, <2>0, <3>1, <3>2
    <2>2. verifyAllBlocksComplete(kept)
      BY DEF kept
    <2> QED
      BY <1>5, <2>1, <2>2, CompleteBlocks
  <1>10. kept = {s \in AllTransactions : s.block \in blocks /\ s.block <= last}
    BY <1>1, <1>3, <1>5, <1>6, <1>9
  <1> QED
    BY <1>4, <1>5, <1>8, <1>10 DEF kept, last

-----------------------------------------------------------------------------
(* The steps of the worker.                                                *)

(* The height work() goes on with is confirmed, and above the next block. *)
LEMMA ConfirmedFacts ==
  ASSUME TypeOK, IInv, pc = "work", NEW confirmed \in Confirmed,
         CaughtUp => confirmed >= FromBlock + 2
  PROVE  /\ confirmed \in Int /\ confirmed <= tip - Confirmations
         /\ FromBlock \in Block /\ FromBlock <= confirmed
         /\ FromBlock = lastExportedBlock + 1
  <1>1. lastExportedBlock \in Int /\ lastExportedBlock >= -1 /\ lastConfirmedBlock \in Int
    BY DEF TypeOK
  <1>2. lastConfirmedBlock <= tip - Confirmations
    BY DEF IInv
  <1>3. tip \in Nat /\ tip <= MaxTip /\ Confirmations \in Nat /\ MaxTip \in Nat
    BY CardanoAssumption DEF TypeOK, Block
  <1>4. confirmed \in Int /\ confirmed <= tip - Confirmations
    <2>1. CASE CaughtUp
      <3>1. PICK h \in ReportedTip : confirmed = h - Confirmations
        BY <2>1 DEF Confirmed, ConfirmedAt
      <3>2. h \in Int /\ h <= tip
        BY DEF ReportedTip, Block
      <3> QED
        BY <1>3, <3>1, <3>2
    <2>2. CASE ~CaughtUp
      BY <1>1, <1>2, <2>2 DEF Confirmed
    <2> QED
      BY <2>1, <2>2
  <1>5. FromBlock + 2 <= confirmed
    <2>1. CASE CaughtUp
      BY <1>1, <1>4, <2>1 DEF FromBlock
    <2>2. CASE ~CaughtUp
      BY <1>1, <1>4, <2>2 DEF Confirmed, CaughtUp, FromBlock
    <2> QED
      BY <2>1, <2>2
  <1> QED
    BY <1>1, <1>3, <1>4, <1>5 DEF FromBlock, Block

(* The genesis pages, read to the end, are one of the answers. *)
LEMMA GenesisIsAnAnswer ==
  ASSUME TypeOK
  PROVE  Transactions({0}) \in Answers({0})
  <1> DEFINE all == Transactions({0})
             n == transactionsCount[0]
             last == [block |-> 0, index |-> n]
  <1>0. 0 \in Block /\ n \in Nat
    BY CardanoAssumption DEF TypeOK, Block
  <1>1. CASE all = {}
    BY <1>1 DEF Answers
  <1>2. CASE all # {}
    <2>1. \A t \in all : t.block = 0 /\ t.index \in 1..n
      BY DEF Transactions
    <2>2. last \in all
      <3>1. n \in 1..n
        BY <1>0, <1>2, <2>1
      <3> QED
        BY <3>1 DEF Transactions
    <2>3. \A t \in all : ~Before(last, t)
      BY <1>0, <2>1 DEF Before
    <2>4. all = {t \in all : ~Before(last, t)}
      BY <2>3
    <2> HIDE DEF last
    <2> QED
      BY <1>2, <2>2, <2>4 DEF Answers
  <1> QED
    BY <1>1, <1>2

(* What work() hands to storeEvents: all transactions of the blocks after  *)
(* the position, up to a confirmed block.                                  *)
LEMMA BatchFacts ==
  ASSUME TypeOK, IInv, pc = "work", NEW confirmed \in Confirmed,
         CaughtUp => confirmed >= FromBlock + 2,
         NEW answer \in Answered(confirmed), answer # {}, ~SingleBlockIsPartial(answer),
         verifyAllBlocksComplete(discardNotCompletedBlock(answer))
  PROVE  LET kept == discardNotCompletedBlock(answer)
         IN /\ LastBlock(kept) \in Block
            /\ lastExportedBlock < LastBlock(kept)
            /\ LastBlock(kept) <= confirmed
            /\ kept = {t \in AllTransactions :
                         lastExportedBlock < t.block /\ t.block <= LastBlock(kept)}
  <1> DEFINE kept == discardNotCompletedBlock(answer)
             asked == Asked(confirmed)
             last == LastBlock(kept)
  <1>1. /\ confirmed \in Int /\ FromBlock \in Block /\ FromBlock <= confirmed
        /\ FromBlock = lastExportedBlock + 1
    BY ConfirmedFacts
  <1>2. lastExportedBlock \in Int /\ BlockInterval \in Nat /\ 0 \in Block
    BY CardanoAssumption DEF TypeOK, Block
  <1>3. asked \in SUBSET Block
    BY <1>2 DEF Asked
  <1>4. answer \in Answers(asked)
    BY GenesisIsAnAnswer DEF Answered, Asked
  <1>5. /\ kept \subseteq AllTransactions /\ last \in asked
        /\ kept = {t \in AllTransactions : t.block \in asked /\ t.block <= last}
    BY <1>3, <1>4, AcceptedIsComplete
  <1> HIDE DEF kept, last
  <1>6. \A b \in Block : b \in Int /\ b >= 0
    BY DEF Block
  <1>7. \A t \in AllTransactions : t.block \in Block
    BY TransactionsOf
  <1>8. last \in Block /\ lastExportedBlock < last /\ last <= confirmed
    <2>1. CASE lastExportedBlock < 0
      BY <1>1, <1>2, <1>5, <1>6, <2>1 DEF Asked
    <2>2. CASE ~(lastExportedBlock < 0)
      BY <1>1, <1>2, <1>5, <1>6, <2>2 DEF Asked
    <2> QED
      BY <2>1, <2>2
  <1>9. \A b \in Block : b <= last => (b \in asked <=> lastExportedBlock < b)
    <2>1. CASE lastExportedBlock < 0
      <3>1. asked = {0} /\ last = 0
        BY <1>5, <2>1 DEF Asked
      <3> QED
        BY <1>2, <1>6, <2>1, <3>1
    <2>2. CASE ~(lastExportedBlock < 0)
      <3>1. asked = {b \in Block : /\ FromBlock <= b /\ b <= confirmed
                                   /\ b <= FromBlock + BlockInterval - 1}
        BY <2>2 DEF Asked
      <3>2. last <= FromBlock + BlockInterval - 1
        BY <1>5, <3>1
      <3> HIDE DEF asked
      <3> QED
        BY <1>1, <1>2, <1>6, <1>8, <3>1, <3>2
    <2> QED
      BY <2>1, <2>2
  <1>10. kept = {t \in AllTransactions : lastExportedBlock < t.block /\ t.block <= last}
    <2> HIDE DEF asked
    <2> QED
      BY <1>5, <1>7, <1>9
  <1> QED
    BY <1>8, <1>10 DEF kept, last

(* Numbering a batch from lastPrimaryKey on gives every transaction its    *)
(* place in the chain, and leaves the key of the last one behind.          *)
LEMMA KeysOfBatch ==
  ASSUME TypeOK, IInv, NEW last \in Int, lastExportedBlock < last,
         NEW kept, kept = {t \in AllTransactions : lastExportedBlock < t.block /\ t.block <= last}
  PROVE  /\ \A t \in kept : lastPrimaryKey + Rank(kept, t) = KeyOf(t)
         /\ lastPrimaryKey + Cardinality(kept) = StartKey + Cardinality(UpTo(last))
         /\ Cardinality(kept) \in Nat
  <1> DEFINE before == UpTo(lastExportedBlock)
  <1>0. lastExportedBlock \in Int /\ \A t \in AllTransactions : t.block \in Int
    <2>1. \A t \in AllTransactions : t.block \in Block
      BY TransactionsOf
    <2> QED
      BY <2>1 DEF TypeOK, Block
  <1>1. before \in SUBSET AllTransactions /\ kept \in SUBSET AllTransactions
    BY DEF UpTo
  <1>2. /\ lastPrimaryKey = StartKey + Cardinality(before)
        /\ StartKey \in Int /\ Cardinality(before) \in Nat /\ Cardinality(kept) \in Nat
    BY <1>1, PartsFinite, CardanoAssumption DEF IInv
  <1>3. before \cap kept = {} /\ UpTo(last) = before \cup kept
    <2>1. before \cap kept = {}
      BY <1>0 DEF UpTo
    <2>2. UpTo(last) \subseteq before \cup kept
      BY <1>0 DEF UpTo
    <2>3. before \cup kept \subseteq UpTo(last)
      BY <1>0 DEF UpTo
    <2> QED
      BY <2>1, <2>2, <2>3
  <1>4. Cardinality(UpTo(last)) = Cardinality(before) + Cardinality(kept)
    BY <1>1, <1>3, DisjointParts
  <1>5. ASSUME NEW t \in kept PROVE lastPrimaryKey + Rank(kept, t) = KeyOf(t)
    <2> DEFINE upto == {s \in kept : ~Before(t, s)}
               all == {s \in AllTransactions : ~Before(t, s)}
    <2>1. all = before \cup upto
      BY <1>0, <1>1, <1>5 DEF Before, UpTo
    <2>2. before \cap upto = {} /\ upto \in SUBSET AllTransactions
      BY <1>1, <1>3
    <2>3. Cardinality(all) = Cardinality(before) + Cardinality(upto) /\ Cardinality(upto) \in Nat
      BY <1>1, <2>1, <2>2, DisjointParts, PartsFinite
    <2> QED
      BY <1>2, <2>3 DEF Rank, KeyOf
  <1> HIDE DEF before
  <1> QED
    BY <1>2, <1>4, <1>5

(* The chain's transactions do not change, nor does what is counted.       *)
LEMMA SameChain ==
  ASSUME UNCHANGED transactionsCount
  PROVE  /\ AllTransactions' = AllTransactions
         /\ \A b : UpTo(b)' = UpTo(b)
         /\ \A t : KeyOf(t)' = KeyOf(t)
  <1>1. AllTransactions' = AllTransactions
    BY DEF AllTransactions, Transactions, Block
  <1> QED
    BY <1>1 DEF UpTo, KeyOf

(* A step that leaves Kafka alone keeps what is known of the topic. *)
LEMMA SameTopic ==
  ASSUME TypeOK, IInv, UNCHANGED <<transactionsCount, topic>>, tip' \in Int, tip <= tip'
  PROVE  /\ \A b : Exported(b)' <=> Exported(b)
         /\ \A e \in topic' : /\ e.transaction \in AllTransactions'
                              /\ e.primaryKey = KeyOf(e.transaction)'
                              /\ e.transaction.block <= tip' - Confirmations
         /\ BlocksAreWhole'
  <1>1. /\ AllTransactions' = AllTransactions
        /\ \A b : UpTo(b)' = UpTo(b)
        /\ \A t : KeyOf(t)' = KeyOf(t)
    BY SameChain
  <1>2. \A b : Exported(b)' <=> Exported(b)
    BY <1>1 DEF Exported
  <1>3. BlocksAreWhole'
    BY <1>1 DEF IInv, BlocksAreWhole
  <1>4. ASSUME NEW e \in topic PROVE e.transaction.block <= tip' - Confirmations
    <2>1. e.transaction.block \in Int
      <3>1. e.transaction.block \in Block
        BY TransactionsOf DEF IInv
      <3> QED
        BY <3>1 DEF Block
    <2>2. tip \in Int /\ Confirmations \in Int
      BY CardanoAssumption DEF TypeOK, Block
    <2>3. e.transaction.block <= tip - Confirmations
      BY DEF IInv
    <2> QED
      BY <2>1, <2>2, <2>3
  <1> QED
    BY <1>1, <1>2, <1>3, <1>4 DEF IInv

(* A new process continues from the saved position with the saved key. *)
LEMMA FreshStep ==
  ASSUME TypeOK, IInv, Fresh, UNCHANGED <<nodeVars, topic, saved>>
  PROVE  TypeOK' /\ IInv'
  <1> USE DEF nodeVars
  <1>1. TypeOK'
    BY DEF Fresh, TypeOK
  <1>2. /\ \A b : Exported(b)' <=> Exported(b)
        /\ \A e \in topic' : /\ e.transaction \in AllTransactions'
                             /\ e.primaryKey = KeyOf(e.transaction)'
                             /\ e.transaction.block <= tip' - Confirmations
        /\ BlocksAreWhole'
    BY SameTopic DEF TypeOK, Block
  <1>3. \A b : UpTo(b)' = UpTo(b)
    BY SameChain
  <1>4. /\ pc' = "init" /\ lastExportedBlock' = saved.block /\ lastPrimaryKey' = saved.key
        /\ saved' = saved /\ saved.block \in Int
    BY DEF Fresh, TypeOK
  <1>5. saved.key = StartKey + Cardinality(UpTo(saved.block)) /\ Exported(saved.block)
    BY DEF IInv
  <1> QED
    BY <1>1, <1>2, <1>3, <1>4, <1>5 DEF IInv

(* work() without transactions: the position stays, or moves over a block  *)
(* that has none.                                                          *)
LEMMA NoEventsStep ==
  ASSUME TypeOK, IInv, pc = "work", pc' = "save", lastConfirmedBlock' \in Int,
         lastConfirmedBlock' <= tip - Confirmations,
         UNCHANGED <<nodeVars, lastPrimaryKey, topic, saved>>,
         lastExportedBlock' \in Int, lastExportedBlock <= lastExportedBlock',
         UpTo(lastExportedBlock') = UpTo(lastExportedBlock)
  PROVE  TypeOK' /\ IInv'
  <1> USE DEF nodeVars
  <1>1. TypeOK'
    BY DEF TypeOK
  <1>2. /\ \A b : Exported(b)' <=> Exported(b)
        /\ \A e \in topic' : /\ e.transaction \in AllTransactions'
                             /\ e.primaryKey = KeyOf(e.transaction)'
                             /\ e.transaction.block <= tip' - Confirmations
        /\ BlocksAreWhole'
    BY SameTopic DEF TypeOK, Block
  <1>3. \A b : UpTo(b)' = UpTo(b)
    BY SameChain
  <1>4. saved.block = lastExportedBlock /\ Exported(saved.block)
    BY DEF IInv
  <1>5. Exported(lastExportedBlock')
    BY <1>4 DEF Exported
  <1>6. Exported(saved.block)' /\ Exported(lastExportedBlock)'
    BY <1>2, <1>4, <1>5
  <1>7. /\ lastPrimaryKey' = StartKey + Cardinality(UpTo(lastExportedBlock)')
        /\ saved'.key = StartKey + Cardinality(UpTo(saved.block)')
    BY <1>3 DEF IInv
  <1>8. saved'.block <= lastExportedBlock'
    BY <1>4
  <1> QED
    BY <1>1, <1>2, <1>6, <1>7, <1>8 DEF IInv

(* Whole blocks are handed to storeEvents. *)
LEMMA ExportStep ==
  ASSUME TypeOK, IInv, pc = "work", NEW confirmed \in Confirmed,
         CaughtUp => confirmed >= FromBlock + 2,
         NEW answer \in Answered(confirmed), answer # {}, ~SingleBlockIsPartial(answer),
         verifyAllBlocksComplete(discardNotCompletedBlock(answer)),
         ExportBlocks(confirmed, answer)
  PROVE  TypeOK' /\ IInv'
  <1> USE DEF nodeVars
  <1> DEFINE kept == discardNotCompletedBlock(answer)
             last == LastBlock(kept)
  <1>1. /\ last \in Block /\ lastExportedBlock < last /\ last <= confirmed
        /\ kept = {t \in AllTransactions : lastExportedBlock < t.block /\ t.block <= last}
    BY BatchFacts
  <1>2. /\ events' = {[transaction |-> t, primaryKey |-> lastPrimaryKey + Rank(kept, t)] : t \in kept}
        /\ lastExportedBlock' = last /\ lastPrimaryKey' = lastPrimaryKey + Cardinality(kept)
        /\ lastConfirmedBlock' = confirmed /\ pc' = "store"
        /\ UNCHANGED <<nodeVars, topic, saved>>
    BY DEF ExportBlocks
  <1> HIDE DEF kept, last
  <1>3. confirmed \in Int /\ confirmed <= tip - Confirmations
    BY ConfirmedFacts
  <1>4. last \in Int /\ last >= 0 /\ tip - Confirmations \in Int /\ lastExportedBlock \in Int
    BY <1>1, CardanoAssumption DEF Block, TypeOK
  <1>5. /\ \A t \in kept : lastPrimaryKey + Rank(kept, t) = KeyOf(t)
        /\ lastPrimaryKey + Cardinality(kept) = StartKey + Cardinality(UpTo(last))
        /\ Cardinality(kept) \in Nat
    BY <1>1, <1>4, KeysOfBatch
  <1>6. TypeOK'
    BY <1>2, <1>3, <1>4, <1>5 DEF TypeOK
  <1>7. /\ \A b : Exported(b)' <=> Exported(b)
        /\ \A e \in topic' : /\ e.transaction \in AllTransactions'
                             /\ e.primaryKey = KeyOf(e.transaction)'
                             /\ e.transaction.block <= tip' - Confirmations
        /\ BlocksAreWhole'
    BY <1>2, SameTopic DEF TypeOK, Block
  <1>8. /\ AllTransactions' = AllTransactions
        /\ \A b : UpTo(b)' = UpTo(b)
        /\ \A t : KeyOf(t)' = KeyOf(t)
    BY <1>2, SameChain
  <1>9. saved.block = lastExportedBlock /\ Exported(saved.block)
    BY DEF IInv
  <1>10. Pending' = kept
    BY <1>1, <1>2, <1>8, <1>9 DEF Pending
  <1>11. events' = {[transaction |-> t, primaryKey |-> KeyOf(t)'] : t \in Pending'}
    BY <1>2, <1>5, <1>8, <1>10
  <1>12. /\ lastPrimaryKey' = StartKey + Cardinality(UpTo(lastExportedBlock)')
         /\ saved'.key = StartKey + Cardinality(UpTo(saved.block)')
    BY <1>2, <1>5, <1>8 DEF IInv
  <1>13. /\ saved'.block <= lastExportedBlock' /\ lastExportedBlock' <= tip' - Confirmations
    BY <1>1, <1>2, <1>3, <1>4, <1>9
  <1> QED
    BY <1>2, <1>3, <1>6, <1>7, <1>9, <1>11, <1>12, <1>13 DEF IInv

(* One call of work(), whatever the API answers. *)
LEMMA WorkStep ==
  ASSUME TypeOK, IInv, WorkIdle \/ WorkFetch
  PROVE  TypeOK' /\ IInv'
  <1>0. tip \in Int /\ Confirmations \in Int /\ lastExportedBlock \in Int
    BY CardanoAssumption DEF TypeOK, Block
  <1>1. CASE WorkIdle
    <2>1. PICK h \in ReportedTip : lastConfirmedBlock' = h - Confirmations
      BY <1>1 DEF WorkIdle, Confirmed, ConfirmedAt
    <2>2. lastConfirmedBlock' \in Int /\ lastConfirmedBlock' <= tip - Confirmations
      BY <1>0, <2>1 DEF ReportedTip, Block
    <2> QED
      BY <1>0, <1>1, <2>2, NoEventsStep DEF WorkIdle
  <1>2. ASSUME NEW confirmed \in Confirmed, NEW answer \in Answered(confirmed),
               WorkWith(confirmed, answer)
        PROVE  TypeOK' /\ IInv'
    <2>1. pc = "work" /\ (CaughtUp => confirmed >= FromBlock + 2)
      BY <1>2 DEF WorkWith
    <2>2. /\ confirmed \in Int /\ confirmed <= tip - Confirmations
          /\ FromBlock \in Block /\ FromBlock <= confirmed
          /\ FromBlock = lastExportedBlock + 1
      BY <2>1, ConfirmedFacts
    <2>3. CASE answer = {} /\ SkipBlock(confirmed)
      <3>1. FromBlock \in Asked(confirmed)
        <4>1. CASE lastExportedBlock < 0
          BY <1>0, <2>2, <4>1 DEF Asked, TypeOK
        <4>2. CASE ~(lastExportedBlock < 0)
          BY <1>0, <2>2, <4>2, CardanoAssumption DEF Asked, Block
        <4> QED
          BY <4>1, <4>2
      <3>2. Asked(confirmed) \in SUBSET Block
        BY CardanoAssumption DEF Asked, Block
      <3>3. Transactions(Asked(confirmed)) = {}
        <4> DEFINE all == Transactions(Asked(confirmed))
        <4>1. CASE lastExportedBlock < 0
          BY <2>3, <4>1 DEF Answered, Asked
        <4>2. CASE ~(lastExportedBlock < 0) /\ all # {}
          <5>1. {} \in Answers(Asked(confirmed))
            BY <2>3, <4>2 DEF Answered
          <5>2. PICK last \in all :
                  \/ {} = {t \in all : ~Before(last, t)}
                  \/ \E u, s : s # u /\ s \in {t \in all : ~Before(last, t)} \ {u}
                              /\ {} = {t \in all : ~Before(last, t)} \ {u}
            BY <4>2, <5>1 DEF Answers
          <5>3. last.block \in Int /\ last.index \in Int
            <6>1. last \in AllTransactions
              BY <3>2, TransactionsOf
            <6>2. last.block \in Block /\ last.index \in 1..transactionsCount[last.block]
              BY <6>1, TransactionsOf
            <6>3. transactionsCount[last.block] \in Nat
              BY <6>2 DEF TypeOK
            <6> QED
              BY <6>2, <6>3 DEF Block
          <5>4. ~Before(last, last)
            BY <5>3 DEF Before
          <5> QED
            BY <5>2, <5>4
        <4> QED
          BY <4>1, <4>2
      <3>4. \A t \in AllTransactions : t.block # FromBlock
        BY <3>1, <3>2, <3>3, TransactionsOf
      <3>5. \A t \in AllTransactions : t.block \in Int
        <4>1. \A t \in AllTransactions : t.block \in Block
          BY TransactionsOf
        <4> QED
          BY <4>1 DEF Block
      <3>6. UpTo(FromBlock) = UpTo(lastExportedBlock)
        BY <1>0, <2>2, <3>4, <3>5 DEF UpTo
      <3>7. lastExportedBlock' = FromBlock /\ FromBlock \in Int /\ lastExportedBlock <= FromBlock
        BY <1>0, <2>2, <2>3 DEF SkipBlock, Block
      <3> QED
        BY <2>1, <2>2, <2>3, <3>6, <3>7, NoEventsStep DEF SkipBlock
    <2>4. CASE Throw
      BY <2>4, FreshStep DEF Throw
    <2>5. CASE /\ answer # {} /\ ~SingleBlockIsPartial(answer)
               /\ verifyAllBlocksComplete(discardNotCompletedBlock(answer))
               /\ ExportBlocks(confirmed, answer)
      BY <2>1, <2>5, ExportStep
    <2> QED
      BY <1>2, <2>3, <2>4, <2>5 DEF WorkWith
  <1> QED
    BY <1>1, <1>2 DEF WorkFetch

(* Kafka commits the batch: the topic gains whole confirmed blocks, and is *)
(* complete up to the worker's position.                                   *)
LEMMA StoreStep ==
  ASSUME TypeOK, IInv, Store
  PROVE  TypeOK' /\ IInv'
  <1> USE DEF nodeVars, workerVars
  <1>1. /\ pc = "store" /\ pc' = "save" /\ topic' = topic \cup events
        /\ UNCHANGED <<nodeVars, workerVars, saved>>
    BY DEF Store
  <1>2. /\ AllTransactions' = AllTransactions
        /\ \A b : UpTo(b)' = UpTo(b)
        /\ \A t : KeyOf(t)' = KeyOf(t)
    BY <1>1, SameChain
  <1>3. /\ events = {[transaction |-> t, primaryKey |-> KeyOf(t)] : t \in Pending}
        /\ lastExportedBlock <= tip - Confirmations
        /\ lastConfirmedBlock <= tip - Confirmations
        /\ saved.block <= lastExportedBlock
    BY <1>1 DEF IInv
  <1>4. /\ \A t \in Pending : \E e \in events : e.transaction = t
        /\ \A e \in events : e.transaction \in Pending /\ e.primaryKey = KeyOf(e.transaction)
    <2>1. ASSUME NEW t \in Pending PROVE \E e \in events : e.transaction = t
      <3>1. [transaction |-> t, primaryKey |-> KeyOf(t)] \in events
        BY <1>3
      <3> QED
        BY <3>1
    <2>2. ASSUME NEW e \in events
          PROVE  e.transaction \in Pending /\ e.primaryKey = KeyOf(e.transaction)
      <3>1. PICK t \in Pending : e = [transaction |-> t, primaryKey |-> KeyOf(t)]
        BY <1>3
      <3>2. e.transaction = t
        BY <3>1
      <3> QED
        BY <3>1, <3>2
    <2> QED
      BY <2>1, <2>2
  <1>5. \A t \in AllTransactions : t.block \in Int
    <2>1. \A t \in AllTransactions : t.block \in Block
      BY TransactionsOf
    <2> QED
      BY <2>1 DEF Block
  <1>6. saved.block \in Int /\ lastExportedBlock \in Int /\ tip - Confirmations \in Int
    BY CardanoAssumption DEF TypeOK, Block
  <1>7. TypeOK'
    BY <1>1 DEF TypeOK
  <1>8. Exported(saved.block)'
    BY <1>1, <1>2 DEF IInv, Exported
  <1>9. Exported(lastExportedBlock)'
    <2> SUFFICES ASSUME NEW t \in UpTo(lastExportedBlock)
                 PROVE  \E e \in topic' : e.transaction = t
      BY <1>1, <1>2 DEF Exported
    <2>1. CASE t.block <= saved.block
      BY <1>1, <2>1 DEF IInv, Exported, UpTo
    <2>2. CASE saved.block < t.block
      <3>1. t \in Pending
        BY <2>2 DEF Pending, UpTo
      <3> QED
        BY <1>1, <1>4, <3>1
    <2> QED
      BY <1>5, <1>6, <2>1, <2>2 DEF UpTo
  <1>10. \A e \in topic' : /\ e.transaction \in AllTransactions'
                           /\ e.primaryKey = KeyOf(e.transaction)'
                           /\ e.transaction.block <= tip' - Confirmations
    <2> SUFFICES ASSUME NEW e \in topic'
                 PROVE  /\ e.transaction \in AllTransactions
                        /\ e.primaryKey = KeyOf(e.transaction)
                        /\ e.transaction.block <= tip - Confirmations
      BY <1>1, <1>2
    <2>1. CASE e \in topic
      BY <2>1 DEF IInv
    <2>2. CASE e \in events
      <3>1. e.transaction \in AllTransactions /\ e.transaction.block <= lastExportedBlock
        BY <1>4, <2>2 DEF Pending
      <3>2. e.transaction.block <= tip - Confirmations
        BY <1>3, <1>5, <1>6, <3>1
      <3> QED
        BY <1>4, <2>2, <3>1, <3>2
    <2> QED
      BY <1>1, <2>1, <2>2
  <1>11. BlocksAreWhole'
    <2> SUFFICES ASSUME NEW e \in topic', NEW t \in AllTransactions,
                        t.block = e.transaction.block
                 PROVE  \E f \in topic' : f.transaction = t
      BY <1>2 DEF BlocksAreWhole
    <2>1. CASE e \in topic
      BY <1>1, <2>1 DEF IInv, BlocksAreWhole
    <2>2. CASE e \in events
      <3>1. t \in Pending
        BY <1>4, <2>2 DEF Pending
      <3> QED
        BY <1>1, <1>4, <3>1
    <2> QED
      BY <1>1, <2>1, <2>2
  <1>12. /\ lastPrimaryKey' = StartKey + Cardinality(UpTo(lastExportedBlock)')
         /\ saved'.key = StartKey + Cardinality(UpTo(saved.block)')
    BY <1>1, <1>2 DEF IInv
  <1> QED
    BY <1>1, <1>3, <1>7, <1>8, <1>9, <1>10, <1>11, <1>12 DEF IInv

(* Types and invariant are inductive together. *)
LEMMA InvInductive == TypeOK /\ IInv /\ [Next]_vars => TypeOK' /\ IInv'
  <1> SUFFICES ASSUME TypeOK, IInv, [Next]_vars PROVE TypeOK' /\ IInv'
    OBVIOUS
  <1> USE DEF nodeVars, workerVars
  <1>0. tip \in Int /\ Confirmations \in Int
    BY CardanoAssumption DEF TypeOK, Block
  <1>1. ASSUME UNCHANGED <<transactionsCount, lastExportedBlock, lastPrimaryKey, topic>>,
               tip' \in Int, tip <= tip'
        PROVE  /\ \A b : Exported(b)' <=> Exported(b)
               /\ \A b : UpTo(b)' = UpTo(b)
               /\ Pending' = {t \in AllTransactions : saved'.block < t.block /\ t.block <= lastExportedBlock}
               /\ \A t : KeyOf(t)' = KeyOf(t)
               /\ \A e \in topic' : /\ e.transaction \in AllTransactions'
                                    /\ e.primaryKey = KeyOf(e.transaction)'
                                    /\ e.transaction.block <= tip' - Confirmations
               /\ BlocksAreWhole'
    BY <1>1, SameTopic, SameChain DEF Pending
  <1>2. CASE InitWorker
    <2>1. PICK h \in ReportedTip : lastConfirmedBlock' = h - Confirmations
      BY <1>2 DEF InitWorker, ConfirmedAt
    <2>2. lastConfirmedBlock' \in Int /\ lastConfirmedBlock' <= tip - Confirmations
      BY <1>0, <2>1 DEF ReportedTip, Block
    <2>3. TypeOK'
      BY <1>2, <2>2 DEF InitWorker, TypeOK
    <2> QED
      BY <1>0, <1>1, <1>2, <2>2, <2>3 DEF InitWorker, IInv
  <1>3. CASE Save
    <2>1. /\ pc = "save" /\ pc' = "work" /\ saved'.block = lastExportedBlock
          /\ saved'.key = lastPrimaryKey /\ UNCHANGED <<nodeVars, workerVars, topic>>
      BY <1>3 DEF Save
    <2>2. TypeOK'
      BY <2>1 DEF TypeOK
    <2>3. lastExportedBlock \in Int
      BY DEF TypeOK
    <2> QED
      BY <1>0, <1>1, <2>1, <2>2, <2>3 DEF IInv
  <1>4. CASE GrowChain
    <2>1. TypeOK' /\ tip' = tip + 1
      BY <1>4, CardanoAssumption DEF GrowChain, TypeOK, Block
    <2>2. /\ lastConfirmedBlock <= tip - Confirmations =>
               lastConfirmedBlock <= tip' - Confirmations
          /\ lastExportedBlock <= tip - Confirmations =>
               lastExportedBlock <= tip' - Confirmations
      BY <1>0, <2>1 DEF TypeOK
    <2>3. /\ \A b : Exported(b)' <=> Exported(b)
          /\ \A b : UpTo(b)' = UpTo(b)
          /\ Pending' = Pending
          /\ \A t : KeyOf(t)' = KeyOf(t)
          /\ \A e \in topic' : /\ e.transaction \in AllTransactions'
                               /\ e.primaryKey = KeyOf(e.transaction)'
                               /\ e.transaction.block <= tip' - Confirmations
          /\ BlocksAreWhole'
      BY <1>0, <1>1, <1>4, <2>1 DEF GrowChain, Pending
    <2>4. UNCHANGED <<pc, lastConfirmedBlock, lastExportedBlock, lastPrimaryKey, events, saved>>
      BY <1>4 DEF GrowChain
    <2> QED
      BY <2>1, <2>2, <2>3, <2>4 DEF IInv
  <1>5. CASE Crash
    BY <1>5, FreshStep DEF Crash
  <1>6. CASE WorkIdle \/ WorkFetch
    BY <1>6, WorkStep
  <1>7. CASE Store
    BY <1>7, StoreStep
  <1>8. CASE UNCHANGED vars
    <2>1. UNCHANGED <<tip, transactionsCount, pc, lastConfirmedBlock, lastExportedBlock,
                      lastPrimaryKey, events, topic, saved>>
      BY <1>8 DEF vars
    <2>2. TypeOK'
      BY <2>1 DEF TypeOK
    <2> QED
      BY <1>0, <1>1, <2>1, <2>2 DEF IInv, Pending
  <1> QED
    BY <1>2, <1>3, <1>4, <1>5, <1>6, <1>7, <1>8 DEF Next, Step

(* A first start, with an empty topic, satisfies them. *)
LEMMA InvInitially == Init => TypeOK /\ IInv
  <1> SUFFICES ASSUME Init PROVE TypeOK /\ IInv
    OBVIOUS
  <1>1. transactionsCount \in [Block -> Nat]
    BY CardanoAssumption DEF Init
  <1>2. TypeOK
    BY <1>1, CardanoAssumption DEF Init, TypeOK, Block
  <1>3. \A t \in AllTransactions : t.block >= 0 /\ t.block \in Int
    <2>1. \A t \in AllTransactions : t.block \in Block
      BY TransactionsOf
    <2> QED
      BY <2>1 DEF Block
  <1>4. UpTo(-1) = {}
    BY <1>3 DEF UpTo
  <1>5. Cardinality(UpTo(-1)) = 0
    BY <1>4, FS_EmptySet
  <1> QED
    BY <1>2, <1>4, <1>5, CardanoAssumption DEF Init, IInv, Exported, BlocksAreWhole

(* So they hold in every reachable state. *)
LEMMA InvAlways == Spec => [](TypeOK /\ IInv)
  BY InvInductive, InvInitially, PTL DEF Spec

-----------------------------------------------------------------------------
(* Stable keys: whatever the API cuts off or leaves out, and however often *)
(* the worker crashes between numbering, storing and saving, a transaction *)
(* always gets the key that is its place in the chain.                     *)
THEOREM StableKeys == Spec => []KeysAreRanks
  <1>1. IInv => KeysAreRanks
    BY DEF IInv, KeysAreRanks, KeyOf
  <1> QED
    BY <1>1, InvAlways, PTL

(* No loss: the saved block and key claim exactly what is in the topic. *)
THEOREM NoLoss == Spec => []SavedIsExported
  <1>1. IInv => SavedIsExported
    BY DEF IInv, SavedIsExported, Exported, UpTo
  <1> QED
    BY <1>1, InvAlways, PTL

(* Whole blocks: discarding the last block and verifying the others is     *)
(* enough for readers never to see a part of a block.                      *)
THEOREM WholeBlocks == Spec => []BlocksAreWhole
  <1>1. IInv => BlocksAreWhole
    BY DEF IInv
  <1> QED
    BY <1>1, InvAlways, PTL

(* Confirmed: nothing above the confirmed height is exported, although the *)
(* height is cached and the API may lag.                                   *)
THEOREM ConfirmedOnly == Spec => []OnlyConfirmed
  <1>1. IInv => OnlyConfirmed
    BY DEF IInv, OnlyConfirmed
  <1> QED
    BY <1>1, InvAlways, PTL

=============================================================================
