---------------------------- MODULE BeaconProofs ----------------------------
(***************************************************************************)
(* Proofs about the beacon chain worker, for every number of validators,   *)
(* every calendar (genesis time, slot, epoch and day lengths), every       *)
(* start, batch size, course of the balances and number of crashes.        *)
(***************************************************************************)
EXTENDS Beacon, FiniteSetTheorems, SequenceTheorems, TLAPS

-----------------------------------------------------------------------------
(* The calendar.                                                           *)

(* What the integer quotient and remainder are. *)
LEMMA Quotient ==
  ASSUME NEW x \in Int, NEW b \in Nat \ {0}
  PROVE  /\ x \div b \in Int /\ (x \div b) * b \in Int
         /\ (x \div b) * b <= x /\ x < (x \div b) * b + b
  OBVIOUS

(* A quotient is known by the bounds of its remainder. *)
LEMMA QuotientIs ==
  ASSUME NEW x \in Int, NEW b \in Nat \ {0}, NEW q \in Int, q * b <= x, x < q * b + b
  PROVE  x \div b = q
  OBVIOUS

(* Division keeps the order. *)
LEMMA QuotientMonotone ==
  ASSUME NEW x \in Int, NEW y \in Int, NEW b \in Nat \ {0}, x <= y
  PROVE  x \div b <= y \div b
  OBVIOUS

(* The integer division with its remainder. *)
LEMMA Division ==
  ASSUME NEW x \in Int, NEW b \in Nat \ {0}
  PROVE  x = b * (x \div b) + (x % b) /\ x % b \in 0..(b - 1)
  OBVIOUS

(* What is left without the remainder is a multiple. *)
LEMMA MultipleBelow ==
  ASSUME NEW x \in Int, NEW b \in Nat \ {0}
  PROVE  (x - (x % b)) % b = 0
  <1> DEFINE q == x \div b
             y == b * q
  <1>1. q \in Int /\ y \in Int /\ x - (x % b) = y /\ y = q * b /\ y = b * q
    <2>1. q \in Int /\ x % b \in Int
      BY Division
    <2>2. x = b * q + (x % b)
      BY Division
    <2> HIDE DEF q
    <2> QED
      BY <2>1, <2>2
  <1> HIDE DEF q, y
  <1>2. y \div b = q
    BY <1>1, QuotientIs
  <1>3. y = b * (y \div b) + (y % b) /\ y % b \in Int
    <2>1. y \in Int
      BY <1>1
    <2>2. y = b * (y \div b) + (y % b) /\ y % b \in 0..(b - 1)
      BY <2>1, Division
    <2> QED
      BY <2>2
  <1>4. y = y + (y % b)
    BY <1>1, <1>2, <1>3
  <1> QED
    BY <1>1, <1>3, <1>4

(* Multiplication keeps the order. *)
LEMMA ProductMonotone ==
  ASSUME NEW x \in Int, NEW y \in Int, NEW b \in Nat, x <= y
  PROVE  x * b \in Int /\ y * b \in Int /\ x * b <= y * b
  OBVIOUS

(* Two multiples that differ lie at least one step apart. *)
LEMMA MultiplesApart ==
  ASSUME NEW x \in Int, NEW y \in Int, NEW b \in Nat \ {0}, x % b = 0, y % b = 0, x < y
  PROVE  x + b <= y
  <1> DEFINE p == x \div b
             q == y \div b
  <1>1. p \in Int /\ q \in Int /\ x = p * b /\ y = q * b
    <2>1. p \in Int /\ q \in Int
      OBVIOUS
    <2>2. x = b * p /\ y = b * q
      BY Division
    <2> HIDE DEF p, q
    <2> QED
      BY <2>1, <2>2
  <1> HIDE DEF p, q
  <1>2. p < q
    <2>1. q <= p => q * b <= p * b
      BY <1>1
    <2> QED
      BY <1>1, <2>1
  <1>3. (p + 1) * b <= q * b /\ (p + 1) * b = p * b + b
    BY <1>1, <1>2, ProductMonotone, p + 1 <= q
  <1> QED
    BY <1>1, <1>3

(* Later slots lie on the same or a later day. *)
LEMMA DayFacts ==
  ASSUME NEW s \in Int, NEW t \in Int, s <= t
  PROVE  DayOf(s) \in Int /\ DayOf(t) \in Int /\ DayOf(s) <= DayOf(t)
  <1>1. s * SecondsPerSlot <= t * SecondsPerSlot
        /\ s * SecondsPerSlot \in Int /\ t * SecondsPerSlot \in Int
    BY BeaconAssumption
  <1>2. slotToTimestamp(s) \in Int /\ slotToTimestamp(t) \in Int
        /\ slotToTimestamp(s) <= slotToTimestamp(t)
    BY <1>1, BeaconAssumption DEF slotToTimestamp
  <1> QED
    BY <1>2, BeaconAssumption, QuotientMonotone DEF DayOf

(* Of two daily slots the later one is of a later day. *)
LEMMA OneSlotPerDay ==
  ASSUME NEW s \in DailySlot, NEW t \in Int, t % SlotsPerEpoch = 0, s < t
  PROVE  DayOf(s) < DayOf(t)
  <1>1. s \in Int /\ s % SlotsPerEpoch = 0 /\ DayOf(s) # DayOf(s + SlotsPerEpoch)
        /\ SlotsPerEpoch \in Nat \ {0}
    BY BeaconAssumption DEF DailySlot
  <1>2. s + SlotsPerEpoch <= t
    BY <1>1, MultiplesApart
  <1>3. DayOf(s + SlotsPerEpoch) <= DayOf(t) /\ DayOf(s) <= DayOf(s + SlotsPerEpoch)
        /\ DayOf(s) \in Int /\ DayOf(t) \in Int /\ DayOf(s + SlotsPerEpoch) \in Int
    BY <1>1, <1>2, DayFacts, s + SlotsPerEpoch \in Int, s <= s + SlotsPerEpoch
  <1> QED
    BY <1>1, <1>3

(* The slot getLastUtcDaySlot computes lies on that day, and the next epoch *)
(* does not.                                                                *)
LEMMA LastSlotOfDay ==
  ASSUME NEW d \in Int, d >= DayOf(0), NEW s, s = getLastUtcDaySlot(d)
  PROVE  /\ s \in Nat /\ s % SlotsPerEpoch = 0
         /\ DayOf(s) = d /\ DayOf(s + SlotsPerEpoch) > d
  <1> DEFINE P == SecondsPerSlot
             D == SecondsPerDay
             E == SlotsPerEpoch
             G == GenesisTime
             x == d * D + D - 1 - G
             q == x \div P
  <1>1. P \in Nat \ {0} /\ D \in Nat \ {0} /\ E \in Nat \ {0} /\ G \in Nat
    BY BeaconAssumption
  <1>2. E * P \in Nat /\ E * P <= D
    BY <1>1, CalendarAssumption
  <1>3. d * D \in Int /\ x \in Int /\ x = d * D + D - 1 - G
    BY <1>1
  <1>4. DayOf(0) \in Int /\ DayOf(0) * D \in Int /\ G < DayOf(0) * D + D
    <2>1. slotToTimestamp(0) = G
      BY <1>1 DEF slotToTimestamp
    <2> QED
      BY <2>1, <1>1, Quotient DEF DayOf
  <1>5. x >= 0
    <2>1. DayOf(0) * D <= d * D
      BY <1>1, <1>4
    <2> QED
      BY <2>1, <1>1, <1>3, <1>4
  <1> HIDE DEF x
  <1>6. q \in Int /\ q * P \in Int /\ q * P <= x /\ x < q * P + P
    BY <1>1, <1>3, Quotient
  <1>7. q >= 0
    BY <1>1, <1>3, <1>5
  <1>8. s = q - (q % E)
    BY DEF getLastUtcDaySlot, x
  <1> HIDE DEF q
  <1>9. q % E \in 0..(E - 1) /\ (q - (q % E)) % E = 0
    BY <1>1, <1>6, Division, MultipleBelow
  <1>10. q % E <= q
    <2>1. q \div E \in Nat
      BY <1>1, <1>6, <1>7
    <2>2. q = E * (q \div E) + (q % E)
      BY <1>1, <1>6, Division
    <2>3. E * (q \div E) \in Nat
      BY <2>1, <1>1
    <2> QED
      BY <2>2, <2>3, <1>6, <1>9
  <1>11. s \in Nat /\ s <= q /\ q + 1 <= s + E /\ s % E = 0
    BY <1>1, <1>6, <1>7, <1>8, <1>9, <1>10
  <1>12. s * P \in Nat /\ s * P <= q * P
    BY <1>1, <1>6, <1>11
  <1>13. (s + E) * P = s * P + E * P /\ (q + 1) * P = q * P + P
         /\ (q + 1) * P <= (s + E) * P
    <2>1. s + E \in Int /\ q + 1 \in Int
      BY <1>1, <1>6, <1>11
    <2>2. (q + 1) * P <= (s + E) * P
      BY <2>1, <1>1, <1>11, ProductMonotone
    <2>3. (s + E) * P = s * P + E * P
      BY <1>1, <1>11
    <2>4. (q + 1) * P = q * P + P
      BY <1>1, <1>6
    <2> QED
      BY <2>2, <2>3, <2>4
  <1>14. /\ slotToTimestamp(s) \in Int /\ slotToTimestamp(s + E) \in Int
         /\ slotToTimestamp(s) = G + s * P
         /\ slotToTimestamp(s + E) = G + s * P + E * P
    BY <1>1, <1>2, <1>11, <1>12, <1>13 DEF slotToTimestamp
  <1>15. slotToTimestamp(s) <= d * D + D - 1
    BY <1>1, <1>3, <1>6, <1>12, <1>14
  <1>16. slotToTimestamp(s + E) >= d * D + D
    BY <1>1, <1>2, <1>3, <1>6, <1>12, <1>13, <1>14
  <1>17. slotToTimestamp(s) >= d * D
    BY <1>1, <1>2, <1>3, <1>12, <1>14, <1>16
  <1>18. DayOf(s) = d
    <2> DEFINE now == slotToTimestamp(s)
    <2>1. now \in Int /\ d * D <= now /\ now < d * D + D
      BY <1>1, <1>3, <1>14, <1>15, <1>17
    <2> HIDE DEF now
    <2>2. now \div D = d
      BY <1>1, <2>1, QuotientIs
    <2> QED
      BY <2>2 DEF DayOf, now
  <1>19. DayOf(s + E) >= d + 1
    <2>1. (d + 1) * D = d * D + D /\ ((d + 1) * D) \div D = d + 1
      BY <1>1
    <2> DEFINE now == slotToTimestamp(s + E)
    <2>2. now \in Int /\ (d + 1) * D \in Int /\ (d + 1) * D <= now
      BY <2>1, <1>1, <1>3, <1>14, <1>16
    <2> HIDE DEF now
    <2>3. ((d + 1) * D) \div D <= now \div D
      BY <2>2, <1>1, QuotientMonotone
    <2> QED
      BY <2>1, <2>3 DEF DayOf, now
  <1>20. DayOf(s + E) \in Int
    BY <1>1, <1>14, Quotient DEF DayOf
  <1> QED
    BY <1>11, <1>18, <1>19, <1>20

-----------------------------------------------------------------------------
(* Days and positions.                                                     *)

(* Where the worker may stand. *)
Position == {StartSlot} \cup ToExport

(* c is the first day to export after position p. *)
Follows(p, c) ==
  /\ c \in ToExport /\ c > p
  /\ ~ \E s \in ToExport : p < s /\ s < c

(* The balance that is known at a position. *)
KnownBalance(p, v) == IF p > 0 THEN balanceAt[p][v] ELSE 0

(* The slots to export lie after the start, and a position is one of them or the start. *)
LEMMA ToExportFacts ==
  /\ ToExport \subseteq DailySlot /\ ToExport \subseteq AskedSlot
  /\ \A s \in ToExport : /\ s \in Nat /\ s > 0 /\ s > StartSlot /\ s <= MaxSlot
                         /\ s % SlotsPerEpoch = 0
  /\ StartSlot \notin ToExport
  /\ \A p \in Position : p \in Int /\ (p > 0 => p \in AskedSlot)
  <1>1. ToExport \subseteq DailySlot /\ ToExport \subseteq AskedSlot
    BY DEF ToExport, AskedSlot
  <1>2. \A s \in DailySlot : s \in Nat /\ s > 0 /\ s <= MaxSlot /\ s % SlotsPerEpoch = 0
    BY CalendarAssumption, BeaconAssumption DEF DailySlot
  <1>3. StartSlot \in Int /\ StartSlot >= -1
    BY BeaconAssumption
  <1>4. \A s \in ToExport : s > StartSlot
    <2> SUFFICES ASSUME NEW s \in ToExport, s <= StartSlot PROVE FALSE
      BY <1>1, <1>2, <1>3
    <2>1. s \in Nat /\ s > 0 /\ StartSlot # 0
      BY <1>1, <1>2, <1>3
    <2>2. DayOf(s) >= DayOf(StartSlot) + 1
      BY <2>1 DEF ToExport
    <2>3. DayOf(s) \in Int /\ DayOf(StartSlot) \in Int /\ DayOf(s) <= DayOf(StartSlot)
      BY <2>1, <1>3, DayFacts
    <2> QED
      BY <2>2, <2>3
  <1>5. StartSlot \notin ToExport
    BY <1>3, <1>4
  <1> QED
    BY <1>1, <1>2, <1>3, <1>4, <1>5 DEF Position, AskedSlot

(* The day the worker turns to is the first one after its position: none   *)
(* is skipped and none taken twice.                                        *)
LEMMA NextDay ==
  ASSUME lastExportedBlock \in Position,
         NEW c, c = getLastUtcDaySlot(nextDayIndex),
         head \in Int, head <= MaxSlot, c <= head
  PROVE  Follows(lastExportedBlock, c)
  <1> DEFINE p == lastExportedBlock
             d == nextDayIndex
             first == IF StartSlot = 0 THEN DayOf(0) ELSE DayOf(StartSlot) + 1
  <1>1. p \in Int /\ p >= -1 /\ StartSlot \in Int /\ StartSlot >= -1
    BY ToExportFacts, BeaconAssumption DEF Position
  <1>2. d = IF p = 0 THEN DayOf(0) ELSE DayOf(p) + 1
    <2>1. slotToTimestamp(0) = GenesisTime
      BY BeaconAssumption DEF slotToTimestamp
    <2> QED
      BY <2>1 DEF nextDayIndex, DayOf
  <1>3. DayOf(p) \in Int /\ DayOf(0) \in Int /\ DayOf(StartSlot) \in Int
    BY <1>1, DayFacts
  <1>4. d \in Int /\ d >= DayOf(0)
    <2>1. CASE p >= 0
      <3>1. DayOf(0) <= DayOf(p)
        BY <1>1, <2>1, DayFacts
      <3> QED
        BY <3>1, <1>2, <1>3
    <2>2. CASE p = -1
      <3>1. /\ SecondsPerSlot \in Nat \ {0} /\ SecondsPerDay \in Nat \ {0}
            /\ SlotsPerEpoch \in Nat \ {0} /\ GenesisTime \in Nat
        BY BeaconAssumption
      <3>2. SecondsPerSlot <= SecondsPerDay
        <4>1. 1 * SecondsPerSlot <= SlotsPerEpoch * SecondsPerSlot
          BY <3>1, ProductMonotone
        <4> QED
          BY <4>1, <3>1, CalendarAssumption
      <3>3. /\ slotToTimestamp(p) = GenesisTime - SecondsPerSlot
            /\ slotToTimestamp(0) = GenesisTime
        BY <2>2, <3>1 DEF slotToTimestamp
      <3> DEFINE before == GenesisTime - SecondsPerSlot
                 day == before \div SecondsPerDay
      <3>4. before \in Int /\ GenesisTime <= before + SecondsPerDay
        BY <3>1, <3>2
      <3>5. day \in Int /\ day * SecondsPerDay \in Int /\ before < day * SecondsPerDay + SecondsPerDay
        BY <3>1, <3>4, Quotient
      <3>6. day = DayOf(p)
        BY <3>3 DEF DayOf
      <3> HIDE DEF before, day
      <3>7. (day + 1) * SecondsPerDay = day * SecondsPerDay + SecondsPerDay
        BY <3>1, <3>5
      <3> DEFINE genesisDay == GenesisTime \div SecondsPerDay
      <3>8. genesisDay \in Int /\ genesisDay * SecondsPerDay \in Int
            /\ genesisDay * SecondsPerDay <= GenesisTime
        BY <3>1, Quotient
      <3>9. genesisDay = DayOf(0)
        BY <3>3 DEF DayOf
      <3> HIDE DEF genesisDay
      <3>10. genesisDay <= day + 1
        <4> SUFFICES ASSUME genesisDay >= day + 2 PROVE FALSE
          BY <3>5, <3>8
        <4>1. (day + 2) * SecondsPerDay <= genesisDay * SecondsPerDay
          BY <3>1, <3>5, <3>8, ProductMonotone, day + 2 \in Int
        <4>2. (day + 2) * SecondsPerDay = day * SecondsPerDay + SecondsPerDay + SecondsPerDay
          BY <3>1, <3>5
        <4> QED
          BY <4>1, <4>2, <3>1, <3>4, <3>5, <3>8
      <3> QED
        BY <2>2, <3>6, <3>9, <3>10, <1>2, <1>3
    <2> QED
      BY <1>1, <2>1, <2>2
  <1> HIDE DEF d
  <1>5. /\ c \in Nat /\ c % SlotsPerEpoch = 0
        /\ DayOf(c) = d /\ DayOf(c + SlotsPerEpoch) > d
    BY <1>4, LastSlotOfDay DEF d
  <1>6. c \in DailySlot
    <2>1. DayOf(c) # DayOf(c + SlotsPerEpoch)
      BY <1>4, <1>5
    <2> QED
      BY <2>1, <1>5, BeaconAssumption DEF DailySlot
  <1>7. \A s \in ToExport : DayOf(s) \in Int /\ DayOf(s) >= first
    BY ToExportFacts, DayFacts DEF ToExport
  <1>8. p = StartSlot => d = first
    BY <1>2
  <1>9. p \in ToExport => d = DayOf(p) + 1
    BY <1>2, ToExportFacts
  <1>10. c \in ToExport
    <2>1. d >= first
      BY <1>3, <1>7, <1>8, <1>9 DEF Position
    <2> QED
      BY <2>1, <1>5, <1>6 DEF ToExport
  <1>11. c > p
    <2>1. CASE p \in ToExport
      <3> SUFFICES ASSUME c <= p PROVE FALSE
        BY <1>1, <1>5
      <3>1. DayOf(c) <= DayOf(p)
        BY <1>1, <1>5, DayFacts
      <3> QED
        BY <3>1, <2>1, <1>3, <1>5, <1>9
    <2>2. CASE p = StartSlot
      BY <2>2, <1>10, ToExportFacts
    <2> QED
      BY <2>1, <2>2 DEF Position
  <1>12. ASSUME NEW s \in ToExport, p < s, s < c
         PROVE  FALSE
    <2>1. s \in DailySlot /\ s \in Int /\ s % SlotsPerEpoch = 0
      BY ToExportFacts
    <2>2. DayOf(s) < d
      BY <1>5, <1>12, <2>1, OneSlotPerDay
    <2>3. CASE p \in ToExport
      <3>1. DayOf(p) < DayOf(s)
        BY <1>12, <2>1, <2>3, ToExportFacts, OneSlotPerDay
      <3> QED
        BY <3>1, <2>2, <2>3, <1>3, <1>7, <1>9
    <2>4. CASE p = StartSlot
      BY <2>2, <2>4, <1>7, <1>8, <1>4
    <2> QED
      BY <2>3, <2>4 DEF Position
  <1> QED
    BY <1>10, <1>11, <1>12 DEF Follows

(* The day before a day is the position it follows. *)
LEMMA BeforeIsKnown ==
  ASSUME NEW p \in Position, NEW c, Follows(p, c), NEW v
  PROVE  BalanceBefore(c, v) = KnownBalance(p, v)
  <1>1. p \in Int /\ c \in Int
    BY ToExportFacts DEF Follows
  <1>2. CASE p \in ToExport
    <2>1. p \in Previous(c) /\ p > 0
      BY <1>2, ToExportFacts DEF Previous, Follows
    <2>2. \A t \in Previous(c) : t \in Int /\ p >= t
      BY <1>1, ToExportFacts DEF Previous, Follows
    <2>3. \A s \in Previous(c) : (\A t \in Previous(c) : s >= t) => s = p
      BY <1>1, <2>1, <2>2
    <2>4. Max(Previous(c)) = p
      BY <2>1, <2>2, <2>3 DEF Max
    <2> QED
      BY <2>1, <2>4 DEF BalanceBefore, KnownBalance
  <1>3. CASE p = StartSlot
    <2>1. Previous(c) = {}
      BY <1>3, ToExportFacts DEF Previous, Follows
    <2> QED
      BY <2>1, <1>3 DEF BalanceBefore, KnownBalance
  <1> QED
    BY <1>2, <1>3 DEF Position

-----------------------------------------------------------------------------
(* The invariant.                                                          *)

(* The validators whose balance differs from the day before. *)
ChangedOn(slot) == {v \in Validator : balanceAt[slot][v] # BalanceBefore(slot, v)}

(* The changes of all days up to a position. *)
ChangesUpTo(p) == {c \in ToExport \X Validator : c[1] <= p /\ c[2] \in ChangedOn(c[1])}

(* The records that chain, as RecordsChain says. *)
Record ==
  {r \in [slot : ToExport, validator : Validator, balance : 0..MaxBalance,
          oldBalance : 0..MaxBalance, oldSlot : AskedSlot \cup {Null}] :
     /\ r.balance = balanceAt[r.slot][r.validator]
     /\ r.oldBalance = BalanceBefore(r.slot, r.validator)
     /\ r.balance # r.oldBalance
     /\ r.oldSlot # Null => r.oldSlot < r.slot /\ balanceAt[r.oldSlot][r.validator] = r.oldBalance}

(* The worker's state holds the balances of position p, each with a slot at *)
(* which it was true.                                                       *)
Knows(state, p) ==
  \A v \in Validator :
    /\ OldBalance(state, v) = KnownBalance(p, v)
    /\ state[v] # Null => /\ state[v].slot \in AskedSlot /\ state[v].slot <= p
                          /\ balanceAt[state[v].slot][v] = state[v].balance

(* A batch holds the record of v for a day. *)
Holds(batch, slot, v) == \E n \in 1..Len(batch) : batch[n].slot = slot /\ batch[n].validator = v

(* The record of v for a day is in Kafka, or about to be. *)
Underway(slot, v) == Exported(slot, v) \/ (pc = "store" /\ Holds(events, slot, v))

(* A value of lastState. *)
States == [Validator -> {Null} \cup [balance : 0..MaxBalance, slot : AskedSlot]]

TypeOK ==
  /\ head \in Int /\ head <= MaxSlot
  /\ balanceAt \in [AskedSlot -> [Validator -> 0..MaxBalance]]
  /\ pc \in {"work", "store", "save"}
  /\ lastExportedBlock \in Position /\ lastPrimaryKey \in Int
  /\ lastState \in States
  /\ balancesPreloaded \in BOOLEAN
  /\ currentDailySlot \in ToExport \cup {Null}
  /\ pendingBatches \in Seq(Seq(Record))
  /\ processingDailySlot \in ToExport \cup {Null} /\ processingChangesCount \in Int
  /\ events \in Seq(Record)
  /\ topic \subseteq Record
  /\ saved.block \in Position /\ saved.key \in Int

(* Between two days the worker knows its position's balances; in a day it   *)
(* knows that day's, and every change of the day is in Kafka, in hand or    *)
(* pending.                                                                 *)
DayInv ==
  /\ processingDailySlot = currentDailySlot
  /\ currentDailySlot = Null =>
       /\ pendingBatches = <<>>
       /\ IF balancesPreloaded THEN Knows(lastState, lastExportedBlock) ELSE lastState = NoState
  /\ currentDailySlot # Null =>
       /\ Follows(lastExportedBlock, currentDailySlot) /\ currentDailySlot <= head
       /\ balancesPreloaded
       /\ Knows(lastState, currentDailySlot)
       /\ \A v \in ChangedOn(currentDailySlot) :
            \/ Underway(currentDailySlot, v)
            \/ \E n \in 1..Len(pendingBatches) : Holds(pendingBatches[n], currentDailySlot, v)
       /\ pendingBatches # <<>> => processingChangesCount = Cardinality(ChangedOn(currentDailySlot))

(* A position stands for complete days, and its key for their changes. *)
PositionInv ==
  /\ \A c \in ChangesUpTo(lastExportedBlock) : Underway(c[1], c[2])
  /\ \A c \in ChangesUpTo(saved.block) : Exported(c[1], c[2])
  /\ lastPrimaryKey = StartKey + Cardinality(ChangesUpTo(lastExportedBlock))
  /\ saved.key = StartKey + Cardinality(ChangesUpTo(saved.block))

IInv == DayInv /\ PositionInv

-----------------------------------------------------------------------------
(* Changes and batches.                                                    *)

(* A finite set can be listed. *)
LEMMA Listing ==
  ASSUME NEW S, IsFiniteSet(S)
  PROVE  /\ SetToSeq(S) \in Seq(S)
         /\ Len(SetToSeq(S)) = Cardinality(S) /\ Cardinality(S) \in Nat
         /\ \A x \in S : \E n \in 1..Cardinality(S) : SetToSeq(S)[n] = x
  <1> DEFINE N == Cardinality(S)
             f == SetToSeq(S)
  <1>1. N \in Nat /\ ExistsBijection(1..N, S)
    BY FS_CardinalityType
  <1>2. \E g \in [1..N -> S] : IsInjective(g)
    BY <1>1 DEF ExistsBijection, Bijection, Injection
  <1>3. f \in [1..N -> S] /\ IsInjective(f)
    BY <1>2 DEF SetToSeq
  <1> HIDE DEF f
  <1>4. f \in Injection(1..N, S)
    BY <1>3 DEF Injection
  <1>5. IsFiniteSet(1..N) /\ Cardinality(1..N) = N
    BY <1>1, FS_Interval
  <1>6. f \in Surjection(1..N, S)
    BY <1>4, <1>5, FS_Injection
  <1>7. \A x \in S : \E n \in 1..N : f[n] = x
    BY <1>6 DEF Surjection
  <1>8. f \in Seq(S) /\ Len(f) = N
    <2> HIDE DEF N
    <2> QED
      BY <1>1, <1>3
  <1> QED
    BY <1>1, <1>7, <1>8 DEF f

(* The slices hold what the changes hold. *)
LEMMA SlicesFacts ==
  ASSUME NEW S, NEW changes \in Seq(S)
  PROVE  /\ Slices(changes) \in Seq(Seq(S))
         /\ Len(changes) = 0 => Slices(changes) = <<>>
         /\ \A i \in 1..Len(changes) :
              \E n \in 1..Len(Slices(changes)) : \E k \in 1..Len(Slices(changes)[n]) :
                Slices(changes)[n][k] = changes[i]
  <1> DEFINE M == MaxKafkaMessages
             N == Len(changes)
             count == (N + M - 1) \div M
             last(n) == IF n * M < N THEN n * M ELSE N
             slice(n) == SubSeq(changes, (n - 1) * M + 1, last(n))
  <1>1. M \in Nat \ {0} /\ N \in Nat
    BY BeaconAssumption
  <1>2. Slices(changes) = [n \in 1..count |-> slice(n)]
    BY DEF Slices
  <1>3. count \in Int /\ count * M \in Int /\ count * M <= N + M - 1 /\ N + M - 1 < count * M + M
    BY <1>1, Quotient, N + M - 1 \in Int
  <1> HIDE DEF N, M, count
  <1>4. count \in Nat
    <2> SUFFICES ASSUME count <= -1 PROVE FALSE
      BY <1>3
    <2>1. count * M <= (-1) * M
      BY <1>1, <1>3, ProductMonotone, -1 \in Int
    <2>2. (-1) * M = -M
      BY <1>1
    <2> QED
      BY <2>1, <2>2, <1>1, <1>3
  <1>5. \A n \in 1..count : /\ (n - 1) * M \in Nat /\ n * M \in Nat /\ n * M = (n - 1) * M + M
                            /\ (n - 1) * M < N
    <2> SUFFICES ASSUME NEW n \in 1..count
                 PROVE  /\ (n - 1) * M \in Nat /\ n * M \in Nat /\ n * M = (n - 1) * M + M
                        /\ (n - 1) * M < N
      OBVIOUS
    <2>1. n \in Nat /\ n - 1 \in Nat /\ n <= count
      BY <1>4
    <2>2. (n - 1) * M \in Nat /\ n * M \in Nat
      BY <2>1, <1>1
    <2>3. n * M = (n - 1) * M + M
      BY <2>1, <1>1
    <2>4. n * M <= count * M
      BY <2>1, <1>1, <1>3, ProductMonotone
    <2> QED
      BY <2>2, <2>3, <2>4, <1>1, <1>3
  <1>6. \A n \in 1..count :
          /\ slice(n) \in Seq(S)
          /\ Len(slice(n)) = last(n) - (n - 1) * M
          /\ \A k \in 1..(last(n) - (n - 1) * M) : slice(n)[k] = changes[(n - 1) * M + k]
    <2> SUFFICES ASSUME NEW n \in 1..count
                 PROVE  /\ slice(n) \in Seq(S)
                        /\ Len(slice(n)) = last(n) - (n - 1) * M
                        /\ \A k \in 1..(last(n) - (n - 1) * M) :
                             slice(n)[k] = changes[(n - 1) * M + k]
      OBVIOUS
    <2> DEFINE a == (n - 1) * M
               b == last(n)
    <2>1. a \in Nat /\ b \in Int /\ a + 1 <= b /\ b <= N
      BY <1>1, <1>5
    <2>2. slice(n) = SubSeq(changes, a + 1, b)
      OBVIOUS
    <2> HIDE DEF a, b
    <2>3. a + 1 \in 1..(Len(changes) + 1) /\ b \in (a + 1 - 1)..Len(changes)
      BY <2>1, <1>1 DEF N
    <2>4. /\ SubSeq(changes, a + 1, b) \in Seq(S)
          /\ Len(SubSeq(changes, a + 1, b)) = b - a
          /\ \A k \in 1..(b - a) : SubSeq(changes, a + 1, b)[k] = changes[a + k]
      BY <2>1, <2>3, SubSeqProperties
    <2> QED
      BY <2>2, <2>4 DEF a, b
  <1> HIDE DEF slice
  <1>7. Slices(changes) \in Seq(Seq(S)) /\ Len(Slices(changes)) = count
    BY <1>2, <1>4, <1>6
  <1>8. N = 0 => count = 0
    <2> SUFFICES ASSUME N = 0, count >= 1 PROVE FALSE
      BY <1>4
    <2>1. 1 * M <= count * M
      BY <1>1, <1>3, ProductMonotone
    <2> QED
      BY <2>1, <1>1, <1>3
  <1>9. ASSUME NEW i \in 1..N
        PROVE  \E n \in 1..count : \E k \in 1..Len(slice(n)) : slice(n)[k] = changes[i]
    <2> DEFINE q == (i - 1) \div M
    <2>1. i - 1 \in Nat /\ i \in Nat /\ i <= N
      BY <1>1
    <2>2. q \in Int /\ q * M \in Int /\ q * M <= i - 1 /\ i - 1 < q * M + M /\ q >= 0
      <3>1. q \in Int /\ q * M \in Int /\ q * M <= i - 1 /\ i - 1 < q * M + M
        BY <2>1, <1>1, Quotient
      <3>2. q >= 0
        BY <2>1, <1>1
      <3> QED
        BY <3>1, <3>2
    <2> HIDE DEF q
    <2> DEFINE n == q + 1
               k == i - q * M
    <2>3. n * M = q * M + M /\ (n - 1) * M = q * M /\ n \in Nat
      BY <2>2, <1>1
    <2>4. n <= count
      <3> SUFFICES ASSUME count <= q PROVE FALSE
        BY <2>2, <1>3
      <3>1. count * M <= q * M
        BY <2>2, <1>1, <1>3, ProductMonotone
      <3> QED
        BY <3>1, <2>1, <2>2, <1>1, <1>3
    <2>5. n \in 1..count
      BY <2>2, <2>3, <2>4, <1>4
    <2>6. k \in 1..(last(n) - (n - 1) * M)
      BY <2>1, <2>2, <2>3, <1>1
    <2>7. (n - 1) * M + k = i
      BY <2>1, <2>2, <2>3
    <2> HIDE DEF n, k, last
    <2>8. Len(slice(n)) = last(n) - (n - 1) * M /\ slice(n)[k] = changes[i]
      BY <2>5, <2>6, <2>7, <1>6
    <2> QED
      BY <2>5, <2>6, <2>8
  <1>10. Len(changes) = 0 => Slices(changes) = <<>>
    BY <1>7, <1>8 DEF N
  <1>11. \A n \in 1..count : Slices(changes)[n] = slice(n)
    BY <1>2
  <1>12. ASSUME NEW i \in 1..Len(changes)
         PROVE  \E n \in 1..Len(Slices(changes)) : \E k \in 1..Len(Slices(changes)[n]) :
                  Slices(changes)[n][k] = changes[i]
    <2>1. PICK n \in 1..count : \E k \in 1..Len(slice(n)) : slice(n)[k] = changes[i]
      BY <1>9 DEF N
    <2> QED
      BY <2>1, <1>7, <1>11
  <1> QED
    BY <1>7, <1>10, <1>12

-----------------------------------------------------------------------------
(* What a day does to the state.                                           *)

(* Sets of validators are finite. *)
LEMMA ValidatorsFinite ==
  ASSUME NEW S \in SUBSET Validator
  PROVE  IsFiniteSet(S) /\ Cardinality(S) \in Nat
  <1>1. IsFiniteSet(Validator)
    BY BeaconAssumption, FS_Interval DEF Validator
  <1>2. IsFiniteSet(S)
    BY <1>1, FS_Subset
  <1> QED
    BY <1>2, FS_CardinalityType

(* The balance that lastState knows of a validator. *)
LEMMA StateFacts ==
  ASSUME NEW state \in States, NEW v \in Validator
  PROVE  /\ OldBalance(state, v) \in 0..MaxBalance
         /\ state[v] # Null => /\ OldBalance(state, v) = state[v].balance
                               /\ state[v].slot \in AskedSlot
  BY BeaconAssumption DEF States, OldBalance

(* The first look at a day: the changes are those to the day before, their *)
(* records chain, every one is in a batch, and the state knows the day     *)
(* afterwards.                                                             *)
LEMMA FirstLook ==
  ASSUME balanceAt \in [AskedSlot -> [Validator -> 0..MaxBalance]],
         NEW p \in Position, NEW c, Follows(p, c),
         NEW state \in States, Knows(state, p),
         NEW batches, batches = Slices(detectBalanceChanges(state, c))
  PROVE  /\ Changed(state, c) = ChangedOn(c)
         /\ batches \in Seq(Seq(Record))
         /\ \A v \in ChangedOn(c) : \E n \in 1..Len(batches) : Holds(batches[n], c, v)
         /\ StateAfter(state, c) \in States /\ Knows(StateAfter(state, c), c)
  <1>1. /\ c \in ToExport /\ c \in AskedSlot /\ c \in Nat /\ c > 0 /\ p \in Int /\ p < c
    BY ToExportFacts DEF Follows
  <1>2. \A v \in Validator : OldBalance(state, v) = BalanceBefore(c, v)
    BY BeforeIsKnown DEF Knows
  <1>3. Changed(state, c) = ChangedOn(c)
    BY <1>2 DEF Changed, ChangedOn
  <1>4. \A v \in Validator : balanceAt[c][v] \in 0..MaxBalance
    BY <1>1
  <1>5. \A s \in AskedSlot : s \in Int
    BY ToExportFacts, BeaconAssumption DEF AskedSlot, DailySlot
  <1>6. ASSUME NEW v \in ChangedOn(c)
        PROVE  /\ Change(state, c, v) \in Record
               /\ Change(state, c, v).slot = c /\ Change(state, c, v).validator = v
    <2> DEFINE r == Change(state, c, v)
    <2>1. v \in Validator /\ balanceAt[c][v] # BalanceBefore(c, v)
      BY DEF ChangedOn
    <2>2. /\ r.slot = c /\ r.validator = v /\ r.balance = balanceAt[c][v]
          /\ r.oldBalance = OldBalance(state, v)
          /\ r.oldSlot = IF state[v] = Null THEN Null ELSE state[v].slot
      BY DEF Change
    <2>3. OldBalance(state, v) \in 0..MaxBalance /\ OldBalance(state, v) = BalanceBefore(c, v)
      BY <2>1, <1>2, StateFacts
    <2>4. r.oldSlot \in AskedSlot \cup {Null}
      BY <2>1, <2>2, StateFacts
    <2>5. r \in [slot : ToExport, validator : Validator, balance : 0..MaxBalance,
                 oldBalance : 0..MaxBalance, oldSlot : AskedSlot \cup {Null}]
      BY <2>1, <2>2, <2>3, <2>4, <1>1, <1>4 DEF Change
    <2>6. r.oldSlot # Null => r.oldSlot < r.slot /\ balanceAt[r.oldSlot][v] = r.oldBalance
      <3> HIDE DEF r
      <3> SUFFICES ASSUME state[v] # Null
                   PROVE  state[v].slot < c /\ balanceAt[state[v].slot][v] = OldBalance(state, v)
        BY <2>2
      <3>1. /\ state[v].slot \in AskedSlot /\ state[v].slot <= p
            /\ balanceAt[state[v].slot][v] = state[v].balance
        BY <2>1 DEF Knows
      <3>2. OldBalance(state, v) = state[v].balance
        BY <2>1, StateFacts
      <3> DEFINE t == state[v].slot
      <3>3. t \in Int /\ t <= p
        BY <3>1, <1>5
      <3> HIDE DEF t
      <3>4. t < c
        BY <3>3, <1>1
      <3> QED
        BY <3>1, <3>2, <3>4 DEF t
    <2> HIDE DEF r
    <2>7. r \in Record
      BY <2>1, <2>2, <2>3, <2>5, <2>6 DEF Record
    <2> QED
      BY <2>2, <2>7 DEF r
  <1> DEFINE order   == SetToSeq(ChangedOn(c))
             changes == detectBalanceChanges(state, c)
  <1>7. /\ order \in Seq(ChangedOn(c))
        /\ \A v \in ChangedOn(c) : \E n \in 1..Len(order) : order[n] = v
    <2>1. IsFiniteSet(ChangedOn(c))
      BY ValidatorsFinite DEF ChangedOn
    <2> QED
      BY <2>1, Listing
  <1>8. changes = [n \in 1..Len(order) |-> Change(state, c, order[n])]
    BY <1>3 DEF detectBalanceChanges
  <1> HIDE DEF order, changes
  <1>9. changes \in Seq(Record) /\ Len(changes) = Len(order)
    <2>1. Len(order) \in Nat /\ \A n \in 1..Len(order) : order[n] \in ChangedOn(c)
      BY <1>7
    <2>2. \A n \in 1..Len(order) : Change(state, c, order[n]) \in Record
      BY <2>1, <1>6
    <2> QED
      BY <2>1, <2>2, <1>8
  <1>10. batches = Slices(changes)
    BY DEF changes
  <1>11. batches \in Seq(Seq(Record))
    BY <1>9, <1>10, SlicesFacts
  <1>12. ASSUME NEW v \in ChangedOn(c)
         PROVE  \E n \in 1..Len(batches) : Holds(batches[n], c, v)
    <2>1. PICK i \in 1..Len(order) : order[i] = v
      BY <1>7
    <2>2. changes[i] = Change(state, c, v) /\ i \in 1..Len(changes)
      BY <2>1, <1>8, <1>9
    <2>3. PICK n \in 1..Len(batches) : \E k \in 1..Len(batches[n]) : batches[n][k] = changes[i]
      BY <2>2, <1>9, <1>10, SlicesFacts
    <2>4. Holds(batches[n], c, v)
      BY <2>2, <2>3, <1>6 DEF Holds
    <2> QED
      BY <2>4
  <1>13. StateAfter(state, c) \in States
    BY <1>1, <1>4 DEF StateAfter, States
  <1>14. ASSUME NEW v \in Validator
         PROVE  LET after == StateAfter(state, c) IN
                /\ OldBalance(after, v) = KnownBalance(c, v)
                /\ after[v] # Null => /\ after[v].slot \in AskedSlot /\ after[v].slot <= c
                                      /\ balanceAt[after[v].slot][v] = after[v].balance
    <2> DEFINE after == StateAfter(state, c)
    <2>1. KnownBalance(c, v) = balanceAt[c][v]
      BY <1>1 DEF KnownBalance
    <2>2. after[v] = IF balanceAt[c][v] = OldBalance(state, v) THEN state[v]
                     ELSE IF balanceAt[c][v] = 0 THEN Null
                     ELSE [balance |-> balanceAt[c][v], slot |-> c]
      BY DEF StateAfter, Changed
    <2> HIDE DEF after
    <2>3. CASE balanceAt[c][v] = OldBalance(state, v)
      <3>1. after[v] = state[v] /\ OldBalance(after, v) = OldBalance(state, v)
        BY <2>2, <2>3 DEF OldBalance
      <3>2. state[v] # Null => /\ state[v].slot \in AskedSlot /\ state[v].slot <= p
                               /\ balanceAt[state[v].slot][v] = state[v].balance
        BY DEF Knows
      <3>3. ASSUME after[v] # Null PROVE after[v].slot <= c
        <4> DEFINE t == state[v].slot
        <4>1. t \in Int /\ t <= p /\ after[v].slot = t
          BY <3>1, <3>2, <3>3, <1>5
        <4> HIDE DEF t
        <4>2. t <= c
          BY <4>1, <1>1
        <4> QED
          BY <4>1, <4>2
      <3> QED
        BY <3>1, <3>2, <3>3, <2>1, <2>3 DEF after
    <2>4. CASE balanceAt[c][v] # OldBalance(state, v) /\ balanceAt[c][v] = 0
      <3>1. after[v] = Null /\ OldBalance(after, v) = 0
        BY <2>2, <2>4 DEF OldBalance
      <3> QED
        BY <3>1, <2>1, <2>4 DEF after
    <2>5. CASE balanceAt[c][v] # OldBalance(state, v) /\ balanceAt[c][v] # 0
      <3>1. after[v] = [balance |-> balanceAt[c][v], slot |-> c]
        BY <2>2, <2>5
      <3>2. after[v] # Null
        BY <3>1, <1>1, <1>4, NullAssumption
      <3>3. OldBalance(after, v) = balanceAt[c][v] /\ after[v].slot = c /\ after[v].balance = balanceAt[c][v]
        BY <3>1, <3>2 DEF OldBalance
      <3> QED
        BY <3>3, <2>1, <1>1 DEF after
    <2> QED
      BY <2>3, <2>4, <2>5
  <1> QED
    BY <1>3, <1>11, <1>12, <1>13, <1>14 DEF Knows

(* A second look at the same day finds nothing. *)
LEMMA SecondLook ==
  ASSUME balanceAt \in [AskedSlot -> [Validator -> 0..MaxBalance]],
         NEW c \in ToExport, NEW state \in States, Knows(state, c)
  PROVE  /\ Changed(state, c) = {}
         /\ Slices(detectBalanceChanges(state, c)) = <<>>
         /\ StateAfter(state, c) = state
  <1>1. \A v \in Validator : OldBalance(state, v) = balanceAt[c][v]
    BY ToExportFacts DEF Knows, KnownBalance
  <1>2. Changed(state, c) = {}
    BY <1>1 DEF Changed
  <1>3. StateAfter(state, c) = state
    BY <1>2 DEF StateAfter, States
  <1> DEFINE order   == SetToSeq({})
             changes == [n \in 1..Len(order) |-> Change(state, c, order[n])]
  <1>4. detectBalanceChanges(state, c) = changes
    BY <1>2 DEF detectBalanceChanges
  <1>5. Len(order) = 0
    BY Listing, FS_EmptySet
  <1> HIDE DEF order
  <1>6. changes \in Seq({}) /\ Len(changes) = 0
    BY <1>5
  <1> HIDE DEF changes
  <1>7. Slices(changes) = <<>>
    BY <1>6, SlicesFacts
  <1> QED
    BY <1>2, <1>3, <1>4, <1>7

(* Between two days, what is in memory or loaded from the node is what the *)
(* position stands for.                                                    *)
LEMMA PreloadedKnows ==
  ASSUME TypeOK, DayInv, currentDailySlot = Null
  PROVE  Preloaded \in States /\ Knows(Preloaded, lastExportedBlock)
  <1> DEFINE p == lastExportedBlock
  <1>1. p \in Int /\ p \in Position /\ (p > 0 => p \in AskedSlot)
    BY ToExportFacts DEF TypeOK
  <1>2. CASE balancesPreloaded
    BY <1>2 DEF Preloaded, DayInv, TypeOK
  <1>3. CASE ~ balancesPreloaded /\ p <= 0
    <2>1. Preloaded = NoState
      BY <1>3 DEF Preloaded, DayInv
    <2>2. \A v \in Validator : NoState[v] = Null /\ OldBalance(NoState, v) = 0 /\ KnownBalance(p, v) = 0
      BY <1>1, <1>3 DEF NoState, OldBalance, KnownBalance
    <2> QED
      BY <2>1, <2>2 DEF Knows, States, NoState
  <1>4. CASE ~ balancesPreloaded /\ ~ p <= 0
    <2>1. p > 0 /\ p \in AskedSlot
      BY <1>1, <1>4
    <2>2. \A v \in Validator : balanceAt[p][v] \in 0..MaxBalance
      BY <2>1 DEF TypeOK
    <2>3. Preloaded = [v \in Validator |-> IF balanceAt[p][v] > 0
                                           THEN [balance |-> balanceAt[p][v], slot |-> p]
                                           ELSE Null]
      BY <1>4 DEF Preloaded, DayInv, NoState
    <2>4. Preloaded \in States
      BY <2>1, <2>2, <2>3 DEF States
    <2>5. ASSUME NEW v \in Validator
          PROVE  /\ OldBalance(Preloaded, v) = KnownBalance(p, v)
                 /\ Preloaded[v] # Null => /\ Preloaded[v].slot \in AskedSlot
                                           /\ Preloaded[v].slot <= p
                                           /\ balanceAt[Preloaded[v].slot][v] = Preloaded[v].balance
      <3>1. KnownBalance(p, v) = balanceAt[p][v]
        BY <2>1 DEF KnownBalance
      <3>2. CASE balanceAt[p][v] > 0
        <4>1. Preloaded[v] = [balance |-> balanceAt[p][v], slot |-> p]
          BY <3>2, <2>3
        <4>2. Preloaded[v] # Null
          BY <4>1, <2>1, <2>2, NullAssumption
        <4> QED
          BY <4>1, <4>2, <3>1, <2>1, <1>1 DEF OldBalance
      <3>3. CASE ~ balanceAt[p][v] > 0
        <4>1. Preloaded[v] = Null /\ balanceAt[p][v] = 0
          BY <3>3, <2>2, <2>3, BeaconAssumption
        <4> QED
          BY <4>1, <3>1 DEF OldBalance
      <3> QED
        BY <3>2, <3>3
    <2> QED
      BY <2>4, <2>5 DEF Knows
  <1> QED
    BY <1>2, <1>3, <1>4 DEF TypeOK

(* There are finitely many changes up to a position. *)
LEMMA ChangesFinite ==
  ASSUME NEW p
  PROVE  IsFiniteSet(ChangesUpTo(p)) /\ Cardinality(ChangesUpTo(p)) \in Nat
  <1>1. ToExport \in SUBSET (0..MaxSlot) /\ Validator \in SUBSET Validator
    BY ToExportFacts, BeaconAssumption
  <1>2. IsFiniteSet(0..MaxSlot)
    BY BeaconAssumption, FS_Interval
  <1>3. IsFiniteSet(ToExport)
    BY <1>1, <1>2, FS_Subset
  <1>4. IsFiniteSet(ToExport \X Validator)
    BY <1>1, <1>3, FS_Product, ValidatorsFinite
  <1>5. ChangesUpTo(p) \in SUBSET (ToExport \X Validator)
    BY DEF ChangesUpTo
  <1>6. IsFiniteSet(ChangesUpTo(p))
    BY <1>4, <1>5, FS_Subset
  <1> QED
    BY <1>6, FS_CardinalityType

(* A completed day adds its changes to the count. *)
LEMMA CountDay ==
  ASSUME NEW p \in Position, NEW c, Follows(p, c)
  PROVE  /\ ChangesUpTo(c) = ChangesUpTo(p) \cup ({c} \X ChangedOn(c))
         /\ Cardinality(ChangesUpTo(c)) = Cardinality(ChangesUpTo(p)) + Cardinality(ChangedOn(c))
  <1>1. p \in Int /\ c \in Int /\ p < c /\ c \in ToExport /\ \A s \in ToExport : s \in Int
    BY ToExportFacts DEF Follows
  <1>2. \A s \in ToExport : s <= c <=> s <= p \/ s = c
    BY <1>1 DEF Follows
  <1>3. ChangesUpTo(c) = ChangesUpTo(p) \cup ({c} \X ChangedOn(c))
    <2>1. \A x \in ChangesUpTo(c) : x \in ChangesUpTo(p) \cup ({c} \X ChangedOn(c))
      BY <1>2 DEF ChangesUpTo
    <2>2. \A x \in ChangesUpTo(p) : x \in ChangesUpTo(c)
      BY <1>2 DEF ChangesUpTo
    <2>3. \A x \in {c} \X ChangedOn(c) : x \in ChangesUpTo(c)
      BY <1>1 DEF ChangesUpTo, ChangedOn
    <2> QED
      BY <2>1, <2>2, <2>3
  <1>4. ChangesUpTo(p) \cap ({c} \X ChangedOn(c)) = {}
    BY <1>1 DEF ChangesUpTo
  <1>5. IsFiniteSet(ChangesUpTo(p)) /\ Cardinality(ChangesUpTo(p)) \in Nat
    BY ChangesFinite
  <1>6. IsFiniteSet(ChangedOn(c)) /\ Cardinality(ChangedOn(c)) \in Nat
    BY ValidatorsFinite DEF ChangedOn
  <1>7. IsFiniteSet({c} \X ChangedOn(c)) /\ Cardinality({c} \X ChangedOn(c)) = Cardinality(ChangedOn(c))
    <2>1. IsFiniteSet({c}) /\ Cardinality({c}) = 1
      BY FS_Singleton
    <2>2. /\ IsFiniteSet({c} \X ChangedOn(c))
          /\ Cardinality({c} \X ChangedOn(c)) = Cardinality({c}) * Cardinality(ChangedOn(c))
      BY <2>1, <1>6, FS_Product
    <2> QED
      BY <2>1, <2>2, <1>6
  <1>8. Cardinality(ChangesUpTo(p) \cap ({c} \X ChangedOn(c))) = 0
    BY <1>4, FS_EmptySet
  <1>9. Cardinality(ChangesUpTo(c)) =
          Cardinality(ChangesUpTo(p)) + Cardinality({c} \X ChangedOn(c)) - 0
    BY <1>3, <1>5, <1>7, <1>8, FS_Union
  <1> QED
    BY <1>3, <1>5, <1>6, <1>7, <1>9

(* The node's answers do not change. *)
LEMMA NodeUnchanged ==
  ASSUME balanceAt' = balanceAt
  PROVE  /\ Record' = Record
         /\ \A s : ChangedOn(s)' = ChangedOn(s)
         /\ \A p : ChangesUpTo(p)' = ChangesUpTo(p)
         /\ \A state, p : Knows(state, p)' <=> Knows(state, p)
  <1>1. \A s, v : BalanceBefore(s, v)' = BalanceBefore(s, v)
    BY DEF BalanceBefore
  <1>2. \A s : ChangedOn(s)' = ChangedOn(s)
    BY <1>1 DEF ChangedOn
  <1>3. \A p : ChangesUpTo(p)' = ChangesUpTo(p)
    BY <1>2 DEF ChangesUpTo
  <1>4. Record' = Record
    BY <1>1 DEF Record
  <1>5. \A state, p : Knows(state, p)' <=> Knows(state, p)
    BY DEF Knows, KnownBalance
  <1> QED
    BY <1>2, <1>3, <1>4, <1>5

-----------------------------------------------------------------------------
(* Steps.                                                                  *)

(* Handing out a batch in the middle of a day, or the last one. *)
LEMMA PendingStep ==
  ASSUME TypeOK, IInv, WorkPending
  PROVE  TypeOK' /\ IInv'
  <1>0. PICK c, p : c = currentDailySlot /\ p = lastExportedBlock
    OBVIOUS
  <1> DEFINE batch == Head(pendingBatches)
             rest  == Tail(pendingBatches)
  <1>1. /\ pc = "work" /\ pendingBatches # <<>> /\ pendingBatches' = rest
        /\ events' = batch /\ pc' = IF batch = <<>> THEN "save" ELSE "store"
        /\ head' = head /\ balanceAt' = balanceAt /\ lastState' = lastState
        /\ balancesPreloaded' = balancesPreloaded /\ topic' = topic /\ saved' = saved
    BY DEF WorkPending, Return, nodeVars
  <1>2. /\ c # Null /\ c \in ToExport /\ processingDailySlot = c /\ p \in Position
        /\ Follows(p, c) /\ c <= head /\ balancesPreloaded /\ Knows(lastState, c)
        /\ processingChangesCount = Cardinality(ChangedOn(c))
        /\ \A v \in ChangedOn(c) : \/ Underway(c, v)
                                   \/ \E n \in 1..Len(pendingBatches) : Holds(pendingBatches[n], c, v)
    BY <1>0, <1>1 DEF IInv, DayInv, TypeOK
  <1>3. /\ batch \in Seq(Record) /\ rest \in Seq(Seq(Record))
        /\ Len(pendingBatches) \in Nat /\ Len(rest) = Len(pendingBatches) - 1
        /\ pendingBatches[1] = batch
        /\ \A n \in 1..Len(rest) : rest[n] = pendingBatches[n + 1]
    BY <1>1, HeadTailProperties DEF TypeOK
  <1>4. /\ Record' = Record /\ \A s : ChangedOn(s)' = ChangedOn(s)
        /\ \A q : ChangesUpTo(q)' = ChangesUpTo(q)
        /\ \A state, q : Knows(state, q)' <=> Knows(state, q)
    BY <1>1, NodeUnchanged
  <1>5. \A s, v : Exported(s, v)' <=> Exported(s, v)
    BY <1>1 DEF Exported
  <1> HIDE DEF batch, rest
  <1>6. \A s, v : Holds(batch, s, v) => Underway(s, v)'
    <2> SUFFICES ASSUME NEW s, NEW v, Holds(batch, s, v) PROVE Underway(s, v)'
      OBVIOUS
    <2>1. batch # <<>>
      BY <1>3 DEF Holds
    <2> QED
      BY <2>1, <1>1 DEF Underway
  <1>7. \A s, v : Underway(s, v) => Exported(s, v) /\ Underway(s, v)'
    BY <1>1, <1>5 DEF Underway
  <1>8. \A v \in ChangedOn(c) : \/ Underway(c, v)'
                                \/ \E n \in 1..Len(rest) : Holds(rest[n], c, v)
    <2> SUFFICES ASSUME NEW v \in ChangedOn(c),
                        NEW n \in 1..Len(pendingBatches), Holds(pendingBatches[n], c, v)
                 PROVE  Underway(c, v)' \/ \E m \in 1..Len(rest) : Holds(rest[m], c, v)
      BY <1>2, <1>7
    <2>1. CASE n = 1
      BY <2>1, <1>3, <1>6
    <2>2. CASE n # 1
      <3>1. n - 1 \in 1..Len(rest) /\ rest[n - 1] = pendingBatches[n]
        BY <2>2, <1>3
      <3> QED
        BY <3>1
    <2> QED
      BY <2>1, <2>2
  <1>9. \A x \in ChangesUpTo(p) : Underway(x[1], x[2])'
    BY <1>0, <1>7 DEF IInv, PositionInv
  <1>10. /\ \A x \in ChangesUpTo(saved.block) : Exported(x[1], x[2])'
         /\ saved.key = StartKey + Cardinality(ChangesUpTo(saved.block))
         /\ lastPrimaryKey = StartKey + Cardinality(ChangesUpTo(p))
    BY <1>0, <1>5 DEF IInv, PositionInv
  <1>11. CASE Len(pendingBatches) = 1 /\ CompleteDay
    <2>1. /\ lastExportedBlock' = c /\ lastPrimaryKey' = lastPrimaryKey + Cardinality(ChangedOn(c))
          /\ processingDailySlot' = Null /\ processingChangesCount' = 0 /\ currentDailySlot' = Null
      BY <1>2, <1>11 DEF CompleteDay
    <2>2. c \in Position /\ lastPrimaryKey' \in Int
      <3>1. Cardinality(ChangedOn(c)) \in Nat
        BY ValidatorsFinite DEF ChangedOn
      <3> QED
        BY <3>1, <2>1, <1>2 DEF Position, TypeOK
    <2>3. TypeOK'
      BY <1>1, <1>3, <1>4, <2>1, <2>2 DEF TypeOK
    <2>4. rest = <<>>
      BY <1>3, <1>11
    <2>5. DayInv'
      BY <1>1, <1>2, <1>4, <2>1, <2>4 DEF DayInv
    <2>6. \A v \in ChangedOn(c) : Underway(c, v)'
      BY <1>3, <1>8, <1>11
    <2>7. /\ ChangesUpTo(c) = ChangesUpTo(p) \cup ({c} \X ChangedOn(c))
          /\ Cardinality(ChangesUpTo(c)) = Cardinality(ChangesUpTo(p)) + Cardinality(ChangedOn(c))
      BY <1>2, CountDay
    <2>8. \A x \in ChangesUpTo(c) : Underway(x[1], x[2])'
      BY <2>6, <2>7, <1>9
    <2>9. lastPrimaryKey' = StartKey + Cardinality(ChangesUpTo(c))
      <3>1. Cardinality(ChangedOn(c)) \in Nat /\ StartKey \in Int
        BY ValidatorsFinite, BeaconAssumption DEF ChangedOn
      <3>2. Cardinality(ChangesUpTo(p)) \in Int
        BY ChangesFinite
      <3> QED
        BY <3>1, <3>2, <2>1, <2>7, <1>10
    <2>10. PositionInv'
      BY <2>1, <2>8, <2>9, <1>1, <1>4, <1>10 DEF PositionInv
    <2> QED
      BY <2>3, <2>5, <2>10 DEF IInv
  <1>12. CASE /\ Len(pendingBatches) > 1
              /\ UNCHANGED <<lastExportedBlock, lastPrimaryKey, dayVars, currentDailySlot>>
    <2>1. /\ lastExportedBlock' = p /\ lastPrimaryKey' = lastPrimaryKey
          /\ processingDailySlot' = processingDailySlot
          /\ processingChangesCount' = processingChangesCount /\ currentDailySlot' = c
      BY <1>0, <1>12 DEF dayVars
    <2>2. TypeOK'
      BY <1>0, <1>1, <1>3, <1>4, <2>1 DEF TypeOK
    <2>3. DayInv'
      BY <1>0, <1>1, <1>2, <1>4, <1>8, <2>1 DEF DayInv
    <2>4. PositionInv'
      BY <1>1, <1>4, <1>9, <1>10, <2>1 DEF PositionInv
    <2> QED
      BY <2>2, <2>3, <2>4 DEF IInv
  <1> QED
    BY <1>2, <1>11, <1>12 DEF WorkPending

(* Waiting for a day to end. *)
LEMMA IdleStep ==
  ASSUME TypeOK, IInv, WorkIdle
  PROVE  TypeOK' /\ IInv'
  <1>1. /\ pc = "work" /\ pendingBatches = <<>> /\ currentDailySlot = Null
        /\ lastState' = Preloaded /\ balancesPreloaded' = TRUE
        /\ events' = <<>> /\ pc' = "save"
        /\ head' = head /\ balanceAt' = balanceAt
        /\ lastExportedBlock' = lastExportedBlock /\ lastPrimaryKey' = lastPrimaryKey
        /\ currentDailySlot' = currentDailySlot /\ pendingBatches' = pendingBatches
        /\ processingDailySlot' = processingDailySlot
        /\ processingChangesCount' = processingChangesCount
        /\ topic' = topic /\ saved' = saved
    BY DEF WorkIdle, Return, nodeVars, dayVars
  <1>2. /\ Record' = Record /\ \A s : ChangedOn(s)' = ChangedOn(s)
        /\ \A q : ChangesUpTo(q)' = ChangesUpTo(q)
        /\ \A state, q : Knows(state, q)' <=> Knows(state, q)
    BY <1>1, NodeUnchanged
  <1>3. Preloaded \in States /\ Knows(Preloaded, lastExportedBlock)
    BY <1>1, PreloadedKnows DEF IInv
  <1>4. TypeOK'
    <2>1. <<>> \in Seq(Record)
      OBVIOUS
    <2> QED
      BY <2>1, <1>1, <1>2, <1>3 DEF TypeOK
  <1>5. DayInv'
    BY <1>1, <1>2, <1>3 DEF IInv, DayInv
  <1>6. \A s, v : /\ Exported(s, v)' <=> Exported(s, v)
                  /\ Underway(s, v) => Underway(s, v)'
    BY <1>1 DEF Exported, Underway
  <1>7. PositionInv'
    BY <1>1, <1>2, <1>6 DEF IInv, PositionInv
  <1> QED
    BY <1>4, <1>5, <1>7 DEF IInv

(* Fetching a day. The second time round there is nothing to hand out. *)
LEMMA DayStep ==
  ASSUME TypeOK, IInv, WorkDay
  PROVE  TypeOK' /\ IInv'
  <1>0. PICK c : c = IF currentDailySlot = Null THEN getLastUtcDaySlot(nextDayIndex)
                     ELSE currentDailySlot
    OBVIOUS
  <1> DEFINE batches == Slices(detectBalanceChanges(Preloaded, c))
  <1>1. /\ pc = "work" /\ pendingBatches = <<>>
        /\ currentDailySlot = Null => c <= head
        /\ lastState' = StateAfter(Preloaded, c) /\ balancesPreloaded' = TRUE
        /\ currentDailySlot' = c /\ processingDailySlot' = c
        /\ processingChangesCount' = Cardinality(Changed(Preloaded, c))
        /\ pendingBatches' = IF batches = <<>> THEN <<>> ELSE Tail(batches)
        /\ events' = IF batches = <<>> THEN <<>> ELSE Head(batches)
        /\ pc' = IF events' = <<>> THEN "save" ELSE "store"
        /\ lastExportedBlock' = lastExportedBlock /\ lastPrimaryKey' = lastPrimaryKey
        /\ head' = head /\ balanceAt' = balanceAt /\ topic' = topic /\ saved' = saved
    BY <1>0 DEF WorkDay, ProcessDay, Return, nodeVars
  <1>2. /\ Record' = Record /\ \A s : ChangedOn(s)' = ChangedOn(s)
        /\ \A q : ChangesUpTo(q)' = ChangesUpTo(q)
        /\ \A state, q : Knows(state, q)' <=> Knows(state, q)
    BY <1>1, NodeUnchanged
  <1>3. \A s, v : /\ Exported(s, v)' <=> Exported(s, v)
                  /\ Underway(s, v) => Underway(s, v)'
    BY <1>1 DEF Exported, Underway
  <1>4. PositionInv'
    BY <1>1, <1>2, <1>3 DEF IInv, PositionInv
  <1>5. Null \notin ToExport /\ <<>> \in Seq(Record) /\ <<>> \in Seq(Seq(Record))
    BY ToExportFacts, BeaconAssumption
  <1>6. CASE currentDailySlot = Null
    <2>1. Preloaded \in States /\ Knows(Preloaded, lastExportedBlock)
      BY <1>6, PreloadedKnows DEF IInv
    <2>2. lastExportedBlock \in Position /\ Follows(lastExportedBlock, c) /\ c <= head
      <3>1. c = getLastUtcDaySlot(nextDayIndex) /\ lastExportedBlock \in Position
            /\ c <= head /\ head <= MaxSlot /\ head \in Int /\ MaxSlot \in Int
        BY <1>0, <1>1, <1>6, BeaconAssumption DEF TypeOK
      <3> QED
        BY <3>1, NextDay
    <2>3. /\ Changed(Preloaded, c) = ChangedOn(c)
          /\ batches \in Seq(Seq(Record))
          /\ \A v \in ChangedOn(c) : \E n \in 1..Len(batches) : Holds(batches[n], c, v)
          /\ StateAfter(Preloaded, c) \in States /\ Knows(StateAfter(Preloaded, c), c)
      BY <2>1, <2>2, FirstLook DEF TypeOK
    <2> HIDE DEF batches
    <2>4. c \in ToExport
      BY <2>2 DEF Follows
    <2>5. /\ pendingBatches' \in Seq(Seq(Record)) /\ events' \in Seq(Record)
          /\ batches # <<>> => /\ Len(batches) \in Nat
                               /\ Len(pendingBatches') = Len(batches) - 1
                               /\ batches[1] = events'
                               /\ \A n \in 1..Len(pendingBatches') : pendingBatches'[n] = batches[n + 1]
      <3>1. CASE batches = <<>>
        BY <3>1, <1>1, <1>5
      <3>2. CASE batches # <<>>
        BY <3>2, <2>3, <1>1, HeadTailProperties
      <3> QED
        BY <3>1, <3>2
    <2>6. Cardinality(ChangedOn(c)) \in Nat
      BY ValidatorsFinite DEF ChangedOn
    <2>7. TypeOK'
      BY <1>1, <1>2, <2>3, <2>4, <2>5, <2>6 DEF TypeOK
    <2>8. ASSUME NEW v \in ChangedOn(c)
          PROVE  \/ Underway(c, v)'
                 \/ \E n \in 1..Len(pendingBatches') : Holds(pendingBatches'[n], c, v)
      <3>1. PICK n \in 1..Len(batches) : Holds(batches[n], c, v)
        BY <2>3
      <3>2. batches # <<>> /\ Len(batches) \in Nat
        BY <2>3, <3>1
      <3>3. CASE n = 1
        <4>1. Holds(events', c, v)
          BY <3>1, <3>2, <3>3, <2>5
        <4>2. events' # <<>>
          BY <4>1 DEF Holds
        <4> QED
          BY <4>1, <4>2, <1>1 DEF Underway
      <3>4. CASE n # 1
        <4>1. n - 1 \in 1..Len(pendingBatches') /\ (n - 1) + 1 = n
          BY <3>1, <3>2, <3>4, <2>5
        <4>2. pendingBatches'[n - 1] = batches[(n - 1) + 1]
          BY <4>1, <3>2, <2>5
        <4> QED
          BY <4>1, <4>2, <3>1
      <3> QED
        BY <3>3, <3>4
    <2>9. DayInv'
      BY <1>1, <1>2, <1>5, <2>2, <2>3, <2>4, <2>8 DEF DayInv
    <2> QED
      BY <2>7, <2>9, <1>4 DEF IInv
  <1>7. CASE currentDailySlot # Null
    <2>1. /\ c = currentDailySlot /\ c \in ToExport /\ balancesPreloaded /\ Knows(lastState, c)
          /\ Follows(lastExportedBlock, c) /\ c <= head
          /\ \A v \in ChangedOn(c) : Underway(c, v)
      <3>1. c = currentDailySlot /\ 1..Len(pendingBatches) = {}
        BY <1>0, <1>1, <1>7
      <3> QED
        BY <3>1, <1>7 DEF IInv, DayInv, TypeOK
    <2>2. Preloaded = lastState /\ lastState \in States
      BY <2>1 DEF Preloaded, TypeOK
    <2>3. /\ Changed(lastState, c) = {} /\ StateAfter(lastState, c) = lastState
          /\ Slices(detectBalanceChanges(lastState, c)) = <<>>
      BY <2>1, <2>2, SecondLook DEF TypeOK
    <2>4. /\ lastState' = lastState /\ pendingBatches' = <<>> /\ events' = <<>>
          /\ processingChangesCount' = 0
      BY <1>1, <2>2, <2>3, FS_EmptySet
    <2> HIDE DEF batches
    <2>5. TypeOK'
      <3>1. pc' = "save" /\ balancesPreloaded' \in BOOLEAN
        BY <1>1, <2>4
      <3>2. /\ currentDailySlot' = c /\ processingDailySlot' = c /\ head' = head
            /\ lastExportedBlock' = lastExportedBlock /\ lastPrimaryKey' = lastPrimaryKey
            /\ balanceAt' = balanceAt /\ topic' = topic /\ saved' = saved
        BY <1>1
      <3>3. pendingBatches' \in Seq(Seq(Record)) /\ events' \in Seq(Record)
        BY <1>5, <2>4
      <3>4. Record' = Record
        BY <1>2
      <3> QED
        BY <3>1, <3>2, <3>3, <3>4, <2>1, <2>2, <2>4 DEF TypeOK
    <2>6. DayInv'
      BY <1>1, <1>2, <1>3, <1>5, <2>1, <2>4 DEF DayInv
    <2> QED
      BY <2>5, <2>6, <1>4 DEF IInv
  <1> QED
    BY <1>6, <1>7

(* The batch in hand reaches Kafka. *)
LEMMA StoreStep ==
  ASSUME TypeOK, IInv, Store
  PROVE  TypeOK' /\ IInv'
  <1>1. /\ pc = "store" /\ pc' = "save" /\ topic' = topic \cup ToSet(events)
        /\ head' = head /\ balanceAt' = balanceAt
        /\ lastExportedBlock' = lastExportedBlock /\ lastPrimaryKey' = lastPrimaryKey
        /\ lastState' = lastState /\ balancesPreloaded' = balancesPreloaded
        /\ currentDailySlot' = currentDailySlot /\ pendingBatches' = pendingBatches
        /\ processingDailySlot' = processingDailySlot
        /\ processingChangesCount' = processingChangesCount
        /\ events' = events /\ saved' = saved
    BY DEF Store, nodeVars, workerVars, dayVars
  <1>2. /\ Record' = Record /\ \A s : ChangedOn(s)' = ChangedOn(s)
        /\ \A q : ChangesUpTo(q)' = ChangesUpTo(q)
        /\ \A state, q : Knows(state, q)' <=> Knows(state, q)
    BY <1>1, NodeUnchanged
  <1>3. ToSet(events) \subseteq Record /\ \A n \in 1..Len(events) : events[n] \in ToSet(events)
    BY DEF TypeOK, ToSet
  <1>4. TypeOK'
    BY <1>1, <1>2, <1>3 DEF TypeOK
  <1>5. \A s, v : /\ Exported(s, v) => Exported(s, v)'
                  /\ Underway(s, v) => Underway(s, v)'
    <2>1. \A s, v : Exported(s, v) => Exported(s, v)'
      BY <1>1 DEF Exported
    <2>2. \A s, v : Holds(events, s, v) => Exported(s, v)'
      BY <1>1, <1>3 DEF Exported, Holds
    <2> QED
      BY <2>1, <2>2 DEF Underway
  <1>6. DayInv'
    BY <1>1, <1>2, <1>5 DEF IInv, DayInv
  <1>7. PositionInv'
    BY <1>1, <1>2, <1>5 DEF IInv, PositionInv
  <1> QED
    BY <1>4, <1>6, <1>7 DEF IInv

(* The position is saved: there is no batch in hand any more. *)
LEMMA SaveStep ==
  ASSUME TypeOK, IInv, Save
  PROVE  TypeOK' /\ IInv'
  <1>1. /\ pc = "save" /\ pc' = "work"
        /\ saved'.block = lastExportedBlock /\ saved'.key = lastPrimaryKey
        /\ head' = head /\ balanceAt' = balanceAt
        /\ lastExportedBlock' = lastExportedBlock /\ lastPrimaryKey' = lastPrimaryKey
        /\ lastState' = lastState /\ balancesPreloaded' = balancesPreloaded
        /\ currentDailySlot' = currentDailySlot /\ pendingBatches' = pendingBatches
        /\ processingDailySlot' = processingDailySlot
        /\ processingChangesCount' = processingChangesCount
        /\ events' = events /\ topic' = topic
    BY DEF Save, nodeVars, workerVars, dayVars
  <1>2. /\ Record' = Record /\ \A s : ChangedOn(s)' = ChangedOn(s)
        /\ \A q : ChangesUpTo(q)' = ChangesUpTo(q)
        /\ \A state, q : Knows(state, q)' <=> Knows(state, q)
    BY <1>1, NodeUnchanged
  <1>3. TypeOK'
    BY <1>1, <1>2 DEF TypeOK
  <1>4. \A s, v : Underway(s, v) => Underway(s, v)' /\ Exported(s, v)'
    BY <1>1 DEF Exported, Underway
  <1>5. DayInv'
    BY <1>1, <1>2, <1>4 DEF IInv, DayInv
  <1>6. PositionInv'
    BY <1>1, <1>2, <1>4 DEF IInv, PositionInv
  <1> QED
    BY <1>3, <1>5, <1>6 DEF IInv

(* A new process knows nothing but the saved position. *)
LEMMA CrashStep ==
  ASSUME TypeOK, IInv, Crash
  PROVE  TypeOK' /\ IInv'
  <1>1. /\ pc' = "work" /\ saved' = saved /\ topic' = topic
        /\ head' = head /\ balanceAt' = balanceAt
        /\ lastExportedBlock' = saved.block /\ lastPrimaryKey' = saved.key
        /\ lastState' = NoState /\ balancesPreloaded' = FALSE
        /\ currentDailySlot' = Null /\ pendingBatches' = <<>>
        /\ processingDailySlot' = Null /\ processingChangesCount' = 0
        /\ events' = <<>>
    BY DEF Crash, Fresh, nodeVars
  <1>2. /\ Record' = Record /\ \A s : ChangedOn(s)' = ChangedOn(s)
        /\ \A q : ChangesUpTo(q)' = ChangesUpTo(q)
        /\ \A state, q : Knows(state, q)' <=> Knows(state, q)
    BY <1>1, NodeUnchanged
  <1>3. TypeOK'
    <2>1. NoState \in States
      BY DEF NoState, States
    <2>2. <<>> \in Seq(Record) /\ <<>> \in Seq(Seq(Record))
      OBVIOUS
    <2>3. /\ currentDailySlot' \in ToExport \cup {Null}
          /\ processingDailySlot' \in ToExport \cup {Null}
          /\ processingChangesCount' \in Int
      BY <1>1
    <2>4. balancesPreloaded' \in BOOLEAN
      BY <1>1, Zenon
    <2>5. pc' \in {"work", "store", "save"}
      BY <1>1, Zenon
    <2>6. /\ head' \in Int /\ head' <= MaxSlot
          /\ balanceAt' \in [AskedSlot -> [Validator -> 0..MaxBalance]]
          /\ lastExportedBlock' \in Position /\ lastPrimaryKey' \in Int
          /\ saved'.block \in Position /\ saved'.key \in Int
      BY <1>1 DEF TypeOK
    <2>7. /\ lastState' \in States /\ topic' \subseteq Record
          /\ pendingBatches' \in Seq(Seq(Record)) /\ events' \in Seq(Record)
      BY <1>1, <2>1, <2>2 DEF TypeOK
    <2> QED
      BY <1>2, <2>3, <2>4, <2>5, <2>6, <2>7 DEF TypeOK
  <1>4. DayInv'
    BY <1>1 DEF DayInv, NoState
  <1>5. \A s, v : Exported(s, v) => Underway(s, v)' /\ Exported(s, v)'
    BY <1>1 DEF Exported, Underway
  <1>6. PositionInv'
    BY <1>1, <1>2, <1>5 DEF IInv, PositionInv
  <1> QED
    BY <1>3, <1>4, <1>6 DEF IInv

(* A longer chain, or no change at all. *)
LEMMA ChainStep ==
  ASSUME TypeOK, IInv, GrowChain \/ UNCHANGED vars
  PROVE  TypeOK' /\ IInv'
  <1>1. /\ head' \in Int /\ head <= head' /\ head' <= MaxSlot /\ balanceAt' = balanceAt
        /\ pc' = pc /\ topic' = topic /\ saved' = saved
        /\ lastExportedBlock' = lastExportedBlock /\ lastPrimaryKey' = lastPrimaryKey
        /\ lastState' = lastState /\ balancesPreloaded' = balancesPreloaded
        /\ currentDailySlot' = currentDailySlot /\ pendingBatches' = pendingBatches
        /\ processingDailySlot' = processingDailySlot
        /\ processingChangesCount' = processingChangesCount
        /\ events' = events
    <2>1. CASE GrowChain
      BY <2>1, BeaconAssumption DEF GrowChain, workerVars, dayVars, TypeOK
    <2>2. CASE UNCHANGED vars
      BY <2>2 DEF vars, nodeVars, workerVars, dayVars, TypeOK
    <2> QED
      BY <2>1, <2>2
  <1>2. /\ Record' = Record /\ \A s : ChangedOn(s)' = ChangedOn(s)
        /\ \A q : ChangesUpTo(q)' = ChangesUpTo(q)
        /\ \A state, q : Knows(state, q)' <=> Knows(state, q)
    BY <1>1, NodeUnchanged
  <1>3. TypeOK'
    BY <1>1, <1>2 DEF TypeOK
  <1>4. \A s, v : /\ Exported(s, v)' <=> Exported(s, v)
                  /\ Underway(s, v)' <=> Underway(s, v)
    BY <1>1 DEF Exported, Underway
  <1>5. currentDailySlot # Null /\ currentDailySlot <= head => currentDailySlot <= head'
    BY <1>1, ToExportFacts DEF TypeOK
  <1>6. DayInv'
    BY <1>1, <1>2, <1>4, <1>5 DEF IInv, DayInv
  <1>7. PositionInv'
    BY <1>1, <1>2, <1>4 DEF IInv, PositionInv
  <1> QED
    BY <1>3, <1>6, <1>7 DEF IInv

-----------------------------------------------------------------------------
(* Theorems.                                                               *)

(* A first process starts with nothing handed out. *)
LEMMA InvInitially == Init => TypeOK /\ IInv
  <1> SUFFICES ASSUME Init PROVE TypeOK /\ IInv
    OBVIOUS
  <1>1. /\ head = 0 /\ balanceAt \in [AskedSlot -> [Validator -> 0..MaxBalance]]
        /\ pc = "work" /\ topic = {}
        /\ lastExportedBlock = StartSlot /\ lastPrimaryKey = StartKey
        /\ saved.block = StartSlot /\ saved.key = StartKey
        /\ lastState = NoState /\ balancesPreloaded = FALSE
        /\ currentDailySlot = Null /\ pendingBatches = <<>>
        /\ processingDailySlot = Null /\ processingChangesCount = 0
        /\ events = <<>>
    BY DEF Init
  <1>2. NoState \in States /\ <<>> \in Seq(Record) /\ <<>> \in Seq(Seq(Record))
    BY DEF NoState, States
  <1>3. TypeOK
    <2>1. StartSlot \in Position
      BY BeaconAssumption DEF Position
    <2>2. /\ head \in Int /\ head <= MaxSlot /\ pc \in {"work", "store", "save"}
          /\ lastExportedBlock \in Position /\ lastPrimaryKey \in Int
          /\ saved.block \in Position /\ saved.key \in Int
      BY <1>1, <2>1, BeaconAssumption
    <2>3. /\ currentDailySlot \in ToExport \cup {Null}
          /\ processingDailySlot \in ToExport \cup {Null}
          /\ processingChangesCount \in Int
      BY <1>1
    <2>4. balancesPreloaded \in BOOLEAN
      BY <1>1, Zenon
    <2>5. /\ lastState \in States /\ topic \subseteq Record
          /\ pendingBatches \in Seq(Seq(Record)) /\ events \in Seq(Record)
      BY <1>1, <1>2
    <2> QED
      BY <1>1, <2>2, <2>3, <2>4, <2>5 DEF TypeOK
  <1>4. DayInv
    BY <1>1 DEF DayInv
  <1>5. ChangesUpTo(StartSlot) = {}
    BY ToExportFacts, BeaconAssumption DEF ChangesUpTo
  <1>6. Cardinality(ChangesUpTo(StartSlot)) = 0
    BY <1>5, FS_EmptySet
  <1>7. PositionInv
    BY <1>1, <1>5, <1>6, BeaconAssumption DEF PositionInv
  <1> QED
    BY <1>3, <1>4, <1>7 DEF IInv

(* Every step keeps the invariant. *)
LEMMA InvInductive ==
  ASSUME TypeOK, IInv, [Next]_vars
  PROVE  TypeOK' /\ IInv'
  BY PendingStep, IdleStep, DayStep, StoreStep, SaveStep, CrashStep, ChainStep DEF Next, Work

(* So it holds in every reachable state. *)
LEMMA InvAlways == Spec => [](TypeOK /\ IInv)
  BY InvInitially, InvInductive, PTL DEF Spec

(* One day after the other: the worker is always at the first day after    *)
(* its position, whatever the genesis time and the lengths of slots,       *)
(* epochs and days (getLastUtcDaySlot and nextDayIndex agree).             *)
THEOREM DayByDay == Spec => []DaysInOrder
  <1>1. ASSUME TypeOK, IInv PROVE DaysInOrder
    BY <1>1 DEF IInv, DayInv, Follows, DaysInOrder
  <1> QED
    BY <1>1, InvAlways, PTL

(* The records chain, after restarts and unfinished days too. *)
THEOREM Chained == Spec => []RecordsChain
  <1>1. ASSUME TypeOK PROVE RecordsChain
    BY <1>1 DEF TypeOK, Record, RecordsChain
  <1> QED
    BY <1>1, InvAlways, PTL

(* No change of a saved day is missing in Kafka, wherever between the       *)
(* batches of a day a process ends.                                         *)
THEOREM CompleteDays == Spec => []SavedDayIsComplete
  <1>1. ASSUME IInv PROVE SavedDayIsComplete
    <2> SUFFICES ASSUME NEW s \in ToExport, NEW v \in Validator, s <= saved.block,
                        balanceAt[s][v] # BalanceBefore(s, v)
                 PROVE  Exported(s, v)
      BY DEF SavedDayIsComplete
    <2>1. <<s, v>> \in ChangesUpTo(saved.block)
      BY DEF ChangesUpTo, ChangedOn
    <2>2. \A x \in ChangesUpTo(saved.block) : Exported(x[1], x[2])
      BY <1>1 DEF IInv, PositionInv
    <2> QED
      BY <2>1, <2>2
  <1> QED
    BY <1>1, InvAlways, PTL

(* The saved key counts every change of the saved days once, however often *)
(* they were sent.                                                         *)
THEOREM KeysCount == Spec => []SavedKeyCounts
  <1>1. ASSUME TypeOK, IInv PROVE SavedKeyCounts
    <2> DEFINE sent == {<<r.slot, r.validator>> : r \in {q \in topic : q.slot <= saved.block}}
    <2>1. \A x \in sent : x \in ChangesUpTo(saved.block)
      <3> SUFFICES ASSUME NEW r \in topic, r.slot <= saved.block
                   PROVE  <<r.slot, r.validator>> \in ChangesUpTo(saved.block)
        OBVIOUS
      <3>1. r \in Record
        BY <1>1 DEF TypeOK
      <3>2. /\ r.slot \in ToExport /\ r.validator \in Validator
            /\ balanceAt[r.slot][r.validator] # BalanceBefore(r.slot, r.validator)
        BY <3>1 DEF Record
      <3> QED
        BY <3>2 DEF ChangesUpTo, ChangedOn
    <2>2. ASSUME NEW x \in ChangesUpTo(saved.block) PROVE x \in sent
      <3>1. Exported(x[1], x[2])
        BY <1>1 DEF IInv, PositionInv
      <3>2. PICK r \in topic : r.slot = x[1] /\ r.validator = x[2]
        BY <3>1 DEF Exported
      <3>3. x = <<x[1], x[2]>> /\ x[1] <= saved.block
        BY DEF ChangesUpTo
      <3> QED
        BY <3>2, <3>3
    <2>3. sent = ChangesUpTo(saved.block)
      BY <2>1, <2>2
    <2> QED
      BY <2>3, <1>1 DEF SavedKeyCounts, IInv, PositionInv
  <1> QED
    BY <1>1, InvAlways, PTL

=============================================================================
