-------------------------- MODULE InternetComputer ---------------------------
(***************************************************************************)
(* How the ICP and ICRC workers turn the operations of a Rosetta            *)
(* transaction into transfers (src/src/blockchains/icp/icp_worker.ts,       *)
(* src/src/blockchains/icrc/icrc_worker.ts).                                *)
(*                                                                         *)
(* An operation has a type, an account, a signed value and the index of     *)
(* its operation_identifier; a transfer has two accounts, a value and a     *)
(* type. Symbols, hashes and timestamps are left out: a ledger has one      *)
(* token.                                                                   *)
(***************************************************************************)
EXTENDS Integers, Sequences, FiniteSets, FiniteSetsExt, SequencesExt

BURN_ADDRESS == "burn"
MINT_ADDRESS == "mint"

Transfer(from, to, value, type) == [from |-> from, to |-> to, value |-> value, type |-> type]

(* The value with its sign removed: replace(/-/g, ''). *)
Unsigned(op) == IF op.value < 0 THEN -op.value ELSE op.value

Adjacent(i, j) == i + 1 = j \/ i = j + 1

Matches(debit, credit) == Unsigned(debit) = Unsigned(credit) /\ Adjacent(debit.index, credit.index)

-----------------------------------------------------------------------------
(* ICP                                                                     *)

(* from, to and their values are those of the last debit and the last       *)
(* credit read so far; every TRANSACTION operation that makes them a pair   *)
(* yields a transfer.                                                       *)
PairAt(ops, k) ==
  LET debits  == {j \in 1..k : ops[j].type = "TRANSACTION" /\ ops[j].value < 0}
      credits == {j \in 1..k : ops[j].type = "TRANSACTION" /\ ops[j].value >= 0}
  IN IF debits # {} /\ credits # {} /\ Matches(ops[Max(debits)], ops[Max(credits)])
     THEN <<Transfer(ops[Max(debits)].account, ops[Max(credits)].account,
                     ops[Max(credits)].value, "TRANSACTION")>>
     ELSE <<>>

(* Mutant: a fee keeps its sign. *)
MutantFeeSigned(ops, k) ==
  LET op == ops[k]
  IN CASE op.type = "FEE"         -> <<Transfer(op.account, BURN_ADDRESS, op.value, "FEE")>>
       [] op.type = "MINT"        -> <<Transfer(MINT_ADDRESS, op.account, op.value, "MINT")>>
       [] op.type = "APPROVE"     -> <<Transfer(op.account, op.spender, op.value, "APPROVE")>>
       [] op.type = "TRANSACTION" -> PairAt(ops, k)
       [] OTHER                   -> <<>>

(* What the operation at place k appends. Types that are not named, BURN     *)
(* among them, append nothing.                                              *)
IcpOperation(ops, k) ==
  LET op == ops[k]
  IN CASE op.type = "FEE"         -> <<Transfer(op.account, BURN_ADDRESS, Unsigned(op), "FEE")>>
       [] op.type = "MINT"        -> <<Transfer(MINT_ADDRESS, op.account, op.value, "MINT")>>
       [] op.type = "APPROVE"     -> <<Transfer(op.account, op.spender, op.value, "APPROVE")>>
       [] op.type = "TRANSACTION" -> PairAt(ops, k)
       [] OTHER                   -> <<>>

IcpParses(ops) == Len(ops) \in 1..3

parseICPBlockTransaction(ops) == FlattenSeq([k \in 1..Len(ops) |-> IcpOperation(ops, k)])

-----------------------------------------------------------------------------
(* ICRC                                                                    *)

IcrcTypes == {"TRANSFER", "APPROVE", "MINT", "FEE", "BURN", "FEE_COLLECTOR", "SPENDER"}

(* The debit is the first operation with a negative or zero value;          *)
(* isZeroTransfer makes every later one a credit, or nothing when it is     *)
(* negative.                                                                *)
IcrcDebits(ops) ==
  LET candidates == {j \in DOMAIN ops : ops[j].type = "TRANSFER" /\ ops[j].value <= 0}
  IN IF candidates = {} THEN {} ELSE {Min(candidates)}

IcrcCredits(ops) ==
  {j \in DOMAIN ops : ops[j].type = "TRANSFER" /\ ops[j].value >= 0} \ IcrcDebits(ops)

IcrcPairs(ops) ==
  {p \in IcrcDebits(ops) \X IcrcCredits(ops) : Matches(ops[p[1]], ops[p[2]])}

(* The assertions on one transaction. *)
IcrcParses(ops) ==
  /\ Len(ops) \in 1..4
  /\ \A j \in DOMAIN ops : ops[j].type \in IcrcTypes
  /\ Cardinality(IcrcDebits(ops)) = Cardinality(IcrcCredits(ops))
  /\ Cardinality(IcrcPairs(ops)) = Cardinality(IcrcDebits(ops))

IcrcOperation(op) ==
  CASE op.type \in {"FEE", "BURN"}           -> <<Transfer(op.account, BURN_ADDRESS, Unsigned(op), op.type)>>
    [] op.type \in {"MINT", "FEE_COLLECTOR"} -> <<Transfer(MINT_ADDRESS, op.account, op.value, op.type)>>
    [] op.type = "APPROVE"                   -> <<Transfer(op.account, op.account, op.value, "APPROVE")>>
    [] OTHER                                 -> <<>>

(* The transfers follow what the other operations append. *)
parseICRCTransaction(ops) ==
  FlattenSeq([k \in 1..Len(ops) |-> IcrcOperation(ops[k])])
    \o SetToSeq({Transfer(ops[p[1]].account, ops[p[2]].account, Unsigned(ops[p[1]]), "TRANSFER") :
                   p \in IcrcPairs(ops)})

=============================================================================
