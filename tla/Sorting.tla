------------------------------ MODULE Sorting --------------------------------
(***************************************************************************)
(* How the workers of the Ethereum family sort and filter arrays and extend *)
(* objects: stableSort of src/src/blockchains/erc20/lib/util.js, Array.sort, *)
(* which is as stable, Array.filter and the assignment of further fields.   *)
(***************************************************************************)
EXTENDS Integers, Sequences, FiniteSets, SequencesExt

(* The order of stableSort: that of the comparator, and for equals the one   *)
(* in which they stand (_position). The i-th element of the result is the    *)
(* one with i - 1 elements before it.                                        *)
stableSort(s, Less(_, _)) ==
  LET Before(j, k) == Less(s[j], s[k]) \/ (~Less(s[k], s[j]) /\ j < k)
      place == [k \in 1..Len(s) |-> 1 + Cardinality({j \in 1..Len(s) : Before(j, k)})]
  IN [i \in 1..Len(s) |-> s[CHOOSE k \in 1..Len(s) : place[k] = i]]

(* The elements at some places, as they stand. *)
ElementsAt(s, places) ==
  FlattenSeq([i \in 1..Len(s) |-> IF i \in places THEN <<s[i]>> ELSE <<>>])

(* An object with further fields *)
Extend(object, fields) ==
  [field \in DOMAIN object \cup DOMAIN fields |->
     IF field \in DOMAIN fields THEN fields[field] ELSE object[field]]

=============================================================================
